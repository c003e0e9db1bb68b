----------------------------- MODULE Books_proofs -----------------------------
(***************************************************************************)
(* Theorems about the components of MCBooks: removing books from archives,   *)
(* the words of a book, archives with their lists, the comparison of books,  *)
(* the cover of an EPUB book, and where the parsers of books are.            *)
(***************************************************************************)
EXTENDS MCBooks, FunctionTheorems, WellFoundedInduction, FiniteSetTheorems, SequenceTheorems, TLAPS

-----------------------------------------------------------------------------
(* Removing books                                                            *)

removalVars == <<shelf, wanted, toDo, phase, before, thrown>>

\* What is still to be removed is what the books stand for, in archives of its kind.
ToDoIsWanted ==
  /\ \A a \in DOMAIN toDo.books    : a \in Folders /\ toDo.books[a] = Removal!Wanted(a)
  /\ \A a \in DOMAIN toDo.pictures : a \in Removal!Pictures /\ toDo.pictures[a] = Removal!Wanted(a)

\* Of what is asked for, only what is still to be removed is there, unless an
\* archive failed.
RestToDo ==
  ~thrown => \A a \in DOMAIN shelf :
               \/ shelf[a] \cap Removal!Wanted(a) = {}
               \/ a \in DOMAIN toDo.books \/ a \in DOMAIN toDo.pictures

OnlyWantedGone ==
  /\ DOMAIN shelf \subseteq DOMAIN before
  /\ \A a \in DOMAIN shelf : shelf[a] # {}
  /\ \A a \in DOMAIN before : /\ before[a] \ Removal!Wanted(a) \subseteq Removal!Left(a)
                              /\ Removal!Left(a) \subseteq before[a]

RemovalInv ==
  /\ wanted \in SUBSET (Folders \X BookFiles)
  /\ DOMAIN before \subseteq Folders \cup Removal!Pictures
  /\ phase \in {"collect", "books", "pictures"} /\ DOMAIN toDo = {"books", "pictures"}
  /\ phase = "collect" => shelf = before /\ ~thrown
  /\ OnlyWantedGone /\ ToDoIsWanted
  /\ phase # "collect" => RestToDo

LEMMA RemovalInit == Removal!Init => RemovalInv
<1> SUFFICES ASSUME Removal!Init PROVE RemovalInv
  OBVIOUS
<1>1. /\ wanted \in SUBSET (Folders \X BookFiles)
      /\ toDo = [books |-> <<>>, pictures |-> <<>>]
      /\ phase = "collect" /\ before = shelf /\ ~thrown
  BY DEF Removal!Init
<1>2. PICK present, names :
        /\ present \in SUBSET (Folders \cup Removal!Pictures)
        /\ names \in [present -> (SUBSET BookFiles) \ {{}}]
        /\ shelf = [a \in present |-> IF a \in Folders THEN names[a]
                                      ELSE {Removal!PictureName(a[1], file) : file \in names[a]}]
  BY DEF Removal!Init
<1>3. DOMAIN shelf \subseteq Folders \cup Removal!Pictures /\ \A a \in DOMAIN shelf : shelf[a] # {}
  <2>1. DOMAIN shelf = present
    BY <1>2
  <2>2. ASSUME NEW a \in present PROVE shelf[a] # {}
    <3>1. PICK file \in BookFiles : file \in names[a]
      BY <1>2
    <3>2. CASE a \in Folders
      BY <1>2, <3>1, <3>2
    <3>3. CASE a \notin Folders
      <4>1. shelf[a] = {Removal!PictureName(a[1], f) : f \in names[a]}
        BY <1>2, <3>3
      <4>2. QED
        BY <3>1, <4>1
    <3>4. QED
      BY <3>2, <3>3
  <2>3. QED
    BY <1>2, <2>1, <2>2
<1>4. DOMAIN toDo = {"books", "pictures"} /\ DOMAIN toDo.books = {} /\ DOMAIN toDo.pictures = {}
  BY <1>1
<1>5. OnlyWantedGone
  BY <1>1, <1>3 DEF OnlyWantedGone, Removal!Left
<1>6. ToDoIsWanted
  BY <1>4 DEF ToDoIsWanted
<1>7. QED
  BY <1>1, <1>3, <1>4, <1>5, <1>6 DEF RemovalInv

\* What is collected is what the books stand for, in every archive that has any of it.
LEMMA CollectStep == ASSUME RemovalInv, Removal!Collect PROVE RemovalInv'
<1> DEFINE bookFiles == Removal!CollectBookFiles
           pics == Removal!CollectImageFiles(bookFiles)
<1>1. /\ phase = "collect" /\ phase' \in {"books", "pictures"}
      /\ toDo' = [books |-> bookFiles, pictures |-> pics]
      /\ UNCHANGED <<shelf, wanted, before, thrown>>
  BY DEF Removal!Collect
<1>2. /\ DOMAIN bookFiles = {book[1] : book \in wanted}
      /\ \A a \in DOMAIN bookFiles : a \in Folders /\ bookFiles[a] = Removal!Wanted(a)
      /\ \A a \in Folders \ DOMAIN bookFiles : Removal!Wanted(a) = {}
  BY DEF RemovalInv, Removal!CollectBookFiles, Removal!Wanted
<1>3. DOMAIN pics = {p \in Removal!Pictures \cap DOMAIN shelf :
                         \E folder \in DOMAIN bookFiles : BaseName(folder) = p[2]}
  BY DEF Removal!CollectImageFiles
<1>4. ASSUME NEW a \in Removal!Pictures, a \notin Folders
      PROVE  /\ a \in DOMAIN pics => pics[a] = Removal!Wanted(a)
             /\ a \in DOMAIN shelf \ DOMAIN pics => Removal!Wanted(a) = {}
  <2>1. Removal!Wanted(a) =
          {Removal!PictureName(a[1], book[2]) : book \in {b \in wanted : BaseName(b[1]) = a[2]}}
    BY <1>4 DEF Removal!Wanted
  <2>2. CASE a \in DOMAIN pics
    <3>1. pics[a] = UNION {{Removal!PictureName(a[1], file) : file \in bookFiles[folder]}
                               : folder \in Removal!OfArchives(bookFiles, a[2])}
      BY <2>2, <1>3 DEF Removal!CollectImageFiles
    <3>2. \A folder \in DOMAIN bookFiles :
            bookFiles[folder] = {book[2] : book \in {b \in wanted : b[1] = folder}}
      BY DEF Removal!CollectBookFiles
    <3>3. pics[a] \subseteq Removal!Wanted(a)
      BY <2>1, <3>1, <3>2, <1>2 DEF Removal!OfArchives
    <3>4. ASSUME NEW book \in wanted, BaseName(book[1]) = a[2]
          PROVE  Removal!PictureName(a[1], book[2]) \in pics[a]
      <4>1. book[1] \in Removal!OfArchives(bookFiles, a[2]) /\ book[2] \in bookFiles[book[1]]
        BY <3>4, <3>2, <1>2 DEF Removal!OfArchives
      <4>2. QED
        BY <4>1, <3>1
    <3>5. QED
      BY <2>2, <2>1, <3>3, <3>4
  <2>3. CASE a \in DOMAIN shelf \ DOMAIN pics
    <3>1. \A folder \in DOMAIN bookFiles : BaseName(folder) # a[2]
      BY <2>3, <1>3
    <3>2. \A book \in wanted : BaseName(book[1]) # a[2]
      BY <3>1, <1>2
    <3>3. QED
      BY <2>3, <2>1, <3>2
  <2>4. QED
    BY <2>2, <2>3
<1>5. \A a : Removal!Wanted(a)' = Removal!Wanted(a) /\ Removal!Left(a)' = Removal!Left(a)
  BY <1>1 DEF Removal!Wanted, Removal!Left
<1>6. Removal!Pictures \cap Folders = {}
  BY RemovalAssumption
<1>7. /\ DOMAIN toDo' = {"books", "pictures"}
      /\ toDo'.books = bookFiles /\ toDo'.pictures = pics
  BY <1>1
<1> HIDE DEF bookFiles, pics
<1>8. ToDoIsWanted'
  BY <1>2, <1>3, <1>4, <1>5, <1>6, <1>7 DEF ToDoIsWanted
<1>9. OnlyWantedGone'
  BY <1>1, <1>5 DEF RemovalInv, OnlyWantedGone
<1>10. RestToDo'
  <2> SUFFICES ASSUME NEW a \in DOMAIN shelf
               PROVE  \/ shelf[a] \cap Removal!Wanted(a) = {}
                      \/ a \in DOMAIN bookFiles \/ a \in DOMAIN pics
    BY <1>1, <1>5, <1>7 DEF RestToDo
  <2>1. a \in Folders \/ (a \in Removal!Pictures /\ a \notin Folders)
    BY DEF RemovalInv, OnlyWantedGone
  <2>2. QED
    BY <2>1, <1>2, <1>4
<1>11. QED
  BY <1>1, <1>7, <1>8, <1>9, <1>10 DEF RemovalInv

LEMMA RemoveFromStep ==
  ASSUME RemovalInv, phase # "collect", NEW archive \in DOMAIN toDo[phase], Removal!RemoveFrom(archive)
  PROVE  RemovalInv'
<1> DEFINE rest == shelf[archive] \ toDo[phase][archive]
<1>1. /\ archive \in DOMAIN shelf
      /\ shelf' = IF rest = {} THEN Removal!Restrict(shelf, DOMAIN shelf \ {archive})
                                ELSE [shelf EXCEPT ![archive] = rest]
      /\ toDo' = [toDo EXCEPT ![phase] = Removal!Restrict(toDo[phase], DOMAIN toDo[phase] \ {archive})]
      /\ UNCHANGED <<wanted, phase, before, thrown>>
  BY DEF Removal!RemoveFrom
<1>2. phase \in {"books", "pictures"} /\ DOMAIN toDo = {"books", "pictures"}
  BY DEF RemovalInv
<1>3. toDo[phase][archive] = Removal!Wanted(archive)
  BY <1>2 DEF RemovalInv, ToDoIsWanted
<1>4. /\ DOMAIN toDo' = {"books", "pictures"}
      /\ \A which \in {"books", "pictures"} :
           /\ DOMAIN toDo'[which] = DOMAIN toDo[which] \ (IF which = phase THEN {archive} ELSE {})
           /\ \A a \in DOMAIN toDo'[which] : toDo'[which][a] = toDo[which][a]
  BY <1>1, <1>2 DEF Removal!Restrict
<1>5. \A a : Removal!Wanted(a)' = Removal!Wanted(a)
  BY <1>1 DEF Removal!Wanted
<1>6. /\ DOMAIN shelf' = DOMAIN shelf \ (IF rest = {} THEN {archive} ELSE {})
      /\ \A a \in DOMAIN shelf' : shelf'[a] = IF a = archive THEN rest ELSE shelf[a]
  BY <1>1 DEF Removal!Restrict
<1>7. /\ Removal!Left(archive)' = rest
      /\ \A a : a # archive => Removal!Left(a)' = Removal!Left(a)
  BY <1>1, <1>6 DEF Removal!Left
<1>8. Removal!Left(archive) = shelf[archive] /\ rest = Removal!Left(archive) \ Removal!Wanted(archive)
  BY <1>1, <1>3 DEF Removal!Left
<1> HIDE DEF rest
<1>9. OnlyWantedGone'
  <2>1. OnlyWantedGone /\ before' = before
    BY <1>1 DEF RemovalInv
  <2>2. DOMAIN shelf' \subseteq DOMAIN before /\ \A a \in DOMAIN shelf' : shelf'[a] # {}
    BY <2>1, <1>6 DEF OnlyWantedGone
  <2>3. ASSUME NEW a \in DOMAIN before
        PROVE  /\ before[a] \ Removal!Wanted(a) \subseteq Removal!Left(a)'
               /\ Removal!Left(a)' \subseteq before[a]
    <3>1. CASE a = archive
      BY <3>1, <2>1, <1>7, <1>8 DEF OnlyWantedGone
    <3>2. CASE a # archive
      BY <3>2, <2>1, <1>7 DEF OnlyWantedGone
    <3>3. QED
      BY <3>1, <3>2
  <2>4. QED
    BY <2>1, <2>2, <2>3, <1>5 DEF OnlyWantedGone
<1>10. ToDoIsWanted'
  BY <1>4, <1>5 DEF RemovalInv, ToDoIsWanted
<1>11. RestToDo'
  <2>1. RestToDo /\ thrown' = thrown
    BY <1>1 DEF RemovalInv
  <2>2. ASSUME NEW a \in DOMAIN shelf', ~thrown
        PROVE  \/ shelf'[a] \cap Removal!Wanted(a) = {}
               \/ a \in DOMAIN toDo'.books \/ a \in DOMAIN toDo'.pictures
    <3>1. CASE a = archive
      BY <3>1, <1>6, <1>8
    <3>2. CASE a # archive
      <4>1. a \in DOMAIN shelf /\ shelf'[a] = shelf[a]
        BY <3>2, <1>6
      <4>2. QED
        BY <2>1, <2>2, <3>2, <4>1, <1>4 DEF RestToDo
    <3>3. QED
      BY <3>1, <3>2
  <2>3. QED
    BY <2>1, <2>2, <1>5 DEF RestToDo
<1>12. QED
  BY <1>1, <1>2, <1>4, <1>9, <1>10, <1>11 DEF RemovalInv

LEMMA RemovalStep == ASSUME RemovalInv, [Removal!Next]_removalVars PROVE RemovalInv'
<1>1. CASE UNCHANGED removalVars
  BY <1>1 DEF removalVars, RemovalInv, OnlyWantedGone, ToDoIsWanted, RestToDo, Removal!Wanted, Removal!Left
<1>2. CASE Removal!Collect
  BY <1>2, CollectStep
<1>3. ASSUME phase # "collect", NEW archive \in DOMAIN toDo[phase], Removal!RemoveFrom(archive)
      PROVE  RemovalInv'
  BY <1>3, RemoveFromStep
<1>4. ASSUME phase # "collect", Removal!RemoveFails PROVE RemovalInv'
  <2>1. /\ toDo' = [toDo EXCEPT ![phase] = <<>>] /\ thrown' = TRUE
        /\ UNCHANGED <<shelf, wanted, phase, before>>
    BY <1>4 DEF Removal!RemoveFails
  <2>2. phase \in {"books", "pictures"} /\ DOMAIN toDo = {"books", "pictures"}
    BY <1>4 DEF RemovalInv
  <2>3. DOMAIN toDo' = {"books", "pictures"}
    BY <2>1, <2>2
  <2>4. \A a : Removal!Wanted(a)' = Removal!Wanted(a) /\ Removal!Left(a)' = Removal!Left(a)
    BY <2>1 DEF Removal!Wanted, Removal!Left
  <2>5. \A which \in {"books", "pictures"} :
          DOMAIN toDo'[which] = {} \/ toDo'[which] = toDo[which]
    BY <2>1, <2>2
  <2>6. ToDoIsWanted'
    BY <2>4, <2>5 DEF RemovalInv, ToDoIsWanted
  <2>7. OnlyWantedGone' /\ RestToDo'
    BY <2>1, <2>4 DEF RemovalInv, OnlyWantedGone, RestToDo
  <2>8. QED
    BY <2>1, <2>2, <2>3, <2>6, <2>7 DEF RemovalInv
<1>5. ASSUME phase # "collect", Removal!RemoveOthers PROVE RemovalInv'
  <2>1. phase' \in {"books", "pictures"} /\ UNCHANGED <<shelf, wanted, toDo, before, thrown>>
    BY <1>5 DEF Removal!RemoveOthers
  <2>2. \A a : Removal!Wanted(a)' = Removal!Wanted(a) /\ Removal!Left(a)' = Removal!Left(a)
    BY <2>1 DEF Removal!Wanted, Removal!Left
  <2>3. QED
    BY <1>5, <2>1, <2>2 DEF RemovalInv, OnlyWantedGone, ToDoIsWanted, RestToDo
<1>6. QED
  BY <1>1, <1>2, <1>3, <1>4, <1>5 DEF Removal!Next, Removal!RemoveFiles

LEMMA RemovalShows == RemovalInv => Removal!RemovedExactly
<1> SUFFICES ASSUME RemovalInv PROVE Removal!RemovedExactly
  OBVIOUS
<1>1. toDo.books = <<>> => DOMAIN toDo.books = {}
  OBVIOUS
<1>2. toDo.pictures = <<>> => DOMAIN toDo.pictures = {}
  OBVIOUS
<1>3. {} \notin {shelf[a] : a \in DOMAIN shelf}
  BY DEF RemovalInv, OnlyWantedGone
<1>4. QED
  BY <1>1, <1>2, <1>3 DEF RemovalInv, OnlyWantedGone, RestToDo, Removal!RemovedExactly

-----------------------------------------------------------------------------
(* The words of a book                                                       *)

hashVars == <<stack, characters, stopped, handler, pieces, texts, hollow>>

\* The words that are counted of those read, when so many may have been lost.
Counted(open_, read, lost) ==
  \A k \in DOMAIN open_ : open_[k] <= read[k] /\ read[k] <= open_[k] + lost

\* A text would be taken for the data of a picture that has ended without any.
Pending == handler.picId # Hash!NoId /\ stack \notin Hash!Binaries

\* The texts that may have been lost.
Lost == IF Pending THEN hollow - 1 ELSE hollow

\* The names of elements.
HashNames == {"FictionBook", "description", "body", "title-info", "book-title", "annotation",
              "coverpage", "p", "section", "binary", "image"}

IsHandler(h) ==
  /\ {"open", "picId", "isBinary"} \subseteq DOMAIN h
  /\ h.open \in Seq(Nat)

HashInv ==
  /\ stack \in Seq(HashNames) /\ \A k \in 1 .. Len(stack) - 1 : stack[k] # "binary"
  /\ characters \in {"none", "blank", "text"}
  /\ IsHandler(handler) /\ texts \in Seq(Nat) /\ Len(texts) = Len(handler.open)
  /\ hollow \in Nat /\ Lost \in Nat
  /\ stack \in Hash!Binaries => handler.picId # Hash!NoId /\ handler.isBinary
  /\ Counted(handler.open, texts, Lost)

LEMMA HashInit == Hash!Init => HashInv
<1> SUFFICES ASSUME Hash!Init PROVE HashInv
  OBVIOUS
<1>1. /\ stack = <<>> /\ characters = "none" /\ handler = Hash!Fb2Parser
      /\ texts = <<0>> /\ hollow = 0
  BY DEF Hash!Init, Hash!Reader!Init
<1>2. handler.open = <<0>> /\ IsHandler(handler) /\ handler.picId = Hash!NoId
  BY <1>1 DEF Hash!Fb2Parser, IsHandler
<1>3. stack \notin Hash!Binaries
  BY <1>1 DEF Hash!Binaries, Hash!Body
<1>4. Lost = 0
  BY <1>1, <1>2 DEF Lost, Pending
<1>5. Counted(handler.open, texts, Lost)
  BY <1>1, <1>2, <1>4 DEF Counted
<1>6. QED
  BY <1>1, <1>2, <1>3, <1>4, <1>5 DEF HashInv

LEMMA BinaryPath ==
  ASSUME NEW path, path \in Hash!Binaries
  PROVE  /\ Len(path) \in {2, 3} /\ path[Len(path)] = "binary"
         /\ Len(path) = 3 => path[2] # "binary"
<1>1. Hash!Body \in Seq(HashNames) /\ Len(Hash!Body) = 2 /\ "binary" \in HashNames /\ Hash!Body[2] = "body"
  BY DEF Hash!Body, HashNames
<1>2. CASE path = <<"FictionBook", "binary">>
  BY <1>2
<1>3. CASE path = Append(Hash!Body, "binary")
  <2>1. Len(path) = Len(Hash!Body) + 1
    BY <1>1, <1>3, AppendProperties
  <2>2. path[Len(Hash!Body) + 1] = "binary"
    BY <1>1, <1>3, AppendProperties
  <2>3. path[2] = Hash!Body[2]
    BY <1>1, <1>3
  <2>4. QED
    BY <1>1, <2>1, <2>2, <2>3
<1>4. QED
  BY <1>2, <1>3 DEF Hash!Binaries

\* A title does not stand in a body.
LEMMA TitleOutside == ~Hash!IsPrefix(Hash!Body, Hash!Title)
<1>1. Hash!Body = <<"FictionBook", "body">> /\ Len(Hash!Body) = 2 /\ Hash!Body[2] = "body"
  BY DEF Hash!Body
<1> DEFINE info == <<"FictionBook", "description", "title-info">>
<1>2. info \in Seq(HashNames) /\ Len(info) = 3 /\ info[2] = "description" /\ Hash!Title = Append(info, "book-title")
  <2>1. info \in Seq(HashNames)
    BY DEF HashNames
  <2>2. Len(info) = 3 /\ info[2] = "description"
    OBVIOUS
  <2>3. QED
    BY <2>1, <2>2 DEF Hash!Title, Hash!TitleInfo
<1> HIDE DEF info
<1>3. Hash!Title \in Seq(HashNames) /\ Len(Hash!Title) = 4 /\ Hash!Title[2] = "description"
  <2>1. "book-title" \in HashNames
    BY DEF HashNames
  <2>2. Append(info, "book-title") \in Seq(HashNames) /\ Len(Append(info, "book-title")) = Len(info) + 1
    BY <1>2, <2>1, AppendProperties
  <2>3. Append(info, "book-title")[2] = "description"
    BY <1>2
  <2>4. QED
    BY <1>2, <2>2, <2>3
<1>4. SubSeq(Hash!Body, 1, 2)[2] = "body" /\ SubSeq(Hash!Title, 1, 2)[2] = "description"
  BY <1>1, <1>3
<1>5. QED
  BY <1>1, <1>4 DEF Hash!IsPrefix

\* Counting one more everywhere keeps what is counted a sequence of numbers.
LEMMA Counting ==
  ASSUME NEW s \in Seq(Nat)
  PROVE  LET t == [k \in DOMAIN s |-> s[k] + 1] IN
         t \in Seq(Nat) /\ Len(t) = Len(s) /\ DOMAIN t = DOMAIN s
<1>1. DOMAIN s = 1 .. Len(s) /\ Len(s) \in Nat /\ \A k \in DOMAIN s : s[k] + 1 \in Nat
  BY LenProperties
<1>2. QED
  BY <1>1

\* What the handler and the history are after the text read before an event.
LEMMA FlushCounts ==
  ASSUME HashInv
  PROVE  LET flushed == Hash!Reader!Flushed IN
         /\ flushed.go = TRUE /\ IsHandler(flushed.self)
         /\ Hash!Read \in Seq(Nat) /\ Len(Hash!Read) = Len(flushed.self.open)
         /\ flushed.self.isBinary = handler.isBinary
         /\ stack \in Hash!Binaries /\ characters = "text" => flushed.self.picId = Hash!NoId
         /\ characters # "text" => flushed.self = handler
         /\ stack \in Hash!Binaries => Counted(flushed.self.open, Hash!Read, hollow)
         /\ stack \notin Hash!Binaries =>
              /\ Counted(flushed.self.open, Hash!Read, hollow)
              /\ flushed.self.picId # Hash!NoId => hollow - 1 \in Nat /\ Counted(flushed.self.open, Hash!Read, hollow - 1)
<1> DEFINE p == Hash!Reader!Flushed.self
<1>1. CASE characters # "text"
  <2>1. Hash!Reader!Flushed = [self |-> handler, go |-> TRUE] /\ Hash!Read = texts
    BY <1>1 DEF Hash!Reader!Flushed, Hash!Read
  <2>2. Counted(handler.open, texts, hollow)
    BY DEF HashInv, Counted, Lost, IsHandler
  <2>3. QED
    BY <1>1, <2>1, <2>2 DEF HashInv, Lost, Pending
<1>2. CASE characters = "text" /\ stack \in Hash!Binaries
  <2>1. handler.picId # Hash!NoId /\ handler.isBinary
    BY <1>2 DEF HashInv
  <2>2. Hash!Reader!Flushed = [self |-> Hash!AddPicture(handler), go |-> TRUE]
    BY <1>2, <2>1 DEF Hash!Reader!Flushed, Hash!HashCharacters, Hash!True
  <2>3. /\ IsHandler(p) /\ p.open = handler.open /\ p.picId = Hash!NoId /\ p.isBinary = handler.isBinary
    BY <2>2 DEF Hash!AddPicture, HashInv, IsHandler
  <2>4. Hash!Read = texts
    BY <1>2 DEF Hash!Read
  <2>5. Lost = hollow
    BY <1>2 DEF Lost, Pending
  <2>6. QED
    BY <1>2, <2>2, <2>3, <2>4, <2>5 DEF HashInv
<1>3. CASE characters = "text" /\ stack \notin Hash!Binaries /\ handler.picId # Hash!NoId
  <2>1. Hash!Reader!Flushed = [self |-> Hash!DropPicture(handler), go |-> TRUE]
    BY <1>3 DEF Hash!Reader!Flushed, Hash!HashCharacters, Hash!True
  <2>2. /\ IsHandler(p) /\ p.open = handler.open /\ p.picId = Hash!NoId /\ p.isBinary = handler.isBinary
    BY <2>1 DEF Hash!DropPicture, HashInv, IsHandler
  <2>3. Hash!Read = texts \/ Hash!Read = [k \in DOMAIN texts |-> texts[k] + 1]
    BY DEF Hash!Read, Hash!CountUpwards
  <2>4. Hash!Read \in Seq(Nat) /\ Len(Hash!Read) = Len(texts)
        /\ \A k \in DOMAIN texts : texts[k] <= Hash!Read[k] /\ Hash!Read[k] <= texts[k] + 1
    BY <2>3, Counting DEF HashInv
  <2>5. Lost = hollow - 1
    BY <1>3 DEF Lost, Pending
  <2>6. ASSUME NEW k \in DOMAIN handler.open
        PROVE  handler.open[k] <= Hash!Read[k] /\ Hash!Read[k] <= handler.open[k] + hollow
    <3>1. /\ k \in DOMAIN texts /\ handler.open[k] \in Nat /\ texts[k] \in Nat /\ Hash!Read[k] \in Nat
          /\ hollow \in Nat
      <4>1. /\ handler.open \in Seq(Nat) /\ texts \in Seq(Nat) /\ hollow \in Nat
            /\ Len(texts) = Len(handler.open)
        BY DEF HashInv, IsHandler
      <4>2. DOMAIN texts = DOMAIN handler.open /\ DOMAIN Hash!Read = DOMAIN texts
        BY <4>1, <2>4
      <4>3. handler.open[k] \in Nat
        BY <4>1
      <4>4. texts[k] \in Nat
        BY <4>1, <4>2
      <4>5. Hash!Read[k] \in Nat
        BY <4>2, <2>4
      <4>6. QED
        BY <4>1, <4>2, <4>3, <4>4, <4>5
    <3>2. handler.open[k] <= texts[k] /\ texts[k] <= handler.open[k] + (hollow - 1)
      BY <2>5 DEF HashInv, Counted
    <3>3. QED
      BY <3>1, <3>2, <2>4
  <2>7. QED
    BY <1>3, <2>1, <2>2, <2>4, <2>6 DEF HashInv, Counted
<1>4. CASE characters = "text" /\ stack \notin Hash!Binaries /\ handler.picId = Hash!NoId
  <2>1. Hash!Reader!Flushed = [self |-> Hash!AddWord(handler, stack), go |-> TRUE]
    BY <1>4 DEF Hash!Reader!Flushed, Hash!HashCharacters, Hash!True
  <2>2. /\ IsHandler(p) /\ p.picId = Hash!NoId /\ p.isBinary = handler.isBinary
        /\ p.open = IF Hash!IsPrefix(Hash!Body, stack) THEN [k \in DOMAIN handler.open |-> handler.open[k] + 1]
                    ELSE handler.open
    <3> DEFINE noted == IF handler.isAnnotation THEN [handler EXCEPT !.annotation = @ + 1] ELSE handler
    <3>1. IsHandler(noted) /\ noted.open = handler.open /\ noted.picId = handler.picId
          /\ noted.isBinary = handler.isBinary
      BY DEF HashInv, IsHandler
    <3>2. p = CASE stack = Hash!Title -> [noted EXCEPT !.title = TRUE]
                [] Hash!IsPrefix(Hash!Body, stack) -> [noted EXCEPT !.open = Hash!CountUpwards(@)]
                [] OTHER -> noted
      BY <2>1 DEF Hash!AddWord
    <3> HIDE DEF noted, p
    <3>3. CASE stack = Hash!Title
      <4>1. p = [noted EXCEPT !.title = TRUE]
        BY <3>2, <3>3, TitleOutside
      <4>2. QED
        BY <4>1, <3>1, <3>3, <1>4, TitleOutside DEF IsHandler
    <3>4. CASE stack # Hash!Title /\ Hash!IsPrefix(Hash!Body, stack)
      <4>1. p = [noted EXCEPT !.open = Hash!CountUpwards(@)]
        BY <3>2, <3>4
      <4>2. noted.open \in Seq(Nat) /\ Hash!CountUpwards(noted.open) \in Seq(Nat)
        BY <3>1, Counting DEF IsHandler, Hash!CountUpwards
      <4>3. QED
        BY <4>1, <4>2, <3>1, <3>4, <1>4 DEF IsHandler, Hash!CountUpwards
    <3>5. CASE stack # Hash!Title /\ ~Hash!IsPrefix(Hash!Body, stack)
      <4>1. p = noted
        BY <3>2, <3>5
      <4>2. QED
        BY <4>1, <3>1, <3>5, <1>4
    <3>6. QED
      BY <3>3, <3>4, <3>5
  <2>3. Hash!Read = IF Hash!IsPrefix(Hash!Body, stack) THEN [k \in DOMAIN texts |-> texts[k] + 1] ELSE texts
    BY <1>4 DEF Hash!Read, Hash!CountUpwards
  <2>4. Lost = hollow /\ handler.open \in Seq(Nat) /\ texts \in Seq(Nat)
    BY <1>4 DEF Lost, Pending, HashInv, IsHandler
  <2>5. /\ p.open \in Seq(Nat) /\ Len(p.open) = Len(handler.open)
        /\ Hash!Read \in Seq(Nat) /\ Len(Hash!Read) = Len(texts)
    BY <2>2, <2>3, <2>4, Counting
  <2>6. Counted(p.open, Hash!Read, hollow)
    <3>1. ASSUME NEW k \in DOMAIN handler.open
          PROVE  /\ handler.open[k] \in Nat /\ texts[k] \in Nat /\ hollow \in Nat /\ k \in DOMAIN texts
                 /\ handler.open[k] <= texts[k] /\ texts[k] <= handler.open[k] + hollow
      <4>1. DOMAIN handler.open = DOMAIN texts
        BY <2>4 DEF HashInv
      <4>2. handler.open[k] \in Nat
        <5>1. handler.open \in Seq(Nat)
          BY <2>4
        <5>2. QED
          BY <5>1, SMTT(30)
      <4>3. texts[k] \in Nat
        <5>1. texts \in Seq(Nat) /\ k \in DOMAIN texts
          BY <4>1, <2>4
        <5>2. QED
          BY <5>1, SMTT(30)
      <4>4. QED
        BY <4>1, <4>2, <4>3, <2>4 DEF HashInv, Counted
    <3>2. CASE Hash!IsPrefix(Hash!Body, stack)
      BY <3>1, <3>2, <2>2, <2>3 DEF Counted
    <3>3. CASE ~Hash!IsPrefix(Hash!Body, stack)
      BY <3>1, <3>3, <2>2, <2>3 DEF Counted
    <3>4. QED
      BY <3>2, <3>3
  <2>7. QED
    BY <1>4, <2>1, <2>2, <2>5, <2>6 DEF HashInv
<1>5. QED
  BY <1>1, <1>2, <1>3, <1>4

\* A path tells sections, pictures, the annotation and the cover apart.
LEMMA OtherPaths ==
  /\ Len(Hash!CoverpageImage) = 5 /\ Hash!CoverpageImage[4] = "coverpage"
  /\ Hash!Annotation[Len(Hash!Annotation)] = "annotation"
  /\ Hash!CoverpageImage[Len(Hash!CoverpageImage)] = "image"
  /\ Hash!Annotation # Hash!CoverpageImage
<1> DEFINE info == <<"FictionBook", "description", "title-info">>
<1>1. info \in Seq(HashNames) /\ Len(info) = 3
  <2>1. info \in Seq(HashNames)
    BY DEF HashNames
  <2>2. Len(info) = 3
    OBVIOUS
  <2>3. QED
    BY <2>1, <2>2
<1>2. Hash!Annotation = Append(info, "annotation") /\ Hash!CoverpageImage = info \o <<"coverpage", "image">>
  BY DEF Hash!Annotation, Hash!CoverpageImage, Hash!TitleInfo
<1> HIDE DEF info
<1>3. "annotation" \in HashNames /\ <<"coverpage", "image">> \in Seq(HashNames)
  BY DEF HashNames
<1>4. Hash!Annotation[Len(Hash!Annotation)] = "annotation"
  <2>1. Len(Hash!Annotation) = Len(info) + 1
    BY <1>1, <1>2, <1>3, AppendProperties
  <2>2. Hash!Annotation[Len(info) + 1] = "annotation"
    BY <1>1, <1>2, <1>3, AppendProperties
  <2>3. QED
    BY <2>1, <2>2
<1>5. /\ Len(Hash!CoverpageImage) = 5 /\ Hash!CoverpageImage[4] = "coverpage"
      /\ Hash!CoverpageImage[5] = "image"
  <2> DEFINE picture == <<"coverpage", "image">>
  <2>1. picture \in Seq(HashNames) /\ Len(picture) = 2 /\ picture[1] = "coverpage" /\ picture[2] = "image"
    BY <1>3
  <2>2. Hash!CoverpageImage = info \o picture
    BY <1>2
  <2> HIDE DEF picture
  <2>3. /\ Len(info \o picture) = Len(info) + Len(picture)
        /\ \A i \in 1 .. Len(info) + Len(picture) :
             (info \o picture)[i] = IF i <= Len(info) THEN info[i] ELSE picture[i - Len(info)]
    BY <1>1, <2>1, ConcatProperties
  <2>4. Len(info \o picture) = 5 /\ (info \o picture)[4] = picture[1] /\ (info \o picture)[5] = picture[2]
    BY <1>1, <2>1, <2>3
  <2>5. QED
    BY <2>1, <2>2, <2>4
<1>6. QED
  BY <1>4, <1>5

\* What a handler is after the beginning of an element.
Started(p, name, path, id, result) ==
  LET q == result.self IN
  /\ result.go = TRUE /\ IsHandler(q)
  /\ q.open = IF name = "section" THEN Append(p.open, 0) ELSE p.open
  /\ name # "section" /\ path \in Hash!Binaries => q.picId = id /\ q.isBinary = TRUE
  /\ path \notin Hash!Binaries => q.picId = p.picId /\ q.isBinary = p.isBinary

LEMMA HashStarts ==
  ASSUME NEW p, IsHandler(p), NEW path, NEW name, name = path[Len(path)], NEW id
  PROVE  Started(p, name, path, id, Hash!HashStartElement(p, name, path, id))
<1> DEFINE result == Hash!HashStartElement(p, name, path, id)
           q      == result.self
<1>1. /\ path \in Hash!Binaries => name = "binary"
      /\ path = Hash!Annotation => name = "annotation"
      /\ path = Hash!CoverpageImage => name = "image"
  BY BinaryPath, OtherPaths
<1>2. CASE name = "section"
  <2>1. result = [self |-> [p EXCEPT !.open = Append(@, 0)], go |-> TRUE]
    BY <1>1, <1>2 DEF Hash!HashStartElement, Hash!True
  <2>2. Append(p.open, 0) \in Seq(Nat)
    BY DEF IsHandler
  <2>3. QED
    BY <1>1, <1>2, <2>1, <2>2 DEF Started, IsHandler
<1>3. CASE path \in Hash!Binaries
  <2>1. result = [self |-> [p EXCEPT !.isBinary = TRUE, !.picId = id], go |-> TRUE]
    BY <1>1, <1>3 DEF Hash!HashStartElement, Hash!True
  <2>2. result.go = TRUE /\ q = [[p EXCEPT !.isBinary = TRUE] EXCEPT !.picId = id]
    BY <2>1
  <2>3. /\ q.isBinary = TRUE /\ q.picId = id /\ q.open = p.open /\ DOMAIN q = DOMAIN p
    <3> DEFINE marked == [p EXCEPT !.isBinary = TRUE]
    <3>1. marked.isBinary = TRUE /\ marked.open = p.open /\ DOMAIN marked = DOMAIN p
      BY DEF IsHandler
    <3>2. q = [marked EXCEPT !.picId = id]
      BY <2>2
    <3> HIDE DEF marked, q
    <3>3. QED
      BY <3>1, <3>2 DEF IsHandler
  <2>4. QED
    BY <1>1, <1>3, <2>2, <2>3 DEF Started, IsHandler
<1>4. CASE name # "section" /\ path \notin Hash!Binaries
  <2>1. \/ result = [self |-> [p EXCEPT !.isAnnotation = TRUE], go |-> TRUE]
        \/ result = [self |-> [p EXCEPT !.coverPage = id], go |-> TRUE]
        \/ result = [self |-> p, go |-> TRUE]
    <3>1. CASE path = Hash!Annotation
      BY <1>1, <1>4, <3>1 DEF Hash!HashStartElement, Hash!True
    <3>2. CASE path = Hash!CoverpageImage
      BY <1>1, <1>4, <3>2 DEF Hash!HashStartElement, Hash!True
    <3>3. CASE path # Hash!Annotation /\ path # Hash!CoverpageImage
      BY <1>4, <3>3 DEF Hash!HashStartElement, Hash!True
    <3>4. QED
      BY <3>1, <3>2, <3>3
  <2>2. QED
    BY <1>4, <2>1 DEF Started, IsHandler
<1>5. QED
  BY <1>2, <1>3, <1>4 DEF Started

\* What a handler is after the end of an element.
Ended(p, name, result) ==
  LET q == result.self IN
  /\ DOMAIN result = {"self", "go"} /\ result.go = TRUE
  /\ {"open", "picId", "isBinary"} \subseteq DOMAIN q
  /\ q.open = IF name = "section" THEN Front(p.open) ELSE p.open
  /\ q.picId = p.picId

LEMMA HashEnds ==
  ASSUME NEW p, IsHandler(p), NEW path, NEW name, name = path[Len(path)]
  PROVE  Ended(p, name, Hash!HashEndElement(p, name, path))
<1> DEFINE result == Hash!HashEndElement(p, name, path)
           q      == result.self
<1>1. /\ path \in Hash!Binaries => name = "binary"
      /\ path = Hash!Annotation => name = "annotation"
  BY BinaryPath, OtherPaths
<1>2. CASE path \in Hash!Binaries
  <2>1. result = [self |-> [p EXCEPT !.isBinary = FALSE], go |-> TRUE]
    BY <1>1, <1>2 DEF Hash!HashEndElement, Hash!True
  <2>2. QED
    BY <1>1, <1>2, <2>1 DEF Ended, IsHandler
<1>3. CASE name = "section"
  <2>1. Hash!ToParent(p.open) = Front(p.open)
    BY DEF Hash!ToParent, Hash!Front, Front
  <2>2. PICK more : result = [self |-> [p EXCEPT !.closed = more, !.open = Front(p.open)], go |-> TRUE]
    BY <1>1, <1>3, <2>1 DEF Hash!HashEndElement, Hash!True
  <2>3. DOMAIN q = DOMAIN p /\ q.open = Front(p.open) /\ q.picId = p.picId
    <3> DEFINE closed_ == [p EXCEPT !.closed = more]
    <3>1. closed_.picId = p.picId /\ closed_.open = p.open /\ DOMAIN closed_ = DOMAIN p
      BY DEF IsHandler
    <3>2. q = [closed_ EXCEPT !.open = Front(p.open)]
      BY <2>2
    <3> HIDE DEF closed_, q
    <3>3. QED
      BY <3>1, <3>2 DEF IsHandler
  <2>4. QED
    BY <1>3, <2>2, <2>3 DEF Ended, IsHandler
<1>4. CASE path = Hash!Annotation
  <2>1. result = [self |-> [p EXCEPT !.isAnnotation = FALSE], go |-> TRUE]
    BY <1>1, <1>4 DEF Hash!HashEndElement, Hash!True
  <2>2. QED
    BY <1>1, <1>4, <2>1 DEF Ended, IsHandler
<1>5. CASE path \notin Hash!Binaries /\ name # "section" /\ path # Hash!Annotation
  <2>1. result = [self |-> p, go |-> TRUE]
    BY <1>5 DEF Hash!HashEndElement, Hash!True
  <2>2. QED
    BY <1>5, <2>1 DEF Ended, IsHandler
<1>6. QED
  BY <1>2, <1>3, <1>4, <1>5 DEF Ended

LEMMA FrontOf ==
  ASSUME NEW S, NEW s \in Seq(S)
  PROVE  /\ Front(s) \in Seq(S)
         /\ Len(Front(s)) = IF Len(s) = 0 THEN 0 ELSE Len(s) - 1
         /\ \A k \in 1 .. Len(s) - 1 : Front(s)[k] = s[k]
<1>1. CASE Len(s) = 0
  <2>1. SubSeq(s, 1, Len(s) - 1) = <<>>
    BY <1>1, SubSeqEmpty
  <2>2. QED
    BY <1>1, <2>1 DEF Front
<1>2. CASE Len(s) # 0
  <2>1. PICK n \in Nat : n = Len(s) - 1
    BY <1>2
  <2>2. n + 1 = Len(s) /\ \A k \in 1 .. n : s[k] \in S
    BY <2>1
  <2>3. /\ SubSeq(s, 1, n) \in Seq(S) /\ Len(SubSeq(s, 1, n)) = IF 1 <= n THEN n - 1 + 1 ELSE 0
        /\ \A k \in 1 .. n - 1 + 1 : SubSeq(s, 1, n)[k] = s[1 + k - 1]
    BY <2>2, SubSeqProperties
  <2>4. Len(SubSeq(s, 1, n)) = n /\ \A k \in 1 .. n : SubSeq(s, 1, n)[k] = s[k]
    BY <2>3
  <2>5. QED
    BY <1>2, <2>1, <2>3, <2>4 DEF Front
<1>3. QED
  BY <1>1, <1>2

LEMMA CountedInSection ==
  ASSUME NEW a \in Seq(Nat), NEW b \in Seq(Nat), Len(a) = Len(b), NEW n \in Nat, Counted(a, b, n)
  PROVE  /\ Counted(Append(a, 0), Append(b, 0), n) /\ Len(Append(a, 0)) = Len(Append(b, 0))
         /\ Counted(Front(a), Front(b), n)         /\ Len(Front(a)) = Len(Front(b))
<1>1. DOMAIN a = 1 .. Len(a) /\ Len(a) \in Nat
  OBVIOUS
<1>2. Counted(Append(a, 0), Append(b, 0), n) /\ Len(Append(a, 0)) = Len(Append(b, 0))
  <2>1. DOMAIN Append(a, 0) = 1 .. Len(a) + 1 /\ Len(Append(a, 0)) = Len(a) + 1 /\ Len(Append(b, 0)) = Len(a) + 1
    OBVIOUS
  <2>2. ASSUME NEW k \in 1 .. Len(a) + 1
        PROVE  Append(a, 0)[k] <= Append(b, 0)[k] /\ Append(b, 0)[k] <= Append(a, 0)[k] + n
    <3>1. CASE k = Len(a) + 1
      <4>1. Append(a, 0)[k] = 0 /\ Append(b, 0)[k] = 0
        BY <3>1
      <4>2. QED
        BY <4>1
    <3>2. CASE k # Len(a) + 1
      <4>1. k \in DOMAIN a
        BY <3>2, <1>1
      <4>2. Append(a, 0)[k] = a[k] /\ Append(b, 0)[k] = b[k]
        BY <4>1
      <4>3. QED
        BY <4>1, <4>2 DEF Counted
    <3>3. QED
      BY <3>1, <3>2
  <2>3. QED
    BY <2>1, <2>2 DEF Counted
<1>3. Counted(Front(a), Front(b), n) /\ Len(Front(a)) = Len(Front(b))
  <2>1. Len(Front(a)) = Len(Front(b))
    BY FrontOf
  <2>2. ASSUME NEW k \in DOMAIN Front(a)
        PROVE  k \in 1 .. Len(a) - 1 /\ k \in DOMAIN a
    <3>1. Front(a) \in Seq(Nat) /\ Len(Front(a)) = IF Len(a) = 0 THEN 0 ELSE Len(a) - 1
      BY FrontOf
    <3>2. PICK n_ \in Nat : n_ = Len(a)
      BY <1>1
    <3>3. PICK m \in Nat : m = Len(Front(a)) /\ m = IF n_ = 0 THEN 0 ELSE n_ - 1
      BY <3>1, <3>2
    <3>4. k \in 1 .. m
      <4>1. DOMAIN Front(a) = 1 .. Len(Front(a))
        BY <3>1
      <4>2. QED
        BY <4>1, <3>3
    <3>5. k \in 1 .. n_ - 1 /\ k \in 1 .. n_
      BY <3>3, <3>4
    <3>6. QED
      BY <3>2, <3>5, <1>1
  <2>3. ASSUME NEW k \in DOMAIN Front(a)
        PROVE  Front(a)[k] <= Front(b)[k] /\ Front(b)[k] <= Front(a)[k] + n
    <3>1. Front(a)[k] = a[k] /\ Front(b)[k] = b[k]
      BY <2>2, FrontOf
    <3>2. QED
      BY <2>2, <3>1 DEF Counted
  <2>4. QED
    BY <2>1, <2>3 DEF Counted
<1>4. QED
  BY <1>2, <1>3

LEMMA StartStep ==
  ASSUME HashInv, NEW name \in HashNames, NEW id, Hash!Start(name, id),
         stack # <<>> => stack[Len(stack)] # "binary",
         Append(stack, name) \in Hash!Binaries => id # Hash!NoId
  PROVE  HashInv'
<1> DEFINE p     == Hash!Reader!Flushed.self
           path  == Append(stack, name)
           read  == Hash!Read
<1>1. /\ Hash!Reader!Flushed.go = TRUE /\ IsHandler(p) /\ read \in Seq(Nat) /\ Len(read) = Len(p.open)
      /\ stack \notin Hash!Binaries
      /\ Counted(p.open, read, hollow)
      /\ p.picId # Hash!NoId => hollow - 1 \in Nat /\ Counted(p.open, read, hollow - 1)
  <2>1. stack \notin Hash!Binaries
    BY BinaryPath
  <2>2. QED
    BY <2>1, FlushCounts
<1>2. /\ stack' = path /\ characters' = "none" /\ hollow' = hollow
      /\ handler' = Hash!HashStartElement(p, name, path, id).self
      /\ texts' = IF name = "section" THEN Append(read, 0) ELSE read
  BY <1>1 DEF Hash!Start, Hash!Reader!StartElement, Hash!Reader!Told
<1>3. path \in Seq(HashNames) /\ Len(path) = Len(stack) + 1 /\ path[Len(path)] = name
      /\ \A k \in 1 .. Len(path) - 1 : path[k] # "binary"
  <2>1. stack \in Seq(HashNames) /\ Len(stack) \in Nat /\ \A k \in 1 .. Len(stack) - 1 : stack[k] # "binary"
    BY DEF HashInv
  <2>2. path \in Seq(HashNames) /\ Len(path) = Len(stack) + 1
    BY <2>1
  <2>3. path[Len(stack) + 1] = name /\ \A k \in 1 .. Len(stack) : path[k] = stack[k]
    BY <2>1
  <2>4. ASSUME NEW k \in 1 .. Len(stack) PROVE stack[k] # "binary"
    <3>1. CASE k = Len(stack)
      BY <2>1, <3>1
    <3>2. CASE k # Len(stack)
      BY <2>1, <3>2
    <3>3. QED
      BY <3>1, <3>2
  <2>5. QED
    BY <2>1, <2>2, <2>3, <2>4
<1> HIDE DEF p, read, path
<1>4. /\ IsHandler(handler') 
      /\ handler'.open = IF name = "section" THEN Append(p.open, 0) ELSE p.open
      /\ name # "section" /\ path \in Hash!Binaries => handler'.picId = id /\ handler'.isBinary = TRUE
      /\ path \notin Hash!Binaries => handler'.picId = p.picId
  <2>1. IsHandler(p) /\ name = path[Len(path)]
    BY <1>1, <1>3
  <2>2. Started(p, name, path, id, Hash!HashStartElement(p, name, path, id))
    BY <2>1, HashStarts
  <2>3. QED
    BY <1>2, <2>2 DEF Started
<1>5. path \in Hash!Binaries => name = "binary" /\ name # "section" /\ id # Hash!NoId
  BY <1>3, BinaryPath DEF path
<1>6. IsHandler(handler)' /\ (stack \in Hash!Binaries => handler.picId # Hash!NoId /\ handler.isBinary)'
  BY <1>2, <1>4, <1>5 DEF IsHandler
<1>7. hollow \in Nat /\ p.open \in Seq(Nat)
  BY <1>1 DEF HashInv, IsHandler
<1>8. /\ texts' \in Seq(Nat) /\ Len(texts') = Len(handler'.open)
      /\ \A n \in Nat : Counted(p.open, read, n) => Counted(handler'.open, texts', n)
  <2>1. CASE name = "section"
    <3>1. Append(read, 0) \in Seq(Nat)
      BY <1>1
    <3>2. texts' = Append(read, 0) /\ handler'.open = Append(p.open, 0)
      BY <2>1, <1>2, <1>4
    <3>3. Len(Append(read, 0)) = Len(Append(p.open, 0))
      BY <1>1, <1>7
    <3>4. \A n \in Nat : Counted(p.open, read, n) => Counted(Append(p.open, 0), Append(read, 0), n)
      BY <1>1, <1>7, CountedInSection
    <3>5. QED
      BY <3>1, <3>2, <3>3, <3>4
  <2>2. CASE name # "section"
    BY <2>2, <1>1, <1>2, <1>4
  <2>3. QED
    BY <2>1, <2>2
<1>9. Lost' \in Nat /\ Counted(handler'.open, texts', Lost')
  <2>1. CASE path \in Hash!Binaries \/ p.picId = Hash!NoId
    <3>1. Lost' = hollow
      BY <2>1, <1>2, <1>4, <1>5 DEF Lost, Pending, Hash!Binaries, Hash!Body
    <3>2. QED
      BY <3>1, <1>1, <1>7, <1>8
  <2>2. CASE path \notin Hash!Binaries /\ p.picId # Hash!NoId
    <3>1. Lost' = hollow - 1
      BY <2>2, <1>2, <1>4 DEF Lost, Pending, Hash!Binaries, Hash!Body
    <3>2. QED
      BY <2>2, <3>1, <1>1, <1>8
  <2>3. QED
    BY <2>1, <2>2
<1>10. QED
  BY <1>2, <1>3, <1>6, <1>7, <1>8, <1>9 DEF HashInv

LEMMA EndStep == ASSUME HashInv, Hash!EndNode PROVE HashInv'
<1> DEFINE p      == Hash!Reader!Flushed.self
           read   == Hash!Read
           name   == stack[Len(stack)]
           result == Hash!HashEndElement(p, name, stack)
           empty  == stack \in Hash!Binaries /\ characters # "text"
<1>1. /\ Hash!Reader!Flushed.go = TRUE /\ IsHandler(p) /\ read \in Seq(Nat) /\ Len(read) = Len(p.open)
      /\ stack \in Hash!Binaries /\ characters = "text" => p.picId = Hash!NoId
      /\ characters # "text" => p = handler
      /\ Counted(p.open, read, hollow)
      /\ stack \notin Hash!Binaries /\ p.picId # Hash!NoId =>
           hollow - 1 \in Nat /\ Counted(p.open, read, hollow - 1)
  <2>1. LET flushed == Hash!Reader!Flushed IN
         /\ flushed.go = TRUE /\ IsHandler(flushed.self)
         /\ Hash!Read \in Seq(Nat) /\ Len(Hash!Read) = Len(flushed.self.open)
         /\ flushed.self.isBinary = handler.isBinary
         /\ stack \in Hash!Binaries /\ characters = "text" => flushed.self.picId = Hash!NoId
         /\ characters # "text" => flushed.self = handler
         /\ stack \in Hash!Binaries => Counted(flushed.self.open, Hash!Read, hollow)
         /\ stack \notin Hash!Binaries =>
              /\ Counted(flushed.self.open, Hash!Read, hollow)
              /\ flushed.self.picId # Hash!NoId => hollow - 1 \in Nat /\ Counted(flushed.self.open, Hash!Read, hollow - 1)
    BY FlushCounts
  <2>2. QED
    BY <2>1
<1>2. Ended(p, name, result)
  BY <1>1, HashEnds
<1>3. /\ stack # <<>> /\ handler' = result.self /\ stack' = SubSeq(stack, 1, Len(stack) - 1)
      /\ characters' = "none"
      /\ texts' = IF name = "section" THEN Front(read) ELSE read
      /\ hollow' = IF empty THEN hollow + 1 ELSE hollow
  <2>1. handler' = [result EXCEPT !.go = @ /\ Hash!Reader!Flushed.go].self
    BY DEF Hash!EndNode, Hash!Reader!EndElement, Hash!Reader!Told, Hash!Reader!Tag
  <2>2. handler' = result.self
    BY <2>1, <1>2 DEF Ended
  <2>3. Hash!Front(read) = Front(read) /\ Hash!Last(stack) = name
    BY DEF Hash!Front, Front, Hash!Last
  <2>4. QED
    BY <2>2, <2>3 DEF Hash!EndNode, Hash!Reader!EndElement
<1>4. /\ stack' \in Seq(HashNames) /\ \A k \in 1 .. Len(stack') : stack'[k] # "binary"
  <2>1. stack \in Seq(HashNames) /\ \A k \in 1 .. Len(stack) - 1 : stack[k] # "binary"
    BY DEF HashInv
  <2>2. PICK n \in Nat : n + 1 = Len(stack) /\ n = Len(stack) - 1
    BY <1>3, <2>1
  <2>3. stack' \in Seq(HashNames) /\ Len(stack') = n /\ \A k \in 1 .. n : stack'[k] = stack[k]
    <3>1. \A k \in 1 .. n : stack[k] \in HashNames
      BY <2>1, <2>2
    <3>2. /\ SubSeq(stack, 1, n) \in Seq(HashNames)
          /\ Len(SubSeq(stack, 1, n)) = IF 1 <= n THEN n - 1 + 1 ELSE 0
          /\ \A k \in 1 .. n - 1 + 1 : SubSeq(stack, 1, n)[k] = stack[1 + k - 1]
      BY <3>1, SubSeqProperties
    <3>3. Len(SubSeq(stack, 1, n)) = n /\ \A k \in 1 .. n : SubSeq(stack, 1, n)[k] = stack[k]
      BY <3>2
    <3>4. QED
      BY <1>3, <2>2, <3>2, <3>3
  <2>4. QED
    BY <2>1, <2>2, <2>3
<1>5. stack' \notin Hash!Binaries
  <2>1. ASSUME NEW path \in Hash!Binaries PROVE \E k \in 1 .. Len(path) : path[k] = "binary"
    <3>1. Len(path) \in {2, 3} /\ path[Len(path)] = "binary"
      BY BinaryPath
    <3>2. Len(path) \in 1 .. Len(path)
      BY <3>1
    <3>3. QED
      BY <3>1, <3>2
  <2>2. QED
    BY <1>4, <2>1
<1> HIDE DEF p, read, result
<1>6. /\ p.open \in Seq(Nat) /\ hollow \in Nat
      /\ {"open", "picId", "isBinary"} \subseteq DOMAIN handler'
      /\ handler'.open = (IF name = "section" THEN Front(p.open) ELSE p.open)
      /\ handler'.picId = p.picId
  BY <1>1, <1>2, <1>3 DEF Ended, IsHandler, HashInv
<1>7. /\ handler'.open \in Seq(Nat) /\ texts' \in Seq(Nat) /\ Len(texts') = Len(handler'.open)
      /\ \A n \in Nat : Counted(p.open, read, n) => Counted(handler'.open, texts', n)
  <2>1. CASE name = "section"
    <3>1. texts' = Front(read) /\ handler'.open = Front(p.open)
      BY <2>1, <1>3, <1>6
    <3>2. Front(read) \in Seq(Nat) /\ Front(p.open) \in Seq(Nat)
      BY <1>1, <1>6, FrontOf
    <3>3. Len(Front(read)) = Len(Front(p.open))
      BY <1>1, <1>6, CountedInSection
    <3>4. \A n \in Nat : Counted(p.open, read, n) => Counted(Front(p.open), Front(read), n)
      BY <1>1, <1>6, CountedInSection
    <3>5. QED
      BY <3>1, <3>2, <3>3, <3>4
  <2>2. CASE name # "section"
    BY <2>2, <1>1, <1>3, <1>6
  <2>3. QED
    BY <2>1, <2>2
<1>8. Pending' <=> p.picId # Hash!NoId
  BY <1>5, <1>6 DEF Pending, Hash!Binaries, Hash!Body
<1>9. hollow' \in Nat /\ Lost' \in Nat /\ Counted(handler'.open, texts', Lost')
  <2>1. CASE empty
    <3>1. p.picId # Hash!NoId
      BY <2>1, <1>1 DEF HashInv
    <3>2. Lost' = hollow' - 1 /\ hollow' = hollow + 1
      BY <2>1, <3>1, <1>3, <1>8 DEF Lost
    <3>3. Lost' = hollow /\ hollow' \in Nat
      BY <3>2, <1>6
    <3>4. QED
      BY <3>3, <1>1, <1>6, <1>7
  <2>2. CASE ~empty /\ p.picId = Hash!NoId
    <3>1. Lost' = hollow /\ hollow' = hollow
      BY <2>2, <1>3, <1>8 DEF Lost
    <3>2. QED
      BY <3>1, <1>1, <1>6, <1>7
  <2>3. CASE ~empty /\ p.picId # Hash!NoId
    <3>1. stack \notin Hash!Binaries
      BY <2>3, <1>1
    <3>2. Lost' = hollow - 1 /\ hollow' = hollow
      BY <2>3, <1>3, <1>8 DEF Lost
    <3>3. QED
      BY <2>3, <3>1, <3>2, <1>1, <1>6, <1>7
  <2>4. QED
    BY <2>1, <2>2, <2>3
<1>10. IsHandler(handler)' /\ \A k \in 1 .. Len(stack') - 1 : stack'[k] # "binary"
  <2>1. IsHandler(handler)'
    BY <1>6, <1>7 DEF IsHandler
  <2>2. Len(stack') \in Nat
    BY <1>4
  <2>3. QED
    BY <1>4, <2>1, <2>2
<1>11. QED
  BY <1>3, <1>4, <1>5, <1>7, <1>9, <1>10 DEF HashInv, Hash!Binaries, Hash!Body

LEMMA HashStep == ASSUME HashInv, [Hash!Next]_hashVars PROVE HashInv'
<1>1. CASE UNCHANGED hashVars
  BY <1>1 DEF hashVars, HashInv, IsHandler, Counted, Lost, Pending, Hash!Binaries, Hash!Body
<1>2. CASE Hash!StartBook
  <2>1. stack = <<>> /\ Hash!Start("FictionBook", Hash!NoId)
    BY <1>2 DEF Hash!StartBook
  <2>2. "FictionBook" \in HashNames /\ Append(stack, "FictionBook") \notin Hash!Binaries
    <3>1. "FictionBook" \in HashNames /\ stack \in Seq(HashNames)
      BY DEF HashNames, HashInv
    <3>2. Append(stack, "FictionBook")[Len(Append(stack, "FictionBook"))] = "FictionBook"
      BY <3>1, AppendProperties
    <3>3. QED
      BY <3>1, <3>2, BinaryPath
  <2>3. QED
    BY <2>1, <2>2, StartStep
<1>3. CASE Hash!StartNode
  <2>1. PICK name \in Hash!Children(Hash!Last(stack)) : stack # <<>> /\ Hash!Start(name, Hash!NoId)
    BY <1>3 DEF Hash!StartNode
  <2>2. name \in HashNames /\ name # "binary" /\ Hash!Last(stack) # "binary"
    BY DEF Hash!Children, HashNames
  <2>3. stack[Len(stack)] # "binary"
    BY <2>2 DEF Hash!Last
  <2>4. Append(stack, name) \notin Hash!Binaries
    <3>1. stack \in Seq(HashNames)
      BY DEF HashInv
    <3>2. Append(stack, name)[Len(Append(stack, name))] = name
      BY <2>2, <3>1, AppendProperties
    <3>3. QED
      BY <2>2, <3>2, BinaryPath
  <2>5. QED
    BY <2>1, <2>2, <2>3, <2>4, StartStep
<1>4. CASE Hash!StartBinary
  <2>1. PICK id \in PictureIds : Append(stack, "binary") \in Hash!Binaries /\ Hash!Start("binary", id)
    BY <1>4 DEF Hash!StartBinary
  <2>2. id # Hash!NoId /\ "binary" \in HashNames
    BY HashAssumption DEF HashNames
  <2>3. stack # <<>> => stack[Len(stack)] # "binary"
    <3>1. stack \in Seq(HashNames)
      BY DEF HashInv
    <3>2. CASE Append(stack, "binary") = <<"FictionBook", "binary">>
      <4>1. <<"FictionBook", "binary">>[1] = "FictionBook" /\ Len(<<"FictionBook", "binary">>) = 2
        OBVIOUS
      <4>2. Len(stack) + 1 = 2 /\ Append(stack, "binary")[1] = "FictionBook"
        <5>1. Len(Append(stack, "binary")) = Len(stack) + 1
          BY <2>2, <3>1, AppendProperties
        <5>2. QED
          BY <3>2, <4>1, <5>1
      <4>3. Len(stack) = 1
        <5>1. PICK n \in Nat : n = Len(stack)
          BY <3>1
        <5>2. n + 1 = 2
          BY <4>2, <5>1
        <5>3. QED
          BY <5>1, <5>2
      <4>4. stack[1] = "FictionBook"
        BY <2>2, <3>1, <4>2, <4>3, AppendProperties
      <4>5. QED
        BY <4>3, <4>4
    <3>3. CASE Append(stack, "binary") = Append(Hash!Body, "binary")
      <4>1. Hash!Body \in Seq(HashNames) /\ Len(Hash!Body) = 2 /\ Hash!Body[2] = "body"
        BY DEF Hash!Body, HashNames
      <4>2. stack = Hash!Body
        BY <2>2, <3>1, <3>3, <4>1, AppendProperties
      <4>3. QED
        BY <4>1, <4>2
    <3>4. QED
      BY <2>1, <3>2, <3>3 DEF Hash!Binaries
  <2>4. QED
    BY <2>1, <2>2, <2>3, StartStep
<1>5. CASE Hash!StartImage
  <2>1. PICK id \in PictureIds : Append(stack, "image") = Hash!CoverpageImage /\ Hash!Start("image", id)
    BY <1>5 DEF Hash!StartImage
  <2>2. id # Hash!NoId /\ "image" \in HashNames
    BY HashAssumption DEF HashNames
  <2>3. stack # <<>> => stack[Len(stack)] # "binary"
    <3>1. stack \in Seq(HashNames)
      BY DEF HashInv
    <3>2. /\ Len(Append(stack, "image")) = Len(stack) + 1
          /\ \A k \in 1 .. Len(stack) : Append(stack, "image")[k] = stack[k]
      BY <2>2, <3>1, AppendProperties
    <3>3. PICK n \in Nat : n = Len(stack) /\ n + 1 = Len(Hash!CoverpageImage)
      BY <2>1, <3>1, <3>2
    <3>4. n = 4
      BY <3>3, OtherPaths
    <3>5. stack[4] = "coverpage"
      BY <2>1, <3>2, <3>3, <3>4, OtherPaths
    <3>6. QED
      BY <3>3, <3>4, <3>5
  <2>4. QED
    BY <2>1, <2>2, <2>3, StartStep
<1>6. CASE Hash!EndNode
  BY <1>6, EndStep
<1>7. CASE Hash!ReadInstruction
  <2> DEFINE p == Hash!Reader!Flushed.self
             read == Hash!Read
  <2>1. stack \notin Hash!Binaries
    BY <1>7 DEF Hash!ReadInstruction
  <2>2. /\ Hash!Reader!Flushed.go = TRUE /\ IsHandler(p) /\ read \in Seq(Nat) /\ Len(read) = Len(p.open)
        /\ Counted(p.open, read, hollow)
        /\ p.picId # Hash!NoId => hollow - 1 \in Nat /\ Counted(p.open, read, hollow - 1)
    BY <2>1, FlushCounts
  <2>3. /\ handler' = p /\ stack' = stack /\ characters' = "none" /\ texts' = read /\ hollow' = hollow
    BY <1>7, <2>2 DEF Hash!ReadInstruction, Hash!Reader!ProcessingInstruction, Hash!Reader!Told,
                      Hash!HashInstruction, Hash!True
  <2>4. Pending' <=> p.picId # Hash!NoId
    BY <2>1, <2>3 DEF Pending, Hash!Binaries, Hash!Body
  <2> HIDE DEF p, read
  <2>5. Lost' \in Nat /\ Counted(handler'.open, texts', Lost')
    <3>1. Lost' = IF p.picId # Hash!NoId THEN hollow - 1 ELSE hollow
      BY <2>3, <2>4 DEF Lost
    <3>2. QED
      BY <2>2, <2>3, <3>1 DEF HashInv
  <2>6. QED
    BY <2>1, <2>2, <2>3, <2>5 DEF HashInv, Hash!Binaries, Hash!Body, IsHandler
<1>8. CASE Hash!ReadError
  <2>1. handler' = handler /\ UNCHANGED <<stack, characters, texts, hollow>>
    BY <1>8 DEF Hash!ReadError, Hash!Reader!Error, Hash!Reader!Told, Hash!HashError
  <2>2. QED
    BY <2>1 DEF HashInv, IsHandler, Counted, Lost, Pending, Hash!Binaries, Hash!Body
<1>9. CASE Hash!Finished
  BY <1>9 DEF Hash!Finished, Hash!vars, HashInv, IsHandler, Counted, Lost, Pending, Hash!Binaries, Hash!Body
<1>10. ASSUME NEW read \in {"blank", "text"}, Hash!ReadCharacters(read) PROVE HashInv'
  <2>1. characters' \in {"none", "blank", "text"} /\ UNCHANGED <<stack, handler, texts, hollow>>
    BY <1>10 DEF Hash!ReadCharacters, Hash!Reader!Characters
  <2>2. QED
    BY <2>1 DEF HashInv, IsHandler, Counted, Lost, Pending, Hash!Binaries, Hash!Body
<1>11. QED
  BY <1>1, <1>2, <1>3, <1>4, <1>5, <1>6, <1>7, <1>8, <1>9, <1>10 DEF Hash!Next

LEMMA HashShows == HashInv => Hash!TextsCounted
<1> SUFFICES ASSUME HashInv, NEW k \in DOMAIN handler.open
             PROVE  handler.open[k] <= texts[k] /\ texts[k] <= handler.open[k] + hollow
  BY DEF Hash!TextsCounted
<1>1. handler.open \in Seq(Nat) /\ texts \in Seq(Nat) /\ Len(texts) = Len(handler.open)
  BY DEF HashInv, IsHandler
<1>2. handler.open[k] \in Nat /\ texts[k] \in Nat
  BY <1>1
<1>3. handler.open[k] <= texts[k] /\ texts[k] <= handler.open[k] + Lost
  BY DEF HashInv, Counted
<1>4. Lost = hollow \/ Lost = hollow - 1
  BY DEF Lost
<1>5. hollow \in Nat
  BY DEF HashInv
<1>6. QED
  BY <1>2, <1>3, <1>4, <1>5

-----------------------------------------------------------------------------
(* Archives and their lists                                                  *)

\* The places before a given one.
Below(places, i) == {j \in places : j < i}

\* Sublist() takes every place once, in order.
LEMMA NthInOrder ==
  ASSUME NEW n \in Nat, NEW places \in SUBSET (1 .. n)
  PROVE  /\ Cardinality(places) \in Nat
         /\ \A k \in 1 .. Cardinality(places) : Nth(places, k) \in places
         /\ \A k, m \in 1 .. Cardinality(places) : k < m => Nth(places, k) < Nth(places, m)
         /\ \A i \in places : \E k \in 1 .. Cardinality(places) : Nth(places, k) = i
<1> DEFINE rank == [i \in places |-> Cardinality(Below(places, i)) + 1]
           last == Cardinality(places)
<1>1. /\ IsFiniteSet(places) /\ last \in Nat /\ places \subseteq Nat
  <2>1. IsFiniteSet(1 .. n)
    BY FS_Interval
  <2>2. IsFiniteSet(places)
    BY <2>1, FS_Subset
  <2>3. last \in Nat
    BY <2>2, FS_CardinalityType
  <2>4. \A i \in 1 .. n : i \in Nat
    OBVIOUS
  <2>5. QED
    BY <2>2, <2>3, <2>4
<1>2. ASSUME NEW i \in places
      PROVE  /\ Cardinality(Below(places, i)) \in Nat
             /\ rank[i] \in 1 .. last /\ IsFiniteSet(Below(places, i))
  <2>1. Below(places, i) \in SUBSET places /\ i \notin Below(places, i)
    BY <1>1 DEF Below
  <2>2. /\ IsFiniteSet(Below(places, i)) /\ Cardinality(Below(places, i)) \in Nat
        /\ Cardinality(Below(places, i)) <= last /\ Cardinality(Below(places, i)) # last
    BY <1>1, <2>1, FS_Subset, FS_CardinalityType
  <2>3. QED
    BY <1>1, <2>2
<1>3. ASSUME NEW i \in places, NEW j \in places, i < j
      PROVE  rank[i] < rank[j]
  <2>1. Below(places, i) \in SUBSET Below(places, j) /\ i \in Below(places, j) /\ i \notin Below(places, i)
    <3>1. i \in Nat /\ j \in Nat /\ \A k \in places : k \in Nat
      BY <1>1
    <3>2. \A k \in places : k < i => k < j
      BY <1>3, <3>1
    <3>3. ~(i < i)
      BY <3>1
    <3>4. QED
      BY <1>3, <3>2, <3>3 DEF Below
  <2>2. /\ Cardinality(Below(places, i)) <= Cardinality(Below(places, j))
        /\ Cardinality(Below(places, i)) # Cardinality(Below(places, j))
    BY <1>2, <2>1, FS_Subset
  <2>3. QED
    BY <1>2, <2>2
<1>4. ASSUME NEW i \in places, NEW j \in places, rank[i] = rank[j] PROVE i = j
  <2>1. i \in Nat /\ j \in Nat /\ rank[i] \in Nat
    BY <1>1, <1>2
  <2>2. i < j \/ j < i \/ i = j
    BY <2>1
  <2>3. QED
    BY <1>3, <1>4, <2>1, <2>2
<1>5. \A k \in 1 .. last : \E i \in places : rank[i] = k
  <2>1. rank \in Injection(places, 1 .. last)
    BY <1>2, <1>4 DEF Injection, IsInjective
  <2>2. IsFiniteSet(1 .. last) /\ Cardinality(1 .. last) = last
    <3>1. PICK m \in Nat, one \in Nat : m = last /\ one = 1
      BY <1>1
    <3>2. IsFiniteSet(one .. m) /\ Cardinality(one .. m) = IF one > m THEN 0 ELSE m - one + 1
      BY FS_Interval
    <3>3. (IF one > m THEN 0 ELSE m - one + 1) = m
      BY <3>1
    <3>4. QED
      BY <3>1, <3>2, <3>3
  <2>3. rank \in Surjection(places, 1 .. last)
    BY <2>1, <2>2, FS_Injection
  <2>4. QED
    BY <2>3 DEF Surjection
<1>6. ASSUME NEW k \in 1 .. last PROVE Nth(places, k) \in places /\ rank[Nth(places, k)] = k
  <2>1. PICK i \in places : rank[i] = k
    BY <1>5
  <2>2. Cardinality(Below(places, i)) = k - 1
    BY <1>2, <2>1
  <2>3. \E j \in places : Cardinality({m \in places : m < j}) = k - 1
    BY <2>2 DEF Below
  <2>4. Nth(places, k) \in places /\ Cardinality(Below(places, Nth(places, k))) = k - 1
    BY <2>3 DEF Nth, Below
  <2>5. QED
    BY <1>2, <2>4
<1>7. ASSUME NEW k \in 1 .. last, NEW m \in 1 .. last, k < m PROVE Nth(places, k) < Nth(places, m)
  <2>1. PICK i \in places : i = Nth(places, k) /\ rank[i] = k
    BY <1>6
  <2>2. PICK j \in places : j = Nth(places, m) /\ rank[j] = m
    BY <1>6
  <2>3. i \in Nat /\ j \in Nat
    BY <1>1
  <2>4. ~(j < i) /\ i # j
    BY <1>3, <1>7, <2>1, <2>2
  <2>5. QED
    BY <2>1, <2>2, <2>3, <2>4
<1>8. ASSUME NEW i \in places PROVE \E k \in 1 .. last : Nth(places, k) = i
  <2>1. PICK k \in 1 .. last : k = rank[i]
    BY <1>2
  <2>2. Nth(places, k) \in places /\ rank[Nth(places, k)] = rank[i]
    BY <1>6, <2>1
  <2>3. Nth(places, k) = i
    BY <1>4, <2>2
  <2>4. QED
    BY <2>3
<1>9. QED
  BY <1>1, <1>6, <1>7, <1>8

\* What is left of a sequence is found again in it, in the same order.
Picked(t, s, places) ==
  /\ DOMAIN t = 1 .. Cardinality(places) /\ Cardinality(places) \in Nat
  /\ \A k \in DOMAIN t : Nth(places, k) \in places /\ t[k] = s[Nth(places, k)]
  /\ \A k, m \in DOMAIN t : k < m => Nth(places, k) < Nth(places, m)
  /\ \A i \in places : \E k \in DOMAIN t : Nth(places, k) = i

LEMMA SublistOf ==
  ASSUME NEW S, NEW s \in Seq(S), NEW places \in SUBSET DOMAIN s
  PROVE  Sublist(s, places) \in Seq(S) /\ Picked(Sublist(s, places), s, places)
<1>1. Len(s) \in Nat /\ DOMAIN s = 1 .. Len(s)
  OBVIOUS
<1>2. /\ Cardinality(places) \in Nat
      /\ \A k \in 1 .. Cardinality(places) : Nth(places, k) \in places
      /\ \A k, m \in 1 .. Cardinality(places) : k < m => Nth(places, k) < Nth(places, m)
      /\ \A i \in places : \E k \in 1 .. Cardinality(places) : Nth(places, k) = i
  BY <1>1, NthInOrder
<1> DEFINE t == Sublist(s, places)
<1>3. t = [k \in 1 .. Cardinality(places) |-> s[Nth(places, k)]]
  BY DEF Sublist
<1>4. \A k \in 1 .. Cardinality(places) : s[Nth(places, k)] \in S
  BY <1>2
<1>5. t \in Seq(S) /\ DOMAIN t = 1 .. Cardinality(places)
  BY <1>2, <1>3, <1>4
<1>6. QED
  BY <1>2, <1>3, <1>5 DEF Picked

Entries == [name : Names, dir : BOOLEAN, body : Nat]

\* The entries of an archive: only directories are marked so, and what was added
\* later has a later body.
DiskInv(d) ==
  /\ d \in Seq(Entries)
  /\ \A i \in DOMAIN d : d[i].dir => d[i].name \in DirNames
  /\ \A i, j \in DOMAIN d : i < j => d[i].body < d[j].body

\* Every name has a first entry.
LEMMA FirstOfName ==
  ASSUME NEW d, DiskInv(d), NEW j \in DOMAIN d
  PROVE  \E i \in DOMAIN d : d[i].name = d[j].name /\ IsFirst(d, i) /\ (i = j \/ i < j)
<1> DEFINE same == {i \in DOMAIN d : d[i].name = d[j].name}
<1>1. Len(d) \in Nat /\ DOMAIN d = 1 .. Len(d) /\ same \in SUBSET (1 .. Len(d)) /\ j \in same
  BY DEF DiskInv
<1> HIDE DEF same
<1>2. /\ Cardinality(same) \in Nat
      /\ \A k \in 1 .. Cardinality(same) : Nth(same, k) \in same
      /\ \A k, m \in 1 .. Cardinality(same) : k < m => Nth(same, k) < Nth(same, m)
      /\ \A i \in same : \E k \in 1 .. Cardinality(same) : Nth(same, k) = i
  BY <1>1, NthInOrder
<1>3. 1 \in 1 .. Cardinality(same)
  BY <1>1, <1>2
<1>4. PICK i \in same : i = Nth(same, 1)
  BY <1>2, <1>3
<1>5. ASSUME NEW m \in same PROVE i = m \/ i < m
  <2>1. PICK k \in 1 .. Cardinality(same) : Nth(same, k) = m
    BY <1>2
  <2>2. k = 1 \/ 1 < k
    BY <1>2
  <2>3. QED
    BY <1>2, <1>3, <1>4, <2>1, <2>2
<1>6. IsFirst(d, i)
  <2> SUFFICES ASSUME NEW m \in 1 .. i - 1, d[m].name = d[i].name PROVE FALSE
    BY DEF IsFirst
  <2>1. i \in 1 .. Len(d) /\ d[i].name = d[j].name
    BY <1>1 DEF same
  <2>2. m \in 1 .. Len(d) /\ m < i
    BY <1>1, <2>1
  <2>3. m \in same
    BY <1>1, <2>1, <2>2 DEF same
  <2>4. i = m \/ i < m
    BY <1>5, <2>3
  <2>5. QED
    BY <1>1, <2>1, <2>2, <2>4
<1>7. i \in DOMAIN d /\ d[i].name = d[j].name /\ (i = j \/ i < j)
  BY <1>1, <1>5 DEF same
<1>8. QED
  BY <1>6, <1>7

\* What is in the list, and in which order.
Lists(list, d) ==
  /\ \A k \in DOMAIN list : /\ list[k].index \in DOMAIN d /\ IsFirst(d, list[k].index)
                            /\ list[k].name = d[list[k].index].name
  /\ \A k, m \in DOMAIN list : k < m => list[k].index < list[m].index /\ list[k].name # list[m].name
  /\ \A k, m \in DOMAIN list : list[k].name = list[m].name => k = m
  /\ \A j \in DOMAIN d : \E k \in DOMAIN list :
       list[k].name = d[j].name /\ (list[k].index = j \/ list[k].index < j)
  /\ DOMAIN list \subseteq Nat

LEMMA ListMade == ASSUME NEW d, DiskInv(d) PROVE Lists(CreateFileList(d), d)
<1> DEFINE items  == [i \in DOMAIN d |-> [index |-> i, name |-> d[i].name]]
           firsts == {i \in DOMAIN d : IsFirst(d, i)}
           list   == CreateFileList(d)
<1>1. /\ Len(d) \in Nat /\ DOMAIN d = 1 .. Len(d)
      /\ \A i \in DOMAIN d : d[i] \in Entries
  BY DEF DiskInv
<1>2. items \in Seq([index : Nat, name : Names]) /\ DOMAIN items = DOMAIN d
  <2>1. \A i \in DOMAIN d : d[i].name \in Names /\ i \in Nat
    BY <1>1 DEF Entries
  <2>2. QED
    BY <1>1, <2>1
<1>3. firsts \in SUBSET DOMAIN items
  BY <1>2
<1>4. list = Sublist(items, firsts)
  BY DEF CreateFileList
<1>5. /\ \A i \in DOMAIN d : items[i].index = i /\ items[i].name = d[i].name
      /\ \A i \in firsts : i \in DOMAIN d /\ IsFirst(d, i)
      /\ \A i \in DOMAIN d : IsFirst(d, i) => i \in firsts
  OBVIOUS
<1> HIDE DEF items, list, firsts
<1>6. /\ DOMAIN list = 1 .. Cardinality(firsts) /\ Cardinality(firsts) \in Nat
      /\ \A k \in DOMAIN list : Nth(firsts, k) \in firsts /\ list[k] = items[Nth(firsts, k)]
      /\ \A k, m \in DOMAIN list : k < m => Nth(firsts, k) < Nth(firsts, m)
      /\ \A i \in firsts : \E k \in DOMAIN list : Nth(firsts, k) = i
  <2>1. Picked(Sublist(items, firsts), items, firsts)
    BY <1>2, <1>3, SublistOf
  <2>2. QED
    BY <1>4, <2>1 DEF Picked
<1>7. \A k \in DOMAIN list : /\ Nth(firsts, k) \in DOMAIN d /\ IsFirst(d, Nth(firsts, k))
                             /\ list[k].index = Nth(firsts, k)
                             /\ list[k].name = d[Nth(firsts, k)].name
  BY <1>5, <1>6
<1>8. ASSUME NEW k \in DOMAIN list, NEW m \in DOMAIN list, k < m
      PROVE  list[k].index < list[m].index /\ list[k].name # list[m].name
  <2>1. PICK i \in DOMAIN d : i = Nth(firsts, k)
    BY <1>7
  <2>2. PICK j \in DOMAIN d : j = Nth(firsts, m)
    BY <1>7
  <2>3. i < j
    BY <1>6, <1>8, <2>1, <2>2
  <2>4. i \in 1 .. j - 1
    BY <1>1, <2>3
  <2>5. d[i].name # d[j].name
    BY <1>7, <2>2, <2>4 DEF IsFirst
  <2>6. QED
    BY <1>7, <2>1, <2>2, <2>3, <2>5
<1>9. ASSUME NEW k \in DOMAIN list, NEW m \in DOMAIN list, list[k].name = list[m].name PROVE k = m
  <2>1. k < m \/ m < k \/ k = m
    BY <1>6
  <2>2. QED
    BY <1>8, <1>9, <2>1
<1>10. ASSUME NEW j \in DOMAIN d
       PROVE  \E k \in DOMAIN list : list[k].name = d[j].name /\ (list[k].index = j \/ list[k].index < j)
  <2>1. PICK i \in DOMAIN d : d[i].name = d[j].name /\ IsFirst(d, i) /\ (i = j \/ i < j)
    BY FirstOfName
  <2>2. PICK k \in DOMAIN list : Nth(firsts, k) = i
    BY <1>5, <1>6, <2>1
  <2>3. list[k].name = d[j].name /\ (list[k].index = j \/ list[k].index < j)
    BY <1>7, <2>1, <2>2
  <2>4. QED
    BY <2>3
<1>11. DOMAIN list \subseteq Nat
  BY <1>6
<1>12. \A k \in DOMAIN list : /\ list[k].index \in DOMAIN d /\ IsFirst(d, list[k].index)
                              /\ list[k].name = d[list[k].index].name
  BY <1>7
<1>13. Lists(list, d)
  BY <1>8, <1>9, <1>10, <1>11, <1>12 DEF Lists
<1>14. QED
  BY <1>13 DEF list

\* An object that shows what is in the archive finds every name at its first entry.
LEMMA ListShows ==
  ASSUME DiskInv(disk), Lists(files, disk)
  PROVE  /\ {f.name : f \in Range(files)} = {e.name : e \in Range(disk)}
         /\ \A k, m \in DOMAIN files : k < m => files[k].index < files[m].index
                                                /\ files[k].name # files[m].name
         /\ \A f \in Range(files) : ItemIndex(f.name) = f.index
         /\ \A f \in Range(files) :
              Read(f.name) = Min({e.body : e \in {d \in Range(disk) : d.name = f.name}})
<1>1. ASSUME NEW f \in Range(files)
      PROVE  /\ ItemIndex(f.name) = f.index /\ f.index \in DOMAIN disk
             /\ disk[f.index].name = f.name
             /\ Read(f.name) = Min({e.body : e \in {d \in Range(disk) : d.name = f.name}})
  <2>1. PICK k \in DOMAIN files : f = files[k]
    BY DEF Range
  <2>2. GetFileIndex(f.name) = k
    BY <2>1 DEF GetFileIndex, Lists
  <2>3. ItemIndex(f.name) = f.index
    BY <2>1, <2>2 DEF ItemIndex, GetFile
  <2>4. PICK i \in DOMAIN disk : i = f.index /\ IsFirst(disk, i) /\ f.name = disk[i].name
    BY <2>1 DEF Lists
  <2> DEFINE bodies_ == {e.body : e \in {d \in Range(disk) : d.name = f.name}}
  <2>5. disk[i].body \in bodies_ /\ disk[i].body \in Nat
    <3>1. disk[i] \in Entries /\ disk[i] \in Range(disk)
      BY DEF DiskInv, Range
    <3>2. QED
      BY <2>4, <3>1 DEF Entries
  <2>6. ASSUME NEW b \in bodies_ PROVE b \in Nat /\ disk[i].body <= b
    <3>1. PICK j \in DOMAIN disk : b = disk[j].body /\ disk[j].name = f.name
      BY DEF Range
    <3>2. disk[j] \in Entries /\ disk[j].body \in Nat
      <4>1. disk[j] \in Entries
        BY DEF DiskInv
      <4>2. QED
        BY <4>1 DEF Entries
    <3>3. i \in 1 .. Len(disk) /\ j \in 1 .. Len(disk) /\ Len(disk) \in Nat
      BY DEF DiskInv
    <3>4. ~(j < i)
      <4>1. j < i => j \in 1 .. i - 1
        BY <3>3
      <4>2. QED
        BY <2>4, <3>1, <4>1 DEF IsFirst
    <3>5. i = j \/ i < j
      BY <3>3, <3>4
    <3>6. QED
      BY <2>5, <3>1, <3>2, <3>5 DEF DiskInv
  <2>7. Min(bodies_) = disk[i].body
    <3>1. Min(bodies_) \in bodies_ /\ \A b \in bodies_ : Min(bodies_) <= b
      BY <2>5, <2>6 DEF Min
    <3>2. Min(bodies_) \in Nat /\ Min(bodies_) <= disk[i].body /\ disk[i].body <= Min(bodies_)
      BY <2>5, <2>6, <3>1
    <3>3. QED
      BY <2>5, <3>2
  <2>8. Read(f.name) = disk[i].body
    BY <2>3, <2>4 DEF Read, StreamOf
  <2>9. QED
    BY <2>3, <2>4, <2>7, <2>8
<1>2. {f.name : f \in Range(files)} = {e.name : e \in Range(disk)}
  <2>1. ASSUME NEW f \in Range(files) PROVE f.name \in {e.name : e \in Range(disk)}
    BY <1>1 DEF Range
  <2>2. ASSUME NEW e \in Range(disk) PROVE e.name \in {f.name : f \in Range(files)}
    <3>1. PICK j \in DOMAIN disk : e = disk[j]
      BY DEF Range
    <3>2. PICK k \in DOMAIN files : files[k].name = disk[j].name
      BY DEF Lists
    <3>3. QED
      BY <3>1, <3>2 DEF Range
  <2>3. QED
    BY <2>1, <2>2
<1>3. QED
  BY <1>1, <1>2 DEF Lists

LEMMA DiskDistinct ==
  ASSUME NEW d, DiskInv(d)
  PROVE  /\ \A i \in DOMAIN d : d[i] \in Entries /\ d[i].body \in Nat /\ d[i].name \in Names
         /\ \A i, j \in DOMAIN d : d[i] = d[j] => i = j
<1>1. DOMAIN d = 1 .. Len(d) /\ Len(d) \in Nat
  BY DEF DiskInv
<1>2. ASSUME NEW i \in DOMAIN d PROVE d[i] \in Entries /\ d[i].body \in Nat /\ d[i].name \in Names
  <2>1. d[i] \in Entries
    BY DEF DiskInv
  <2>2. QED
    BY <2>1 DEF Entries
<1>3. ASSUME NEW i \in DOMAIN d, NEW j \in DOMAIN d, d[i] = d[j] PROVE i = j
  <2>1. i < j \/ j < i \/ i = j
    BY <1>1
  <2>2. d[i].body \in Nat /\ d[i].body = d[j].body
    BY <1>2, <1>3
  <2>3. QED
    BY <2>1, <2>2 DEF DiskInv
<1>4. QED
  BY <1>2, <1>3

\* Entries that are taken away leave an archive, of the others.
LEMMA DiskLeft ==
  ASSUME NEW d, DiskInv(d), NEW places \in SUBSET DOMAIN d
  PROVE  /\ DiskInv(Sublist(d, places))
         /\ Range(Sublist(d, places)) = {d[i] : i \in places}
<1> DEFINE t == Sublist(d, places)
<1>1. t \in Seq(Entries) /\ Picked(t, d, places)
  BY SublistOf DEF DiskInv
<1> HIDE DEF t
<1>2. \A k \in DOMAIN t : Nth(places, k) \in DOMAIN d /\ t[k] = d[Nth(places, k)]
  BY <1>1 DEF Picked
<1>3. ASSUME NEW k \in DOMAIN t, NEW m \in DOMAIN t, k < m PROVE t[k].body < t[m].body
  <2>1. Nth(places, k) < Nth(places, m)
    BY <1>1, <1>3 DEF Picked
  <2>2. QED
    BY <1>2, <2>1 DEF DiskInv
<1>4. \A k \in DOMAIN t : t[k].dir => t[k].name \in DirNames
  BY <1>2 DEF DiskInv
<1>5. DiskInv(t)
  BY <1>1, <1>3, <1>4 DEF DiskInv
<1>6. Range(t) = {d[i] : i \in places}
  <2>1. ASSUME NEW e \in Range(t) PROVE e \in {d[i] : i \in places}
    <3>1. PICK k \in DOMAIN t : e = t[k]
      BY DEF Range
    <3>2. QED
      BY <1>1, <3>1 DEF Picked
  <2>2. ASSUME NEW i \in places PROVE d[i] \in Range(t)
    <3>1. PICK k \in DOMAIN t : Nth(places, k) = i
      BY <1>1 DEF Picked
    <3>2. QED
      BY <1>2, <3>1 DEF Range
  <2>3. QED
    BY <2>1, <2>2
<1>7. QED
  BY <1>5, <1>6 DEF t

LEMMA LastBodyIsLast ==
  ASSUME NEW d, DiskInv(d)
  PROVE  LastBody(d) \in Nat /\ \A i \in DOMAIN d : d[i].body <= LastBody(d)
<1> DEFINE all == {e.body : e \in Range(d)}
<1>1. DOMAIN d = 1 .. Len(d) /\ Len(d) \in Nat /\ \A i \in DOMAIN d : d[i].body \in Nat
  BY DiskDistinct DEF DiskInv
<1>2. CASE d = <<>>
  <2>1. DOMAIN d = {}
    BY <1>2
  <2>2. QED
    BY <1>2, <2>1 DEF LastBody
<1>3. CASE d # <<>>
  <2>1. PICK n \in DOMAIN d : \A i \in DOMAIN d : i = n \/ i < n
    <3>1. Len(d) # 0
      BY <1>3 DEF DiskInv
    <3>2. Len(d) \in DOMAIN d /\ \A i \in DOMAIN d : i = Len(d) \/ i < Len(d)
      BY <1>1, <3>1
    <3>3. QED
      BY <3>2
  <2>2. \A i \in DOMAIN d : d[i].body <= d[n].body
    BY <1>1, <2>1 DEF DiskInv
  <2>3. d[n].body \in all /\ \A b \in all : d[n].body >= b /\ b \in Nat
    BY <1>1, <2>2 DEF Range
  <2>4. Max(all) \in all /\ \A b \in all : Max(all) >= b
    BY <2>3 DEF Max
  <2>5. LastBody(d) = Max(all)
    BY <1>3 DEF LastBody
  <2>6. \A i \in DOMAIN d : d[i].body \in all
    BY DEF Range
  <2> HIDE DEF all
  <2>7. QED
    BY <1>1, <2>3, <2>4, <2>5, <2>6
<1>4. QED
  BY <1>2, <1>3

LEMMA EntryIs ==
  ASSUME NEW name \in Names, NEW body_ \in Nat
  PROVE  /\ Entry(name, body_) \in Entries
         /\ Entry(name, body_).name = name /\ Entry(name, body_).body = body_
         /\ Entry(name, body_).dir => name \in DirNames
<1>1. Entry(name, body_).dir = (name \in DirNames)
  BY Zenon DEF Entry
<1>2. Entry(name, body_).name = name /\ Entry(name, body_).body = body_
  BY DEF Entry
<1>3. (name \in DirNames) \in BOOLEAN
  OBVIOUS
<1>4. Entry(name, body_) \in Entries
  BY <1>3, Zenon DEF Entry, Entries
<1>5. QED
  BY <1>1, <1>2, <1>4, Zenon

LEMMA DiskGrows ==
  ASSUME NEW d, DiskInv(d), NEW last \in Nat, \A i \in DOMAIN d : d[i].body <= last,
         NEW more \in Nat, NEW names \in [1 .. more -> FileNames]
  PROVE  DiskInv(d \o [i \in DOMAIN names |-> Entry(names[i], last + i)])
<1> DEFINE added == [i \in DOMAIN names |-> Entry(names[i], last + i)]
           t == d \o added
<1>1. \A i \in 1 .. more : /\ added[i] \in Entries /\ added[i].body = last + i
                           /\ added[i].dir => added[i].name \in DirNames
  <2> SUFFICES ASSUME NEW i \in 1 .. more
               PROVE  /\ added[i] \in Entries /\ added[i].body = last + i
                      /\ added[i].dir => added[i].name \in DirNames
    OBVIOUS
  <2>1. added[i] = Entry(names[i], last + i) /\ names[i] \in Names /\ last + i \in Nat
    BY DEF Names
  <2> HIDE DEF added
  <2>2. QED
    BY <2>1, EntryIs
<1>2. added \in Seq(Entries) /\ Len(added) = more
  BY <1>1
<1>3. d \in Seq(Entries) /\ Len(d) \in Nat /\ DOMAIN d = 1 .. Len(d)
  BY DEF DiskInv
<1> HIDE DEF added
<1>4. /\ t \in Seq(Entries) /\ Len(t) = Len(d) + more
      /\ \A i \in 1 .. Len(d) + more : t[i] = IF i <= Len(d) THEN d[i] ELSE added[i - Len(d)]
  BY <1>2, <1>3, ConcatProperties
<1> HIDE DEF t
<1>5. PICK n \in Nat : n = Len(d)
  BY <1>3
<1>6. DOMAIN t = 1 .. n + more
  BY <1>4, <1>5
<1>7. \A i \in DOMAIN t : \/ i \in DOMAIN d /\ t[i] = d[i]
                          \/ i \in n + 1 .. n + more /\ i - n \in 1 .. more /\ t[i] = added[i - n]
  BY <1>3, <1>4, <1>5, <1>6
<1>8. \A i \in DOMAIN t : t[i].dir => t[i].name \in DirNames
  BY <1>1, <1>7 DEF DiskInv
<1>9. ASSUME NEW i \in DOMAIN t, NEW j \in DOMAIN t, i < j PROVE t[i].body < t[j].body
  <2>1. CASE j \in DOMAIN d /\ t[j] = d[j]
    <3>1. i \in DOMAIN d /\ i \notin n + 1 .. n + more
      BY <2>1, <1>3, <1>5, <1>6, <1>9
    <3>2. t[i] = d[i]
      BY <3>1, <1>7
    <3>3. QED
      BY <2>1, <3>1, <3>2, <1>9 DEF DiskInv
  <2>2. CASE j - n \in 1 .. more /\ t[j] = added[j - n]
    <3>1. t[j].body = last + (j - n) /\ j - n > 0 /\ j - n \in Nat
      BY <2>2, <1>1
    <3>2. CASE i \in DOMAIN d /\ t[i] = d[i]
      <4>1. t[i].body <= last /\ t[i].body \in Nat
        BY <3>2, DiskDistinct
      <4>2. QED
        BY <3>1, <4>1
    <3>3. CASE i - n \in 1 .. more /\ t[i] = added[i - n]
      <4>1. t[i].body = last + (i - n) /\ i - n \in Nat /\ i - n < j - n
        BY <3>3, <1>1, <1>6, <1>9
      <4>2. QED
        BY <3>1, <4>1
    <3>4. QED
      BY <3>2, <3>3, <1>7
  <2>3. QED
    BY <2>1, <2>2, <1>7
<1>10. DiskInv(t)
  BY <1>4, <1>8, <1>9 DEF DiskInv
<1>11. QED
  BY <1>10 DEF t, added

\* The file list of an object that reads or edits is the archive's, as it is.
ArchiveInv ==
  /\ DiskInv(disk)
  /\ kind \in {"reader", "editor"} => listed = TRUE /\ Lists(files, disk)
  /\ kind = "none" => asked = {}

LEMMA ArchiveInit == Init => ArchiveInv
<1> SUFFICES ASSUME Init PROVE ArchiveInv
  OBVIOUS
<1>1. kind = "none" /\ asked = {}
  BY DEF Init
<1>2. PICK n \in Nat : \E names \in [1 .. n -> Names] : disk = [i \in DOMAIN names |-> Entry(names[i], i)]
  BY DEF Init, BoundedSeq, SeqOf
<1>3. PICK names \in [1 .. n -> Names] : disk = [i \in 1 .. n |-> Entry(names[i], i)]
  BY <1>2
<1>4. \A i \in 1 .. n : /\ disk[i] \in Entries /\ disk[i].body = i
                        /\ disk[i].dir => disk[i].name \in DirNames
  <2> SUFFICES ASSUME NEW i \in 1 .. n
               PROVE  /\ disk[i] \in Entries /\ disk[i].body = i
                      /\ disk[i].dir => disk[i].name \in DirNames
    OBVIOUS
  <2>1. disk[i] = Entry(names[i], i) /\ names[i] \in Names /\ i \in Nat
    BY <1>3
  <2>2. QED
    BY <2>1, EntryIs
<1>5. DiskInv(disk)
  <2>1. disk \in Seq(Entries) /\ DOMAIN disk = 1 .. n
    BY <1>3, <1>4
  <2>2. QED
    BY <1>4, <2>1 DEF DiskInv
<1>6. QED
  BY <1>1, <1>5 DEF ArchiveInv

\* What a name in a directory is found by.
LEMMA KeyOfContent ==
  ASSUME NEW a \in DirNames, NEW b \in Names, IsStrictPrefix(a, b)
  PROVE  Key(b) = Key(a) \/ (Key(a) = a /\ <<Head(b)>> = a)
<1>1. a \in Seq(STRING) /\ b \in Seq(STRING) /\ a # <<>> /\ b # <<>>
  BY ArchiveAssumption DEF Names
<1>2. PICK n \in Nat : n = Len(a) /\ n >= 1
  BY <1>1
<1>3. PICK m \in Nat : m = Len(b) /\ n <= m
  BY <1>1, <1>2 DEF IsStrictPrefix, IsPrefix
<1>4. SubSeq(a, 1, n)[1] = a[1] /\ SubSeq(b, 1, n)[1] = b[1]
  BY <1>1, <1>2, <1>3
<1>5. Head(a) = Head(b)
  BY <1>1, <1>2, <1>4 DEF IsStrictPrefix, IsPrefix
<1>6. CASE n < 2
  <2>1. n = 1 /\ a = <<Head(a)>>
    BY <1>1, <1>2, <1>6
  <2>2. QED
    BY <1>2, <1>5, <1>6, <2>1 DEF Key
<1>7. CASE ~(n < 2)
  <2>1. ~(m < 2)
    BY <1>3, <1>7
  <2>2. QED
    BY <1>2, <1>3, <1>5, <1>7, <2>1 DEF Key
<1>8. QED
  BY <1>6, <1>7

\* Removing keeps the list that of the archive, and takes away what was asked for.
LEMMA RemoveFilesStep ==
  ASSUME ArchiveInv, NEW names, RemoveFiles(names)
  PROVE  ArchiveInv' /\ RemoveIsExact
<1> DEFINE found  == {f \in Range(files) : Key(f.name) \in names}
           gone   == UNION {Deleted(ItemIndex(f.name)) : f \in found}
<1>1. /\ kind = "editor" /\ listed = TRUE /\ DiskInv(disk) /\ Lists(files, disk)
      /\ disk' = Sublist(disk, DOMAIN disk \ gone)
      /\ files' = UpdateFileList(disk') /\ asked' = names /\ UNCHANGED <<exists, kind, listed, used, opened>>
  BY DEF ArchiveInv, RemoveFiles
<1>2. \A f \in Range(files) : /\ ItemIndex(f.name) = f.index /\ f.index \in DOMAIN disk
                              /\ disk[f.index].name = f.name
  <2>1. \A f \in Range(files) : ItemIndex(f.name) = f.index
    BY <1>1, ListShows
  <2>2. \A f \in Range(files) : f.index \in DOMAIN disk /\ disk[f.index].name = f.name
    BY <1>1 DEF Lists, Range
  <2>3. QED
    BY <2>1, <2>2
<1>3. \A f \in found : f \in Range(files) /\ Key(f.name) \in names
  OBVIOUS
<1>4. \A j \in gone : \E f \in found : j \in Deleted(ItemIndex(f.name))
  OBVIOUS
<1>5. \A f \in found : f.index \in gone
  BY <1>2, <1>3 DEF Deleted
<1>6. \A f \in Range(files) : Key(f.name) \in names => f \in found
  OBVIOUS
<1> HIDE DEF found, gone
<1>7. DiskInv(disk') /\ Range(disk') = {disk[i] : i \in DOMAIN disk \ gone}
  BY <1>1, DiskLeft
<1>8. ArchiveInv'
  <2>1. files' = CreateFileList(disk')
    BY <1>1 DEF UpdateFileList
  <2>2. Lists(files', disk')
    BY <1>7, <2>1, ListMade
  <2>3. QED
    BY <1>1, <1>7, <2>2 DEF ArchiveInv
<1>9. ASSUME NEW i \in DOMAIN disk PROVE disk[i] \in Range(disk') <=> i \notin gone
  BY <1>1, <1>7, DiskDistinct
<1>10. ASSUME NEW e \in Range(disk) \ Range(disk')
       PROVE  Key(e.name) \in asked' \/ <<Head(e.name)>> \in asked' \cap DirNames
  <2>1. PICK j \in DOMAIN disk : e = disk[j]
    BY DEF Range
  <2>2. PICK f \in found : j \in Deleted(ItemIndex(f.name))
    BY <1>4, <1>9, <2>1
  <2>3. PICK i \in DOMAIN disk : i = f.index /\ disk[i].name = f.name /\ j \in Deleted(i)
    BY <1>2, <1>3, <2>2
  <2>4. CASE j = i
    BY <1>1, <1>3, <2>1, <2>3, <2>4
  <2>5. CASE disk[i].dir /\ IsStrictPrefix(disk[i].name, disk[j].name)
    <3>1. disk[i].name \in DirNames /\ disk[j].name \in Names
      BY <1>1, <2>5, DiskDistinct DEF DiskInv
    <3>2. Key(disk[i].name) \in asked'
      BY <1>1, <1>3, <2>3
    <3>3. \/ Key(e.name) = Key(disk[i].name)
          \/ Key(disk[i].name) = disk[i].name /\ <<Head(e.name)>> = disk[i].name
      BY <2>1, <2>5, <3>1, KeyOfContent
    <3>4. QED
      BY <3>1, <3>2, <3>3
  <2>6. QED
    BY <2>3, <2>4, <2>5 DEF Deleted
<1>11. ASSUME NEW e \in Range(disk), Key(e.name) \in asked', e \notin Range(disk) \ Range(disk')
       PROVE  \E d \in Range(disk) \ Range(disk') : d.name = e.name /\ d.body < e.body
  <2>1. PICK j \in DOMAIN disk : e = disk[j]
    BY DEF Range
  <2>2. j \notin gone
    BY <1>9, <1>11, <2>1
  <2>3. PICK k \in DOMAIN files : /\ files[k].name = disk[j].name
                                  /\ files[k].index = j \/ files[k].index < j
    BY <1>1 DEF Lists
  <2>4. files[k] \in Range(files)
    BY DEF Range
  <2>5. PICK i \in DOMAIN disk : i = files[k].index /\ disk[i].name = files[k].name
    BY <1>2, <2>4
  <2>6. i \in gone
    <3>1. files[k] \in found
      BY <1>1, <1>6, <1>11, <2>1, <2>3, <2>4
    <3>2. QED
      BY <1>5, <2>5, <3>1
  <2>7. i < j
    BY <2>2, <2>3, <2>5, <2>6
  <2>8. disk[i] \in Range(disk) \ Range(disk')
    BY <1>9, <2>6 DEF Range
  <2>9. disk[i].name = e.name /\ disk[i].body < e.body
    BY <1>1, <2>1, <2>3, <2>5, <2>7 DEF DiskInv
  <2>10. QED
    BY <2>8, <2>9
<1>12. QED
  BY <1>8, <1>10, <1>11 DEF RemoveIsExact

\* Adding keeps the list that of the archive, for an object that has one.
LEMMA WriteStep ==
  ASSUME ArchiveInv, NEW names \in BoundedSeq(FileNames, 2), Write(names)
  PROVE  ArchiveInv' /\ RemoveIsExact
<1>1. /\ kind \in {"writer", "editor"} /\ asked' = {} /\ kind' = kind /\ listed' = listed
      /\ files' = UpdateFileList(disk')
  BY DEF Write
<1>2. PICK kept \in {disk, Sublist(disk, {i \in DOMAIN disk : disk[i].name \notin Range(names)})} :
        disk' = kept \o [i \in DOMAIN names |-> Entry(names[i], LastBody(disk) + i)]
  BY DEF Write
<1>3. PICK more \in Nat : names \in [1 .. more -> FileNames]
  <2>1. names \in UNION {[1 .. m -> FileNames] : m \in 0 .. 2}
    BY Zenon DEF BoundedSeq, SeqOf
  <2>2. PICK m \in 0 .. 2 : names \in [1 .. m -> FileNames]
    BY <2>1
  <2>3. m \in Nat
    OBVIOUS
  <2>4. QED
    BY <2>2, <2>3
<1>4. DiskInv(disk) /\ LastBody(disk) \in Nat /\ \A i \in DOMAIN disk : disk[i].body <= LastBody(disk)
  BY LastBodyIsLast DEF ArchiveInv
<1>5. DiskInv(kept) /\ \A i \in DOMAIN kept : kept[i].body <= LastBody(disk)
  <2>1. CASE kept = disk
    BY <2>1, <1>4
  <2>2. CASE kept # disk
    <3> DEFINE stay == {i \in DOMAIN disk : disk[i].name \notin Range(names)}
    <3>1. stay \in SUBSET DOMAIN disk /\ kept = Sublist(disk, stay)
      BY <2>2
    <3> HIDE DEF stay
    <3>2. DiskInv(kept) /\ Range(kept) = {disk[i] : i \in stay}
      BY <1>4, <3>1, DiskLeft
    <3>3. \A i \in DOMAIN kept : kept[i] \in Range(kept)
      BY DEF Range
    <3>4. QED
      BY <1>4, <3>1, <3>2, <3>3
  <2>3. QED
    BY <2>1, <2>2
<1>6. DiskInv(disk')
  BY <1>2, <1>3, <1>4, <1>5, DiskGrows
<1>7. kind' \in {"reader", "editor"} => listed' = TRUE /\ Lists(files', disk')
  <2> SUFFICES ASSUME kind = "editor" PROVE listed' = TRUE /\ Lists(files', disk')
    BY <1>1
  <2>1. listed = TRUE /\ files' = CreateFileList(disk')
    BY <1>1 DEF ArchiveInv, UpdateFileList
  <2>2. QED
    BY <1>1, <1>6, <2>1, ListMade
<1>8. kind' # "none"
  BY <1>1
<1>9. QED
  BY <1>1, <1>6, <1>7, <1>8 DEF ArchiveInv, RemoveIsExact

LEMMA ArchiveStep == ASSUME ArchiveInv, [Next]_vars PROVE ArchiveInv' /\ RemoveIsExact
<1>1. CASE UNCHANGED vars
  BY <1>1 DEF vars, ArchiveInv, RemoveIsExact
<1>2. CASE CreateReader
  <2>1. DiskInv(disk) /\ asked = {}
    BY <1>2 DEF CreateReader, ArchiveInv
  <2>2. Lists(CreateFileList(disk), disk)
    BY <2>1, ListMade
  <2>3. QED
    BY <1>2, <2>1, <2>2 DEF CreateReader, ArchiveInv, RemoveIsExact
<1>3. ASSUME NEW appendMode \in BOOLEAN, CreateWriter(appendMode) PROVE ArchiveInv' /\ RemoveIsExact
  <2>1. /\ disk' = disk \/ disk' = <<>>
        /\ files' = CreateFileList(disk') /\ asked' = {}
        /\ kind' = "editor" => listed' = TRUE
        /\ kind' \in {"editor", "writer"}
    BY <1>3 DEF CreateWriter, ArchiveInv
  <2>2. DiskInv(disk')
    <3>1. DiskInv(<<>>)
      BY DEF DiskInv
    <3>2. QED
      BY <2>1, <3>1 DEF ArchiveInv
  <2>3. Lists(files', disk')
    BY <2>1, <2>2, ListMade
  <2>4. QED
    BY <2>1, <2>2, <2>3 DEF ArchiveInv, RemoveIsExact
<1>4. CASE CreateStreamWriter
  <2>1. kind' = "writer" /\ disk' = <<>> /\ asked' = {}
    BY <1>4 DEF CreateStreamWriter, ArchiveInv
  <2>2. DiskInv(<<>>)
    BY DEF DiskInv
  <2>3. QED
    BY <2>1, <2>2 DEF ArchiveInv, RemoveIsExact
<1>5. CASE Close
  BY <1>5 DEF Close, ArchiveInv, RemoveIsExact
<1>6. ASSUME NEW names \in BoundedSeq(FileNames, 2), Write(names) PROVE ArchiveInv' /\ RemoveIsExact
  BY <1>6, WriteStep
<1>7. ASSUME NEW names, RemoveFiles(names) PROVE ArchiveInv' /\ RemoveIsExact
  BY <1>7, RemoveFilesStep
<1>8. CASE Terminated
  BY <1>8 DEF Terminated, vars, ArchiveInv, RemoveIsExact
<1>9. QED
  BY <1>1, <1>2, <1>3, <1>4, <1>5, <1>6, <1>7, <1>8 DEF Next

LEMMA ArchiveShows == ArchiveInv => ListIsTheArchive
<1> SUFFICES ASSUME ArchiveInv, kind \in {"reader", "editor"} PROVE ListIsTheArchive
  BY DEF ListIsTheArchive
<1>1. DiskInv(disk) /\ Lists(files, disk)
  BY DEF ArchiveInv
<1>2. QED
  BY <1>1, ListShows DEF ListIsTheArchive

-----------------------------------------------------------------------------
(* Comparing books                                                           *)

\* Which picture of the one book has found which of the other: all of both sets,
\* each one.
Pairs(f, some, others) ==
  /\ f \in [some -> others]
  /\ \A x, y \in some : f[x] = f[y] => x = y
  /\ \A y \in others : \E x \in some : f[x] = y

LEMMA PairsCount ==
  ASSUME NEW some, NEW others, NEW f, Pairs(f, some, others), IsFiniteSet(some)
  PROVE  IsFiniteSet(others) /\ Cardinality(others) = Cardinality(some)
<1>1. f \in Bijection(some, others)
  BY Fun_IsBij DEF Pairs
<1>2. ExistsBijection(some, others)
  BY <1>1, Fun_ExistsBij
<1>3. QED
  BY <1>2, FS_Bijection

LEMMA PairsInvert ==
  ASSUME NEW some, NEW others, NEW f, Pairs(f, some, others)
  PROVE  \E g : Pairs(g, others, some) /\ \A y \in others : f[g[y]] = y
<1> DEFINE g == [y \in others |-> CHOOSE x \in some : f[x] = y]
<1>1. \A y \in others : g[y] \in some /\ f[g[y]] = y
  BY DEF Pairs
<1>2. g \in [others -> some]
  BY <1>1
<1> HIDE DEF g
<1>3. \A x \in some : f[x] \in others /\ g[f[x]] = x
  BY <1>1 DEF Pairs
<1>4. Pairs(g, others, some)
  BY <1>1, <1>2, <1>3 DEF Pairs
<1>5. QED
  BY <1>1, <1>4

\* A pair more.
Grown(f, some, others, x, y) ==
  \E g : /\ Pairs(g, some \cup {x}, others \cup {y})
        /\ g[x] = y /\ \A z \in some : g[z] = f[z]

LEMMA PairsGrow ==
  ASSUME NEW some, NEW others, NEW f, Pairs(f, some, others),
         NEW x, x \notin some, NEW y, y \notin others
  PROVE  Grown(f, some, others, x, y)
<1> DEFINE g == [z \in some \cup {x} |-> IF z = x THEN y ELSE f[z]]
<1>1. g[x] = y /\ \A z \in some : g[z] = f[z]
  OBVIOUS
<1>2. g \in [some \cup {x} -> others \cup {y}]
  BY DEF Pairs
<1> HIDE DEF g
<1>3. \A v, w \in some \cup {x} : g[v] = g[w] => v = w
  BY <1>1 DEF Pairs
<1>4. \A v \in others \cup {y} : \E w \in some \cup {x} : g[w] = v
  BY <1>1 DEF Pairs
<1>5. QED
  BY <1>1, <1>2, <1>3, <1>4 DEF Pairs, Grown

\* Pairs that look alike take as many of each look out of both books.
AlikeWithout(A, B, some, others, g, h, p) ==
  Cardinality({x \in A : g[x] = p}) = Cardinality({y \in B : h[y] = p})
    <=> Cardinality({x \in A \ some : g[x] = p}) = Cardinality({y \in B \ others : h[y] = p})

LEMMA PairsAlike ==
  ASSUME NEW A, IsFiniteSet(A), NEW B, IsFiniteSet(B),
         NEW some \in SUBSET A, NEW others \in SUBSET B, NEW f, Pairs(f, some, others),
         NEW g, NEW h, \A x \in some : g[x] = h[f[x]], NEW p
  PROVE  AlikeWithout(A, B, some, others, g, h, p)
<1> DEFINE A1 == {x \in some : g[x] = p}
           B1 == {y \in others : h[y] = p}
           A2 == {x \in A \ some : g[x] = p}
           B2 == {y \in B \ others : h[y] = p}
           k  == [x \in A1 |-> f[x]]
<1>1. A1 \subseteq A /\ A2 \subseteq A /\ B1 \subseteq B /\ B2 \subseteq B
  OBVIOUS
<1>2. /\ {x \in A : g[x] = p} = A1 \cup A2 /\ A1 \cap A2 = {}
      /\ {y \in B : h[y] = p} = B1 \cup B2 /\ B1 \cap B2 = {}
  OBVIOUS
<1>3. Pairs(k, A1, B1)
  <2>1. \A x \in A1 : k[x] = f[x] /\ f[x] \in B1
    BY DEF Pairs
  <2>2. k \in [A1 -> B1]
    BY <2>1
  <2>3. \A y \in B1 : \E x \in A1 : f[x] = y
    BY DEF Pairs
  <2> HIDE DEF k
  <2>4. QED
    BY <2>1, <2>2, <2>3 DEF Pairs
<1> HIDE DEF A1, B1, A2, B2, k
<1>4. /\ IsFiniteSet(A1) /\ IsFiniteSet(A2) /\ IsFiniteSet(B1) /\ IsFiniteSet(B2)
  BY <1>1, FS_Subset
<1>5. Cardinality(B1) = Cardinality(A1)
  BY <1>3, <1>4, PairsCount
<1>6. Cardinality(A1 \cup A2) = Cardinality(A1) + Cardinality(A2) - Cardinality(A1 \cap A2)
  BY <1>4, FS_Union
<1>7. Cardinality(B1 \cup B2) = Cardinality(B1) + Cardinality(B2) - Cardinality(B1 \cap B2)
  BY <1>4, FS_Union
<1>8. Cardinality({}) = 0
  BY FS_EmptySet
<1>9. /\ Cardinality(A1) \in Nat /\ Cardinality(A2) \in Nat
      /\ Cardinality(B1) \in Nat /\ Cardinality(B2) \in Nat
  BY <1>4, FS_CardinalityType
<1>10. Cardinality(A1 \cup A2) = Cardinality(B1 \cup B2) <=> Cardinality(A2) = Cardinality(B2)
  <2>1. PICK a1 \in Nat, a2 \in Nat, b2 \in Nat :
          Cardinality(A1) = a1 /\ Cardinality(A2) = a2 /\ Cardinality(B2) = b2
    BY <1>9
  <2>2. Cardinality(A1 \cup A2) = a1 + a2 - 0
    BY <1>2, <1>6, <1>8, <2>1
  <2>3. Cardinality(B1 \cup B2) = a1 + b2 - 0
    BY <1>2, <1>5, <1>7, <1>8, <2>1
  <2>4. QED
    BY <2>1, <2>2, <2>3
<1>11. QED
  BY <1>2, <1>10 DEF A2, B2, AlikeWithout

-----------------------------------------------------------------------------

compareVars == <<left, right, l, r, lIds, rIds, phase, flags>>

\* How a picture of a book looks.
LeftLook  == [x \in 1 .. Len(left.images) |-> PHash(left.images[x])]
RightLook == [y \in 1 .. Len(right.images) |-> PHash(right.images[y])]

\* The pictures that have a counterpart.
FoundLeft  == (1 .. IF phase = "merge" THEN l - 1 ELSE Len(left.images)) \ lIds
FoundRight == (1 .. IF phase = "merge" THEN r - 1 ELSE Len(right.images)) \ rIds

\* There are equally many pictures of each look in both books.
Alike == \A p \in {PHash(d) : d \in Digests} : Compare!Count(left, p) = Compare!Count(right, p)

\* What is known before the pictures.
Known == Compare!CompareTexts \cup Compare!CompareCovers

\* Counterparts are similar unless a flag says that they are not, and look the same
\* in books with the same pictures.
Matched ==
  \E f : /\ Pairs(f, FoundLeft, FoundRight)
         /\ \A x \in FoundLeft :
              LET d == Compare!Between(x, f[x]) IN
              /\ d = 0 \/ "Images" \in flags \/ Compare!All \subseteq flags
              /\ d <= Compare!Threshold \/ Compare!All \subseteq flags
              /\ Alike => d = 0

CompareTyped ==
  /\ left \in Compare!Books /\ right \in Compare!Books
  /\ l \in 1 .. Len(left.images) + 1 /\ r \in 1 .. Len(right.images) + 1
  /\ phase \in {"merge", "pair", "done"} /\ flags \subseteq Compare!All \cup {"Images"}
  /\ lIds \subseteq 1 .. IF phase = "merge" THEN l - 1 ELSE Len(left.images)
  /\ rIds \subseteq 1 .. IF phase = "merge" THEN r - 1 ELSE Len(right.images)

CompareInv ==
  /\ CompareTyped /\ Matched
  /\ Known \subseteq flags /\ (Alike => flags = Known)
  /\ phase = "done" => /\ lIds = {} \/ rIds = {}
                       /\ (lIds # {} => "Left" \in flags) /\ (rIds # {} => "Right" \in flags)

\* A book is a record of digests.
LEMMA BookTyped ==
  ASSUME NEW b \in Compare!Books
  PROVE  /\ Len(b.images) \in Nat /\ DOMAIN b.images = 1 .. Len(b.images)
         /\ \A x \in 1 .. Len(b.images) : b.images[x] \in Digests
<1>1. PICK n \in 0 .. MaxImages : b.images \in [1 .. n -> Digests]
  BY DEF Compare!Books
<1>2. n \in Nat
  BY <1>1, CompareAssumption
<1>3. b.images \in Seq(Digests)
  BY <1>1, <1>2, SeqDef
<1>4. Len(b.images) = n
  BY <1>1, <1>2, <1>3, LenProperties
<1>5. QED
  BY <1>1, <1>2, <1>4

LEMMA LooksTyped ==
  ASSUME CompareTyped
  PROVE  /\ Len(left.images) \in Nat /\ Len(right.images) \in Nat
         /\ \A x \in 1 .. Len(left.images) :
              /\ left.images[x] \in Digests /\ left.images[x] \in Nat
              /\ LeftLook[x] = PHash(left.images[x]) /\ LeftLook[x] \in Nat
         /\ \A y \in 1 .. Len(right.images) :
              /\ right.images[y] \in Digests /\ right.images[y] \in Nat
              /\ RightLook[y] = PHash(right.images[y]) /\ RightLook[y] \in Nat
         /\ \A x \in 1 .. Len(left.images), y \in 1 .. Len(right.images) :
              /\ Compare!Between(x, y) \in Nat
              /\ Compare!Between(x, y) = 0 <=> LeftLook[x] = RightLook[y]
<1>1. left \in Compare!Books /\ right \in Compare!Books
  BY DEF CompareTyped
<1>2. /\ Len(left.images) \in Nat /\ Len(right.images) \in Nat
      /\ \A x \in 1 .. Len(left.images) : left.images[x] \in Digests
      /\ \A y \in 1 .. Len(right.images) : right.images[y] \in Digests
  BY <1>1, BookTyped
<1>3. \A d \in Digests : d \in Nat /\ PHash(d) \in Nat
  BY CompareAssumption
<1>4. \A x \in 1 .. Len(left.images), y \in 1 .. Len(right.images) :
        /\ Compare!Between(x, y) \in Nat
        /\ Compare!Between(x, y) = 0 <=> PHash(left.images[x]) = PHash(right.images[y])
  <2> SUFFICES ASSUME NEW x \in 1 .. Len(left.images), NEW y \in 1 .. Len(right.images)
               PROVE  /\ Compare!Between(x, y) \in Nat
                      /\ Compare!Between(x, y) = 0 <=> PHash(left.images[x]) = PHash(right.images[y])
    OBVIOUS
  <2>1. PICK v \in Nat, w \in Nat : v = PHash(left.images[x]) /\ w = PHash(right.images[y])
    BY <1>2, <1>3
  <2>2. Compare!Between(x, y) = IF v < w THEN w - v ELSE v - w
    BY <2>1 DEF Compare!Between, Compare!Distance
  <2>3. QED
    BY <2>1, <2>2
<1>5. QED
  BY <1>2, <1>3, <1>4 DEF LeftLook, RightLook


LEMMA FoundInBooks ==
  ASSUME CompareTyped
  PROVE  /\ FoundLeft \subseteq 1 .. Len(left.images) /\ FoundRight \subseteq 1 .. Len(right.images)
         /\ phase # "merge" => /\ (1 .. Len(left.images)) \ FoundLeft = lIds
                               /\ (1 .. Len(right.images)) \ FoundRight = rIds
<1>1. PICK m \in Nat, n \in Nat : m = Len(left.images) /\ n = Len(right.images)
  BY LooksTyped
<1>2. l \in 1 .. m + 1 /\ r \in 1 .. n + 1
  BY <1>1 DEF CompareTyped
<1>3. 1 .. l - 1 \subseteq 1 .. m /\ 1 .. r - 1 \subseteq 1 .. n
  BY <1>2
<1>4. QED
  BY <1>1, <1>3 DEF FoundLeft, FoundRight, CompareTyped

\* If all counterparts look the same, the books look alike exactly if what is left
\* of them does.
LEMMA RestAlike ==
  ASSUME CompareTyped, NEW f, Pairs(f, FoundLeft, FoundRight),
         \A x \in FoundLeft : Compare!Between(x, f[x]) = 0
  PROVE  Alike <=>
           \A p \in {PHash(d) : d \in Digests} :
             Cardinality({x \in (1 .. Len(left.images)) \ FoundLeft : LeftLook[x] = p})
               = Cardinality({y \in (1 .. Len(right.images)) \ FoundRight : RightLook[y] = p})
<1> DEFINE A == 1 .. Len(left.images)
           B == 1 .. Len(right.images)
<1>1. IsFiniteSet(A) /\ IsFiniteSet(B) /\ DOMAIN left.images = A /\ DOMAIN right.images = B
  <2>1. Len(left.images) \in Int /\ Len(right.images) \in Int /\ 1 \in Int
    BY LooksTyped
  <2>2. IsFiniteSet(A) /\ IsFiniteSet(B)
    BY <2>1, FS_Interval
  <2>3. QED
    BY <2>2, BookTyped DEF CompareTyped
<1>2. FoundLeft \in SUBSET A /\ FoundRight \in SUBSET B
  BY FoundInBooks
<1>3. \A x \in FoundLeft : LeftLook[x] = RightLook[f[x]]
  <2>1. \A x \in FoundLeft : f[x] \in FoundRight
    BY DEF Pairs
  <2>2. QED
    BY <1>2, <2>1, LooksTyped
<1>4. \A p : /\ Compare!Count(left, p) = Cardinality({x \in A : LeftLook[x] = p})
             /\ Compare!Count(right, p) = Cardinality({y \in B : RightLook[y] = p})
  <2> TAKE p
  <2>1. {x \in DOMAIN left.images : PHash(left.images[x]) = p} = {x \in A : LeftLook[x] = p}
    BY <1>1, LooksTyped
  <2>2. {y \in DOMAIN right.images : PHash(right.images[y]) = p} = {y \in B : RightLook[y] = p}
    BY <1>1, LooksTyped
  <2>3. QED
    BY <2>1, <2>2 DEF Compare!Count, Compare!Cardinality, Cardinality
<1> HIDE DEF A, B
<1>5. ASSUME NEW p
      PROVE  Compare!Count(left, p) = Compare!Count(right, p) <=>
               Cardinality({x \in A \ FoundLeft : LeftLook[x] = p})
                 = Cardinality({y \in B \ FoundRight : RightLook[y] = p})
  <2>1. PICK some, others, g, h :
          some = FoundLeft /\ others = FoundRight /\ g = LeftLook /\ h = RightLook
    OBVIOUS
  <2>2. /\ some \in SUBSET A /\ others \in SUBSET B /\ Pairs(f, some, others)
        /\ \A x \in some : g[x] = h[f[x]]
    BY <1>2, <1>3, <2>1
  <2>3. AlikeWithout(A, B, some, others, g, h, p)
    BY <1>1, <2>2, PairsAlike
  <2>4. QED
    BY <1>4, <2>1, <2>3 DEF AlikeWithout
<1>6. QED
  BY <1>5 DEF Alike, A, B

\* A set that is not empty has its like in one of the same cardinality.
LEMMA SameSizeNonempty ==
  ASSUME NEW S, NEW T, IsFiniteSet(S), IsFiniteSet(T), Cardinality(S) = Cardinality(T), S # {}
  PROVE  T # {}
  BY FS_EmptySet

\* In books that look alike every picture that is left has one that looks the same.
LEMMA Counterpart ==
  ASSUME CompareTyped, phase # "merge", Alike, NEW f, Pairs(f, FoundLeft, FoundRight),
         \A x \in FoundLeft : Compare!Between(x, f[x]) = 0
  PROVE  /\ \A x \in lIds : \E y \in rIds : Compare!Between(x, y) = 0
         /\ \A y \in rIds : \E x \in lIds : Compare!Between(x, y) = 0
<1>1. /\ lIds \subseteq 1 .. Len(left.images) /\ rIds \subseteq 1 .. Len(right.images)
      /\ (1 .. Len(left.images)) \ FoundLeft = lIds /\ (1 .. Len(right.images)) \ FoundRight = rIds
  BY FoundInBooks DEF CompareTyped
<1>2. IsFiniteSet(lIds) /\ IsFiniteSet(rIds)
  <2>1. Len(left.images) \in Int /\ Len(right.images) \in Int /\ 1 \in Int
    BY LooksTyped
  <2>2. IsFiniteSet(1 .. Len(left.images)) /\ IsFiniteSet(1 .. Len(right.images))
    BY <2>1, FS_Interval
  <2>3. QED
    BY <1>1, <2>2, FS_Subset
<1> DEFINE L(p) == {x \in lIds : LeftLook[x] = p}
           R(p) == {y \in rIds : RightLook[y] = p}
<1>3. \A p \in {PHash(d) : d \in Digests} : Cardinality(L(p)) = Cardinality(R(p))
  BY <1>1, RestAlike
<1>4. \A p : IsFiniteSet(L(p)) /\ IsFiniteSet(R(p))
  BY <1>2, FS_Subset
<1>5. ASSUME NEW x \in lIds PROVE \E y \in rIds : Compare!Between(x, y) = 0
  <2>1. PICK p \in {PHash(d) : d \in Digests} : p = LeftLook[x]
    BY <1>1, LooksTyped
  <2>2. L(p) # {}
    BY <2>1
  <2> HIDE DEF L, R
  <2>3. R(p) # {}
    BY <1>3, <1>4, <2>1, <2>2, SameSizeNonempty
  <2>4. PICK y : y \in R(p)
    BY <2>3
  <2>5. y \in rIds /\ LeftLook[x] = RightLook[y]
    BY <2>1, <2>4 DEF R
  <2>6. QED
    BY <1>1, <2>5, LooksTyped
<1>6. ASSUME NEW y \in rIds PROVE \E x \in lIds : Compare!Between(x, y) = 0
  <2>1. PICK p \in {PHash(d) : d \in Digests} : p = RightLook[y]
    BY <1>1, LooksTyped
  <2>2. R(p) # {}
    BY <2>1
  <2> HIDE DEF L, R
  <2>3. L(p) # {}
    BY <1>3, <1>4, <2>1, <2>2, SameSizeNonempty
  <2>4. PICK x : x \in L(p)
    BY <2>3
  <2>5. x \in lIds /\ LeftLook[x] = RightLook[y]
    BY <2>1, <2>4 DEF L
  <2>6. QED
    BY <1>1, <2>5, LooksTyped
<1>7. QED
  BY <1>5, <1>6

-----------------------------------------------------------------------------

LEMMA CompareBegins == Compare!Init => CompareInv
<1> SUFFICES ASSUME Compare!Init PROVE CompareInv
  OBVIOUS
<1>1. left \in Compare!Books /\ right \in Compare!Books /\ l = 1 /\ r = 1 /\ lIds = {} /\ rIds = {}
      /\ phase = "merge" /\ flags = Known
  BY DEF Compare!Init, Known
<1>2. Len(left.images) \in Nat /\ Len(right.images) \in Nat
  BY <1>1, BookTyped
<1>3. Known \subseteq Compare!All \cup {"Images"}
  BY DEF Known, Compare!CompareTexts, Compare!CompareCovers, Compare!FromHammingDistance, Compare!All
<1>4. CompareTyped
  BY <1>1, <1>2, <1>3 DEF CompareTyped
<1>5. FoundLeft = {} /\ FoundRight = {}
  BY <1>1 DEF FoundLeft, FoundRight
<1>6. Matched
  <2>1. PICK f : f = [x \in {} |-> x]
    OBVIOUS
  <2>2. Pairs(f, {}, {})
    BY <2>1 DEF Pairs
  <2>3. QED
    BY <1>5, <2>2 DEF Matched
<1>7. QED
  BY <1>1, <1>4, <1>6 DEF CompareInv

\* What does not depend on the pictures that have been looked at.
LEMMA SameBooks ==
  ASSUME UNCHANGED <<left, right>>
  PROVE  /\ Alike' <=> Alike
         /\ Known' = Known
         /\ \A x, y : Compare!Between(x, y)' = Compare!Between(x, y)
  BY DEF Alike, Compare!Count, Known, Compare!CompareTexts, Compare!CompareCovers,
         Compare!Between, Compare!Distance

LEMMA MatchedKept ==
  ASSUME Matched, UNCHANGED <<left, right>>, flags \subseteq flags',
         FoundLeft' = FoundLeft, FoundRight' = FoundRight
  PROVE  Matched'
<1>1. PICK f : /\ Pairs(f, FoundLeft, FoundRight)
               /\ \A x \in FoundLeft :
                    LET d == Compare!Between(x, f[x]) IN
                    /\ d = 0 \/ "Images" \in flags \/ Compare!All \subseteq flags
                    /\ d <= Compare!Threshold \/ Compare!All \subseteq flags
                    /\ Alike => d = 0
  BY DEF Matched
<1>2. Pairs(f, FoundLeft', FoundRight')
  BY <1>1
<1>3. \A x \in FoundLeft' :
        LET d == Compare!Between(x, f[x])' IN
        /\ d = 0 \/ "Images" \in flags' \/ Compare!All \subseteq flags'
        /\ d <= Compare!Threshold \/ Compare!All \subseteq flags'
        /\ Alike' => d = 0
  BY <1>1, SameBooks
<1>4. QED
  BY <1>2, <1>3 DEF Matched, Compare!All, Compare!Threshold

\* One pair more, of pictures this far from each other.
LEMMA MatchedMore ==
  ASSUME Matched, UNCHANGED <<left, right>>, flags \subseteq flags',
         NEW x, x \notin FoundLeft, FoundLeft' = FoundLeft \cup {x},
         NEW y, y \notin FoundRight, FoundRight' = FoundRight \cup {y},
         LET d == Compare!Between(x, y) IN
         /\ d = 0 \/ "Images" \in flags' \/ Compare!All \subseteq flags'
         /\ d <= Compare!Threshold \/ Compare!All \subseteq flags'
         /\ Alike => d = 0
  PROVE  Matched'
<1>1. PICK f : /\ Pairs(f, FoundLeft, FoundRight)
               /\ \A z \in FoundLeft :
                    LET d == Compare!Between(z, f[z]) IN
                    /\ d = 0 \/ "Images" \in flags \/ Compare!All \subseteq flags
                    /\ d <= Compare!Threshold \/ Compare!All \subseteq flags
                    /\ Alike => d = 0
  BY DEF Matched
<1>2. PICK g : /\ Pairs(g, FoundLeft \cup {x}, FoundRight \cup {y})
               /\ g[x] = y /\ \A z \in FoundLeft : g[z] = f[z]
  <2>1. PICK some, others : some = FoundLeft /\ others = FoundRight
    OBVIOUS
  <2>2. Pairs(f, some, others) /\ x \notin some /\ y \notin others
    BY <1>1, <2>1
  <2>3. Grown(f, some, others, x, y)
    BY <2>2, PairsGrow
  <2>4. QED
    BY <2>1, <2>3 DEF Grown
<1>3. Pairs(g, FoundLeft', FoundRight')
  BY <1>2
<1>4. ASSUME NEW z \in FoundLeft'
      PROVE  LET d == Compare!Between(z, g[z])' IN
             /\ d = 0 \/ "Images" \in flags' \/ Compare!All \subseteq flags'
             /\ d <= Compare!Threshold \/ Compare!All \subseteq flags'
             /\ Alike' => d = 0
  <2>1. CASE z \in FoundLeft
    BY <1>1, <1>2, <2>1, SameBooks
  <2>2. CASE z = x
    BY <1>2, <2>2, SameBooks
  <2>3. QED
    BY <1>4, <2>1, <2>2
<1>5. QED
  BY <1>3, <1>4 DEF Matched, Compare!All, Compare!Threshold

LEMMA MergeStep ==
  ASSUME CompareInv, Compare!SkipLeft \/ Compare!SkipRight \/ Compare!Equal \/ Compare!EndMerge
  PROVE  CompareInv'
<1>1. CompareTyped /\ Matched /\ Known \subseteq flags /\ (Alike => flags = Known) /\ phase = "merge"
      /\ UNCHANGED <<left, right, flags>>
  BY DEF CompareInv, Compare!SkipLeft, Compare!SkipRight, Compare!Equal, Compare!EndMerge,
         Compare!Merging
<1>2. PICK m \in Nat, n \in Nat : m = Len(left.images) /\ n = Len(right.images)
  BY <1>1, LooksTyped
<1>3. /\ l \in 1 .. m + 1 /\ r \in 1 .. n + 1 /\ lIds \subseteq 1 .. l - 1 /\ rIds \subseteq 1 .. r - 1
      /\ FoundLeft = (1 .. l - 1) \ lIds /\ FoundRight = (1 .. r - 1) \ rIds
  BY <1>1, <1>2 DEF CompareTyped, FoundLeft, FoundRight
<1>4. (1 .. l) = (1 .. l - 1) \cup {l} /\ l \notin 1 .. l - 1 /\ l + 1 - 1 = l
      /\ (1 .. r) = (1 .. r - 1) \cup {r} /\ r \notin 1 .. r - 1 /\ r + 1 - 1 = r
      /\ (1 .. l - 1) \cup (l .. m) = 1 .. m /\ (1 .. l - 1) \cap (l .. m) = {}
      /\ (1 .. r - 1) \cup (r .. n) = 1 .. n /\ (1 .. r - 1) \cap (r .. n) = {}
  BY <1>3
<1>5. SUFFICES CompareTyped' /\ Matched' /\ phase' \in {"merge", "pair"}
  <2>1. flags' = flags /\ Known' = Known /\ (Alike' <=> Alike)
    BY <1>1, SameBooks
  <2>2. phase' # "done"
    BY <1>5
  <2>3. QED
    BY <1>1, <1>5, <2>1, <2>2 DEF CompareInv
<1>6. CASE Compare!SkipLeft
  <2>1. /\ l' = l + 1 /\ lIds' = lIds \cup {l} /\ UNCHANGED <<r, rIds, phase>> /\ l <= m
    BY <1>2, <1>6 DEF Compare!SkipLeft, Compare!Merging
  <2>2. FoundLeft' = FoundLeft /\ FoundRight' = FoundRight
    BY <1>1, <1>3, <1>4, <2>1 DEF FoundLeft, FoundRight
  <2>3. CompareTyped'
    BY <1>1, <1>2, <1>3, <1>4, <2>1 DEF CompareTyped
  <2>4. QED
    BY <1>1, <2>1, <2>2, <2>3, MatchedKept
<1>7. CASE Compare!SkipRight
  <2>1. /\ r' = r + 1 /\ rIds' = rIds \cup {r} /\ UNCHANGED <<l, lIds, phase>> /\ r <= n
    BY <1>2, <1>7 DEF Compare!SkipRight, Compare!Merging
  <2>2. FoundLeft' = FoundLeft /\ FoundRight' = FoundRight
    BY <1>1, <1>3, <1>4, <2>1 DEF FoundLeft, FoundRight
  <2>3. CompareTyped'
    BY <1>1, <1>2, <1>3, <1>4, <2>1 DEF CompareTyped
  <2>4. QED
    BY <1>1, <2>1, <2>2, <2>3, MatchedKept
<1>8. CASE Compare!Equal
  <2>1. /\ l' = l + 1 /\ r' = r + 1 /\ UNCHANGED <<lIds, rIds, phase>> /\ l <= m /\ r <= n
        /\ left.images[l] = right.images[r]
    BY <1>2, <1>8 DEF Compare!Equal, Compare!Merging
  <2>2. FoundLeft' = FoundLeft \cup {l} /\ FoundRight' = FoundRight \cup {r}
    BY <1>1, <1>3, <1>4, <2>1 DEF FoundLeft, FoundRight
  <2>3. l \notin FoundLeft /\ r \notin FoundRight
    BY <1>3, <1>4
  <2>4. CompareTyped'
    BY <1>1, <1>2, <1>3, <1>4, <2>1 DEF CompareTyped
  <2>5. Compare!Between(l, r) = 0
    <3>1. l \in 1 .. Len(left.images) /\ r \in 1 .. Len(right.images)
      BY <1>2, <1>3, <2>1
    <3>2. LeftLook[l] = RightLook[r]
      BY <1>1, <2>1, <3>1, LooksTyped
    <3>3. QED
      BY <1>1, <3>1, <3>2, LooksTyped
  <2>6. Compare!Between(l, r) <= Compare!Threshold
    BY <2>5 DEF Compare!Threshold
  <2>7. Matched'
    BY <1>1, <2>2, <2>3, <2>5, <2>6, MatchedMore
  <2>8. QED
    BY <1>1, <2>1, <2>4, <2>7
<1>9. CASE Compare!EndMerge
  <2>1. /\ lIds' = lIds \cup l .. m /\ rIds' = rIds \cup r .. n /\ phase' = "pair" /\ UNCHANGED <<l, r>>
    BY <1>2, <1>9 DEF Compare!EndMerge, Compare!Rest
  <2>2. FoundLeft' = FoundLeft /\ FoundRight' = FoundRight
    BY <1>1, <1>2, <1>3, <1>4, <2>1 DEF FoundLeft, FoundRight
  <2>3. CompareTyped'
    BY <1>1, <1>2, <1>3, <1>4, <2>1 DEF CompareTyped
  <2>4. QED
    BY <1>1, <2>1, <2>2, <2>3, MatchedKept
<1>10. QED
  BY <1>6, <1>7, <1>8, <1>9

\* The flags of a distance.
LEMMA FlagsOf ==
  ASSUME NEW d \in Nat
  PROVE  LET F == Compare!FromHammingDistance(d) IN
         /\ F \subseteq Compare!All \cup {"Images"} /\ (d = 0 => F = {})
         /\ d = 0 \/ "Images" \in F \/ Compare!All \subseteq F
         /\ d <= Compare!Threshold \/ Compare!All \subseteq F
<1>1. CASE d = 0
  BY <1>1 DEF Compare!FromHammingDistance, Compare!Threshold
<1>2. CASE d \in 1 .. 16
  BY <1>2 DEF Compare!FromHammingDistance, Compare!Threshold
<1>3. CASE d # 0 /\ d \notin 1 .. 16
  BY <1>3 DEF Compare!FromHammingDistance, Compare!Threshold
<1>4. QED
  BY <1>1, <1>2, <1>3

\* The closest pair of what is left of books that look alike looks the same.
LEMMA ClosestAlike ==
  ASSUME CompareTyped, Matched, Alike, phase # "merge",
         NEW x \in lIds, NEW y \in rIds, Compare!Closest(x, y)
  PROVE  Compare!Between(x, y) = 0
<1>1. PICK f : Pairs(f, FoundLeft, FoundRight) /\ \A z \in FoundLeft : Compare!Between(z, f[z]) = 0
  BY DEF Matched
<1>2. PICK w \in rIds : Compare!Between(x, w) = 0
  BY <1>1, Counterpart
<1>3. Compare!Between(x, y) <= Compare!Between(x, w)
  BY DEF Compare!Closest
<1>4. Compare!Between(x, y) \in Nat
  BY LooksTyped DEF CompareTyped
<1>5. QED
  BY <1>2, <1>3, <1>4

LEMMA PairStep ==
  ASSUME CompareInv, NEW x, NEW y, Compare!Pair(x, y)
  PROVE  CompareInv'
<1>1. /\ CompareTyped /\ Matched /\ Known \subseteq flags /\ (Alike => flags = Known)
      /\ phase = "pair" /\ x \in lIds /\ y \in rIds /\ Compare!Closest(x, y)
      /\ lIds' = lIds \ {x} /\ rIds' = rIds \ {y}
      /\ flags' = flags \cup Compare!FromHammingDistance(Compare!Between(x, y))
      /\ UNCHANGED <<left, right, l, r, phase>>
  BY DEF CompareInv, Compare!Pair
<1>2. /\ lIds \subseteq 1 .. Len(left.images) /\ rIds \subseteq 1 .. Len(right.images)
      /\ flags \subseteq Compare!All \cup {"Images"}
  BY <1>1 DEF CompareTyped
<1>3. PICK d \in Nat : d = Compare!Between(x, y)
  BY <1>1, <1>2, LooksTyped
<1>4. Alike => d = 0
  BY <1>1, <1>3, ClosestAlike
<1>5. PICK F : F = Compare!FromHammingDistance(d)
  OBVIOUS
<1>6. /\ F \subseteq Compare!All \cup {"Images"} /\ (d = 0 => F = {})
      /\ d = 0 \/ "Images" \in F \/ Compare!All \subseteq F
      /\ d <= Compare!Threshold \/ Compare!All \subseteq F
  BY <1>5, FlagsOf
<1>7. flags' = flags \cup F
  BY <1>1, <1>3, <1>5
<1>8. /\ FoundLeft' = FoundLeft \cup {x} /\ FoundRight' = FoundRight \cup {y}
      /\ x \notin FoundLeft /\ y \notin FoundRight
  BY <1>1, <1>2 DEF FoundLeft, FoundRight
<1>9. /\ d = 0 \/ "Images" \in flags' \/ Compare!All \subseteq flags'
      /\ d <= Compare!Threshold \/ Compare!All \subseteq flags'
  BY <1>6, <1>7
<1>10. Matched'
  BY <1>1, <1>3, <1>4, <1>7, <1>8, <1>9, MatchedMore
<1>11. CompareTyped'
  BY <1>1, <1>2, <1>6, <1>7 DEF CompareTyped, Compare!All
<1>12. Known' \subseteq flags' /\ (Alike' => flags' = Known')
  BY <1>1, <1>4, <1>6, <1>7, SameBooks
<1>13. QED
  BY <1>1, <1>10, <1>11, <1>12 DEF CompareInv

LEMMA NotFoundStep ==
  ASSUME CompareInv, Compare!NotFound
  PROVE  CompareInv'
<1>1. /\ CompareTyped /\ Matched /\ Known \subseteq flags /\ (Alike => flags = Known)
      /\ phase = "pair" /\ (lIds = {} \/ rIds = {}) /\ phase' = "done"
      /\ flags' = flags \cup (IF lIds # {} THEN {"Left"} ELSE {})
                        \cup (IF rIds # {} THEN {"Right"} ELSE {})
      /\ UNCHANGED <<left, right, l, r, lIds, rIds>>
  BY DEF CompareInv, Compare!NotFound
<1>2. FoundLeft' = FoundLeft /\ FoundRight' = FoundRight
  BY <1>1 DEF FoundLeft, FoundRight
<1>3. Matched'
  BY <1>1, <1>2, MatchedKept
<1>4. CompareTyped'
  BY <1>1 DEF CompareTyped, Compare!All
<1>5. Alike => lIds = {} /\ rIds = {}
  <2>1. SUFFICES ASSUME Alike PROVE lIds = {} /\ rIds = {}
    OBVIOUS
  <2>2. PICK f : Pairs(f, FoundLeft, FoundRight) /\ \A z \in FoundLeft : Compare!Between(z, f[z]) = 0
    BY <1>1, <2>1 DEF Matched
  <2>3. (\A x \in lIds : \E y \in rIds : TRUE) /\ (\A y \in rIds : \E x \in lIds : TRUE)
    BY <1>1, <2>1, <2>2, Counterpart
  <2>4. QED
    BY <1>1, <2>3
<1>6. Known' \subseteq flags' /\ (Alike' => flags' = Known')
  BY <1>1, <1>5, SameBooks
<1>7. QED
  BY <1>1, <1>3, <1>4, <1>6 DEF CompareInv

LEMMA CompareStep == CompareInv /\ [Compare!Next]_compareVars => CompareInv'
<1> SUFFICES ASSUME CompareInv, [Compare!Next]_compareVars PROVE CompareInv'
  OBVIOUS
<1>1. CASE Compare!SkipLeft \/ Compare!SkipRight \/ Compare!Equal \/ Compare!EndMerge
  BY <1>1, MergeStep
<1>2. CASE \E x, y \in 1 .. MaxImages : Compare!Pair(x, y)
  BY <1>2, PairStep
<1>3. CASE Compare!NotFound
  BY <1>3, NotFoundStep
<1>4. CASE Compare!Done \/ UNCHANGED compareVars
  <2>1. UNCHANGED <<left, right, l, r, lIds, rIds, phase, flags>>
    BY <1>4 DEF Compare!Done, Compare!vars, compareVars
  <2>2. FoundLeft' = FoundLeft /\ FoundRight' = FoundRight
    BY <2>1 DEF FoundLeft, FoundRight
  <2>3. Matched'
    BY <2>1, <2>2, MatchedKept DEF CompareInv
  <2>4. CompareTyped'
    BY <2>1 DEF CompareInv, CompareTyped, Compare!All
  <2>5. QED
    BY <2>1, <2>3, <2>4, SameBooks DEF CompareInv
<1>5. QED
  BY <1>1, <1>2, <1>3, <1>4 DEF Compare!Next

-----------------------------------------------------------------------------

\* What the flags say of the texts and the covers.
LEMMA KnownMeans ==
  ASSUME left \in Compare!Books, right \in Compare!Books
  PROVE  /\ left.text # right.text => Compare!All \subseteq Known
         /\ Known = {} <=>
              /\ left.text = right.text
              /\ \/ left.cover = right.cover
                 \/ /\ Compare!NoCover \notin {left.cover, right.cover}
                    /\ Compare!Distance(left.cover, right.cover) = 0
<1>1. left.cover \in CoverDigests \cup {Compare!NoCover} /\ right.cover \in CoverDigests \cup {Compare!NoCover}
  BY DEF Compare!Books
<1>2. left.text = right.text => Compare!CompareTexts = {}
  BY DEF Compare!CompareTexts
<1>3. left.text # right.text => Compare!CompareTexts = {"Left", "Right"}
  BY DEF Compare!CompareTexts, Compare!All
<1>4. Compare!CompareCovers = {} <=>
        \/ left.cover = right.cover
        \/ /\ Compare!NoCover \notin {left.cover, right.cover}
           /\ Compare!Distance(left.cover, right.cover) = 0
  <2>1. CASE left.cover = right.cover
    BY <2>1 DEF Compare!CompareCovers
  <2>2. CASE left.cover # right.cover /\ Compare!NoCover \in {left.cover, right.cover}
    BY <2>2 DEF Compare!CompareCovers
  <2>3. CASE left.cover # right.cover /\ Compare!NoCover \notin {left.cover, right.cover}
    <3>1. PHash(left.cover) \in Nat /\ PHash(right.cover) \in Nat
      BY <1>1, <2>3, CompareAssumption
    <3>2. PICK d \in Nat : d = Compare!Distance(left.cover, right.cover)
      <4>1. PICK v \in Nat, w \in Nat : v = PHash(left.cover) /\ w = PHash(right.cover)
        BY <3>1
      <4>2. Compare!Distance(left.cover, right.cover) = IF v < w THEN w - v ELSE v - w
        BY <4>1 DEF Compare!Distance
      <4>3. QED
        BY <4>1, <4>2
    <3>3. Compare!CompareCovers = Compare!FromHammingDistance(d)
      BY <2>3, <3>2 DEF Compare!CompareCovers
    <3>4. Compare!FromHammingDistance(d) = {} <=> d = 0
      BY FlagsOf DEF Compare!All
    <3>5. QED
      BY <2>3, <3>2, <3>3, <3>4
  <2>4. QED
    BY <2>1, <2>2, <2>3
<1>5. QED
  BY <1>2, <1>3, <1>4 DEF Known, Compare!All

\* What the sentence says of the flags.
LEMMA VerdictMeans ==
  /\ Compare!Verdict = "books are the same" <=> flags = {}
  /\ Compare!Verdict # "books are different" => ~ Compare!All \subseteq flags
  /\ Compare!Verdict # "books are different" /\ Compare!Verdict # "left probably includes right" =>
       "Left" \notin flags /\ "Right" \notin flags
<1>1. CASE flags = {}
  BY <1>1 DEF Compare!Verdict, Compare!All
<1>2. CASE flags = {"Images"}
  BY <1>2 DEF Compare!Verdict, Compare!All
<1>3. CASE flags # {} /\ flags # {"Images"} /\ Compare!All \subseteq flags
  BY <1>3 DEF Compare!Verdict
<1>4. CASE flags # {} /\ flags # {"Images"} /\ ~ Compare!All \subseteq flags
  BY <1>4 DEF Compare!Verdict
<1>5. QED
  BY <1>1, <1>2, <1>3, <1>4

LEMMA SameShown == CompareInv => Compare!SameMeansSame
<1> SUFFICES ASSUME CompareInv, phase = "done"
             PROVE  flags = {} <=> Known = {} /\ Alike
  BY KnownMeans, VerdictMeans DEF Compare!SameMeansSame, Alike, CompareInv, CompareTyped
<1>1. /\ CompareTyped /\ Known \subseteq flags /\ (Alike => flags = Known)
      /\ (lIds # {} => "Left" \in flags) /\ (rIds # {} => "Right" \in flags)
  BY DEF CompareInv
<1>2. ASSUME flags = {} PROVE Alike
  <2>1. lIds = {} /\ rIds = {}
    BY <1>1, <1>2
  <2>2. PICK f : Pairs(f, FoundLeft, FoundRight) /\ \A x \in FoundLeft : Compare!Between(x, f[x]) = 0
    BY <1>2 DEF CompareInv, Matched, Compare!All
  <2>3. (1 .. Len(left.images)) \ FoundLeft = {} /\ (1 .. Len(right.images)) \ FoundRight = {}
    BY <1>1, <2>1, FoundInBooks
  <2>4. \A p : /\ {x \in (1 .. Len(left.images)) \ FoundLeft : LeftLook[x] = p} = {}
               /\ {y \in (1 .. Len(right.images)) \ FoundRight : RightLook[y] = p} = {}
    BY <2>3
  <2>5. QED
    BY <1>1, <2>2, <2>4, RestAlike
<1>3. QED
  BY <1>1, <1>2

\* What it takes for the one book to be in the other.
LEMMA SimilarBy ==
  ASSUME NEW some, NEW more, NEW f \in [DOMAIN some.images -> DOMAIN more.images],
         \A k \in DOMAIN some.images :
           Compare!Distance(some.images[k], more.images[f[k]]) <= Compare!Threshold,
         \A k, m \in DOMAIN some.images : k # m => f[k] # f[m]
  PROVE  Compare!Similar(some, more)
  BY DEF Compare!Similar

LEMMA IncludesShown == CompareInv => Compare!IncludesMeansIncludes
<1> SUFFICES ASSUME CompareInv, phase = "done", ~ Compare!All \subseteq flags
             PROVE  /\ left.text = right.text
                    /\ Compare!Similar(left, right) \/ Compare!Similar(right, left)
                    /\ "Left" \notin flags /\ "Right" \notin flags =>
                         Len(left.images) = Len(right.images)
  BY VerdictMeans DEF Compare!IncludesMeansIncludes
<1>1. /\ CompareTyped /\ Known \subseteq flags /\ (lIds = {} \/ rIds = {})
      /\ (lIds # {} => "Left" \in flags) /\ (rIds # {} => "Right" \in flags)
  BY DEF CompareInv
<1>2. left.text = right.text
  BY <1>1, KnownMeans DEF CompareTyped
<1>3. PICK f : /\ Pairs(f, FoundLeft, FoundRight)
               /\ \A x \in FoundLeft : Compare!Between(x, f[x]) <= Compare!Threshold
  BY DEF CompareInv, Matched
<1>4. /\ DOMAIN left.images = 1 .. Len(left.images) /\ DOMAIN right.images = 1 .. Len(right.images)
      /\ Len(left.images) \in Nat /\ Len(right.images) \in Nat
  BY <1>1, BookTyped DEF CompareTyped
<1>5. /\ FoundLeft \subseteq 1 .. Len(left.images) /\ FoundRight \subseteq 1 .. Len(right.images)
      /\ (1 .. Len(left.images)) \ FoundLeft = lIds /\ (1 .. Len(right.images)) \ FoundRight = rIds
  BY <1>1, FoundInBooks
<1>6. ASSUME lIds = {} PROVE Compare!Similar(left, right)
  <2>1. FoundLeft = DOMAIN left.images
    BY <1>4, <1>5, <1>6
  <2>2. f \in [DOMAIN left.images -> DOMAIN right.images]
    BY <1>3, <1>4, <1>5, <2>1 DEF Pairs
  <2>3. /\ \A k \in DOMAIN left.images :
             Compare!Distance(left.images[k], right.images[f[k]]) <= Compare!Threshold
        /\ \A k, m \in DOMAIN left.images : k # m => f[k] # f[m]
    BY <1>3, <2>1 DEF Pairs, Compare!Between
  <2>4. QED
    BY <2>2, <2>3, SimilarBy
<1>7. ASSUME rIds = {} PROVE Compare!Similar(right, left)
  <2>1. FoundRight = DOMAIN right.images
    BY <1>4, <1>5, <1>7
  <2>2. PICK g : Pairs(g, FoundRight, FoundLeft) /\ \A y \in FoundRight : f[g[y]] = y
    <3>1. PICK some, others : some = FoundLeft /\ others = FoundRight
      OBVIOUS
    <3>2. \E g : Pairs(g, others, some) /\ \A y \in others : f[g[y]] = y
      BY <1>3, <3>1, PairsInvert
    <3>3. QED
      BY <3>1, <3>2
  <2>3. g \in [DOMAIN right.images -> DOMAIN left.images]
    BY <1>4, <1>5, <2>1, <2>2 DEF Pairs
  <2>4. ASSUME NEW k \in DOMAIN right.images
        PROVE  Compare!Distance(right.images[k], left.images[g[k]]) <= Compare!Threshold
    <3>1. g[k] \in FoundLeft /\ f[g[k]] = k
      BY <2>1, <2>2 DEF Pairs
    <3>2. Compare!Distance(left.images[g[k]], right.images[k]) <= Compare!Threshold
      BY <1>3, <3>1 DEF Compare!Between
    <3>3. PICK v \in Nat, w \in Nat : v = PHash(left.images[g[k]]) /\ w = PHash(right.images[k])
      <4>1. left.images[g[k]] \in Digests /\ right.images[k] \in Digests
        BY <1>1, <1>4, <1>5, <3>1, LooksTyped
      <4>2. QED
        BY <4>1, CompareAssumption
    <3>4. Compare!Distance(right.images[k], left.images[g[k]])
            = Compare!Distance(left.images[g[k]], right.images[k])
      BY <3>3 DEF Compare!Distance
    <3>5. QED
      BY <3>2, <3>4
  <2>5. \A k, m \in DOMAIN right.images : k # m => g[k] # g[m]
    BY <2>1, <2>2 DEF Pairs
  <2>6. QED
    BY <2>3, <2>4, <2>5, SimilarBy
<1>8. ASSUME "Left" \notin flags, "Right" \notin flags
      PROVE  Len(left.images) = Len(right.images)
  <2>1. FoundLeft = 1 .. Len(left.images) /\ FoundRight = 1 .. Len(right.images)
    BY <1>1, <1>5, <1>8
  <2>2. PICK m \in Nat, n \in Nat : m = Len(left.images) /\ n = Len(right.images)
    BY <1>4
  <2>3. Pairs(f, 1 .. m, 1 .. n)
    BY <1>3, <2>1, <2>2
  <2>4. /\ IsFiniteSet(1 .. m) /\ Cardinality(1 .. m) = m
        /\ Cardinality(1 .. n) = n
    <3>1. 1 \in Int /\ m \in Int /\ n \in Int
      OBVIOUS
    <3>2. IsFiniteSet(1 .. m) /\ Cardinality(1 .. m) = IF 1 > m THEN 0 ELSE m - 1 + 1
      BY <3>1, FS_Interval
    <3>3. Cardinality(1 .. n) = IF 1 > n THEN 0 ELSE n - 1 + 1
      BY <3>1, FS_Interval
    <3>4. QED
      BY <3>2, <3>3
  <2>5. Cardinality(1 .. n) = Cardinality(1 .. m)
    BY <2>3, <2>4, PairsCount
  <2>6. QED
    BY <2>2, <2>4, <2>5
<1>9. QED
  BY <1>1, <1>2, <1>6, <1>7, <1>8

\* Equally many pictures of both books have been found.
LEMMA CompareTypeShown == CompareInv => Compare!TypeOK
<1> SUFFICES ASSUME CompareInv PROVE Compare!TypeOK
  OBVIOUS
<1>1. CompareTyped
  BY DEF CompareInv
<1>2. /\ lIds \subseteq 1 .. Len(left.images) /\ rIds \subseteq 1 .. Len(right.images)
  <2>1. PICK m \in Nat, n \in Nat : m = Len(left.images) /\ n = Len(right.images)
    BY <1>1, LooksTyped
  <2>2. l \in 1 .. m + 1 /\ r \in 1 .. n + 1
    BY <1>1, <2>1 DEF CompareTyped
  <2>3. 1 .. l - 1 \subseteq 1 .. m /\ 1 .. r - 1 \subseteq 1 .. n
    BY <2>2
  <2>4. QED
    BY <1>1, <2>1, <2>3 DEF CompareTyped
<1>3. ASSUME phase # "merge"
      PROVE  Len(left.images) - Cardinality(lIds) = Len(right.images) - Cardinality(rIds)
  <2>1. PICK m \in Nat, n \in Nat : m = Len(left.images) /\ n = Len(right.images)
    BY <1>1, LooksTyped
  <2>2. /\ IsFiniteSet(1 .. m) /\ Cardinality(1 .. m) = m
        /\ IsFiniteSet(1 .. n) /\ Cardinality(1 .. n) = n
    <3>1. 1 \in Int /\ m \in Int /\ n \in Int
      OBVIOUS
    <3>2. IsFiniteSet(1 .. m) /\ Cardinality(1 .. m) = IF 1 > m THEN 0 ELSE m - 1 + 1
      BY <3>1, FS_Interval
    <3>3. IsFiniteSet(1 .. n) /\ Cardinality(1 .. n) = IF 1 > n THEN 0 ELSE n - 1 + 1
      BY <3>1, FS_Interval
    <3>4. QED
      BY <3>2, <3>3
  <2>3. PICK some, others : some = FoundLeft /\ others = FoundRight
    OBVIOUS
  <2>4. some = (1 .. m) \ lIds /\ others = (1 .. n) \ rIds
    BY <1>3, <2>1, <2>3 DEF FoundLeft, FoundRight
  <2>5. IsFiniteSet(some) /\ IsFiniteSet(lIds) /\ IsFiniteSet(rIds)
    BY <1>2, <2>1, <2>2, <2>4, FS_Subset
  <2>6. Cardinality(others) = Cardinality(some)
    <3>1. PICK f : Pairs(f, some, others)
      BY <2>3 DEF CompareInv, Matched
    <3>2. QED
      BY <2>5, <3>1, PairsCount
  <2>7. /\ Cardinality((1 .. m) \ lIds) = Cardinality(1 .. m) - Cardinality((1 .. m) \cap lIds)
        /\ Cardinality((1 .. n) \ rIds) = Cardinality(1 .. n) - Cardinality((1 .. n) \cap rIds)
    BY <2>2, FS_Difference
  <2>8. (1 .. m) \cap lIds = lIds /\ (1 .. n) \cap rIds = rIds
    BY <1>2, <2>1
  <2>9. Cardinality(some) = m - Cardinality(lIds) /\ Cardinality(others) = n - Cardinality(rIds)
    BY <2>2, <2>4, <2>7, <2>8
  <2>10. m - Cardinality(lIds) = n - Cardinality(rIds)
    BY <2>6, <2>9
  <2>11. QED
    BY <2>1, <2>10
<1>4. phase # "merge" =>
        Len(left.images) - Compare!Cardinality(lIds) = Len(right.images) - Compare!Cardinality(rIds)
  BY <1>3 DEF Compare!Cardinality, Cardinality
<1>5. QED
  BY <1>1, <1>2, <1>4 DEF CompareTyped, Compare!TypeOK

-----------------------------------------------------------------------------
(* The cover of an EPUB book *)

\* Every set of numbers has a least one.
LEMMA LeastNumber ==
  ASSUME NEW S \in SUBSET Nat, S # {}
  PROVE  \E n \in S : \A m \in S : n <= m
<1> DEFINE R == OpToRel(<, Nat)
<1>1. IsWellFoundedOn(R, Nat)
  BY NatLessThanWellFounded
<1>2. \A x, y \in Nat : <<x, y>> \in R <=> x < y
  BY DEF OpToRel
<1> HIDE DEF R
<1>3. PICK x \in S : \A y \in S : ~(<<y, x>> \in R)
  BY <1>1, WFMin
<1>4. \A y \in S : x <= y
  <2>1. x \in Nat /\ \A y \in S : y \in Nat /\ ~(y < x)
    BY <1>2, <1>3
  <2>2. QED
    BY <2>1
<1>5. QED
  BY <1>3, <1>4

epubVars == <<mode, phase, body, shows, section, passed, open, text, functor, fields, coverId,
              coverPath, manifest, spineItemRefFound, doc, images, texts, coverExists>>

\* The first and the last of some positions.
LEMMA FirstOf ==
  ASSUME NEW n \in Nat, NEW S \in SUBSET (1 .. n), S # {}
  PROVE  /\ Epub!Min(S) \in S /\ Epub!Min(S \cup {n + 1}) = Epub!Min(S)
<1>1. PICK k \in S : \A m \in S : k <= m
  <2>1. S \in SUBSET Nat
    OBVIOUS
  <2>2. QED
    BY <2>1, LeastNumber
<1>2. /\ Epub!Min(S) \in S /\ \A m \in S : Epub!Min(S) <= m
  BY <1>1 DEF Epub!Min
<1>3. /\ Epub!Min(S \cup {n + 1}) \in S \cup {n + 1}
      /\ \A m \in S \cup {n + 1} : Epub!Min(S \cup {n + 1}) <= m
  <2>1. \A m \in S \cup {n + 1} : k <= m
    BY <1>1
  <2>2. QED
    BY <2>1 DEF Epub!Min
<1>4. PICK a \in Nat, b \in Nat : a = Epub!Min(S) /\ b = Epub!Min(S \cup {n + 1})
  <2>1. S \subseteq Nat /\ S \cup {n + 1} \subseteq Nat
    OBVIOUS
  <2>2. Epub!Min(S) \in Nat /\ Epub!Min(S \cup {n + 1}) \in Nat
    BY <1>2, <1>3, <2>1
  <2>3. QED
    BY <2>2
<1>5. a \in S /\ (b \in S \/ b = n + 1) /\ b <= a /\ (b \in S => a <= b)
  BY <1>2, <1>3, <1>4
<1>6. a = b
  BY <1>5
<1>7. QED
  BY <1>2, <1>4, <1>6

LEMMA OnlyOne ==
  ASSUME NEW i \in Nat
  PROVE  Epub!Min({i}) = i
  BY DEF Epub!Min

LEMMA LastOf ==
  ASSUME NEW n \in Nat, NEW S \in SUBSET (1 .. n)
  PROVE  /\ S # {} => Epub!Max(S) \in S
         /\ Epub!Max(S \cup {n + 1}) = n + 1
<1>1. ASSUME S # {} PROVE Epub!Max(S) \in S
  <2> DEFINE T == {n - i : i \in S}
  <2>1. T \in SUBSET Nat /\ T # {} /\ \A j \in S : n - j \in T
    <3>1. \A j \in S : n - j \in Nat
      OBVIOUS
    <3>2. QED
      BY <1>1, <3>1
  <2>2. \A k \in T : \E i \in S : k = n - i
    OBVIOUS
  <2> HIDE DEF T
  <2>3. PICK k \in T : \A m \in T : k <= m
    BY <2>1, LeastNumber
  <2>4. PICK i \in S : k = n - i
    BY <2>2, <2>3
  <2>5. \A j \in S : i >= j
    BY <2>1, <2>3, <2>4
  <2>6. QED
    BY <2>5 DEF Epub!Max
<1>2. Epub!Max(S \cup {n + 1}) = n + 1
  <2>1. /\ n + 1 \in S \cup {n + 1} /\ \A j \in S \cup {n + 1} : n + 1 >= j
    OBVIOUS
  <2>2. /\ Epub!Max(S \cup {n + 1}) \in S \cup {n + 1}
        /\ \A j \in S \cup {n + 1} : Epub!Max(S \cup {n + 1}) >= j
    BY <2>1 DEF Epub!Max
  <2>3. Epub!Max(S \cup {n + 1}) \in 1 .. n + 1
    <3>1. S \cup {n + 1} \subseteq 1 .. n + 1
      OBVIOUS
    <3>2. QED
      BY <2>2, <3>1
  <2>4. Epub!Max(S \cup {n + 1}) >= n + 1
    BY <2>1, <2>2
  <2>5. QED
    BY <2>3, <2>4
<1>3. QED
  BY <1>1, <1>2

\* The elements of the package document.
DocElements ==
  [kind : {"field"}] \cup [kind : {"meta"}, id : ItemIds] \cup [kind : {"itemref"}, id : ItemIds] \cup
  [kind : {"item"}, id : ItemIds, href : Epub!Files, marked : BOOLEAN] \cup
  [kind : {"reference"}, href : Epub!Files]

Reached == IF section > passed THEN section ELSE passed

\* The items marked as the cover.
Covering == {i \in Epub!Elements("item") : Epub!Marked(i)}

\* The elements come section by section.
DocInv ==
  /\ doc \in Seq(DocElements)
  /\ section \in 0 .. 4 /\ passed \in 0 .. 4
  /\ section # 0 => section > passed /\ phase = "opf"
  /\ open # "" => section # 0
  /\ Reached < 2 => Epub!Elements("item") = {}
  /\ Reached < 3 => Epub!Elements("itemref") = {}
  /\ Reached < 4 => Epub!Elements("reference") = {}

\* The manifest has the items.
ManifestInv ==
  /\ \A i, j \in Epub!Elements("item") : doc[i].id = doc[j].id => i = j
  /\ DOMAIN manifest = {doc[i].id : i \in Epub!Elements("item")}
  /\ \A i \in Epub!Elements("item") : manifest[doc[i].id] = doc[i].href

\* The cover found so far is the one declared so far.
CoverInv ==
  /\ ManifestInv
  /\ Epub!Elements("itemref") = {} /\ Epub!Elements("reference") = {} => coverId = Epub!MetaCover
  /\ Epub!Elements("itemref") = {} => ~spineItemRefFound
  /\ Epub!Elements("itemref") # {} /\ Covering = {} => spineItemRefFound
  /\ coverPath = Epub!Declared

\* The kinds of elements that count.
LEMMA ElementsTyped ==
  ASSUME DocInv
  PROVE  /\ Len(doc) \in Nat /\ DOMAIN doc = 1 .. Len(doc)
         /\ \A kind_ : Epub!Elements(kind_) \subseteq 1 .. Len(doc)
         /\ \A i \in Epub!Elements("item") :
              doc[i].id \in ItemIds /\ doc[i].href \in Epub!Files
         /\ \A i \in Epub!Elements("reference") : doc[i].href \in Epub!Files
<1>1. doc \in Seq(DocElements)
  BY DEF DocInv
<1>2. Len(doc) \in Nat /\ DOMAIN doc = 1 .. Len(doc) /\ \A i \in 1 .. Len(doc) : doc[i] \in DocElements
  BY <1>1, LenProperties, ElementOfSeq
<1>3. \A e \in DocElements :
        /\ e.kind = "item" => e.id \in ItemIds /\ e.href \in Epub!Files
        /\ e.kind = "reference" => e.href \in Epub!Files
  BY DEF DocElements
<1>4. QED
  BY <1>2, <1>3 DEF Epub!Elements

LEMMA Appended ==
  ASSUME DocInv, NEW e \in DocElements, doc' = Append(doc, e)
  PROVE  /\ doc' \in Seq(DocElements)
         /\ doc'[Len(doc) + 1] = e /\ \A i \in 1 .. Len(doc) : doc'[i] = doc[i]
         /\ \A kind_ : Epub!Elements(kind_)'
                        = IF e.kind = kind_ THEN Epub!Elements(kind_) \cup {Len(doc) + 1}
                          ELSE Epub!Elements(kind_)
<1>1. doc \in Seq(DocElements)
  BY DEF DocInv
<1>2. PICK n \in Nat : n = Len(doc)
  BY <1>1, LenProperties
<1>3. /\ doc' \in Seq(DocElements) /\ Len(doc') = n + 1 /\ doc'[n + 1] = e
      /\ \A i \in 1 .. n : doc'[i] = doc[i]
  BY <1>1, <1>2, AppendProperties
<1>4. DOMAIN doc = 1 .. n /\ DOMAIN doc' = 1 .. n + 1
  BY <1>1, <1>2, <1>3, LenProperties
<1>5. 1 .. n + 1 = (1 .. n) \cup {n + 1} /\ n + 1 \notin 1 .. n
  OBVIOUS
<1>6. ASSUME NEW kind_
      PROVE  Epub!Elements(kind_)' = IF e.kind = kind_ THEN Epub!Elements(kind_) \cup {n + 1}
                                     ELSE Epub!Elements(kind_)
  BY <1>3, <1>4, <1>5 DEF Epub!Elements
<1>7. QED
  BY <1>2, <1>3, <1>6

\* What a step that adds no element leaves alone.
LEMMA DocKept ==
  ASSUME UNCHANGED <<doc, manifest, coverId, coverPath, spineItemRefFound>>
  PROVE  /\ \A kind_ : Epub!Elements(kind_)' = Epub!Elements(kind_)
         /\ Epub!MetaCover' = Epub!MetaCover /\ Epub!Declared' = Epub!Declared
         /\ Covering' = Covering /\ (CoverInv => CoverInv')
<1>1. \A kind_ : Epub!Elements(kind_)' = Epub!Elements(kind_)
  BY DEF Epub!Elements
<1>2. Epub!MetaCover' = Epub!MetaCover
  BY <1>1 DEF Epub!MetaCover
<1>3. \A i : Epub!Marked(i)' = Epub!Marked(i)
  BY <1>2 DEF Epub!Marked
<1>4. Covering' = Covering
  BY <1>1, <1>3 DEF Covering
<1>5. Epub!Declared' = Epub!Declared
  BY <1>1, <1>3 DEF Epub!Declared
<1>6. CoverInv => CoverInv'
  BY <1>1, <1>2, <1>4, <1>5 DEF CoverInv, ManifestInv
<1>7. QED
  BY <1>1, <1>2, <1>4, <1>5, <1>6

\* The declared cover, in the order in which it is looked for.
Named(i) == Epub!Elements("itemref") # {} /\ doc[i].id = doc[Epub!Min(Epub!Elements("itemref"))].id
Firsts == {i \in Epub!Elements("item") : Named(i)}

LEMMA DeclaredIs ==
  /\ Covering # {} => Epub!Declared = doc[Epub!Max(Covering)].href
  /\ Covering = {} /\ Firsts # {} => Epub!Declared = doc[Epub!Min(Firsts)].href
  /\ Covering = {} /\ Firsts = {} /\ Epub!Elements("reference") # {} =>
       Epub!Declared = doc[Epub!Min(Epub!Elements("reference"))].href
  /\ Covering = {} /\ Firsts = {} /\ Epub!Elements("reference") = {} => Epub!Declared = NotHere
  BY DEF Epub!Declared, Covering, Firsts, Named

\* A cover that is declared is a file.
LEMMA DeclaredTyped ==
  ASSUME DocInv
  PROVE  /\ Epub!Declared \in Epub!Files \cup {NotHere}
         /\ Epub!Declared = NotHere <=>
              Covering = {} /\ Firsts = {} /\ Epub!Elements("reference") = {}
<1>1. PICK n \in Nat : n = Len(doc)
  BY ElementsTyped
<1>2. /\ Epub!Elements("item") \subseteq 1 .. n /\ Epub!Elements("reference") \subseteq 1 .. n
      /\ \A i \in Epub!Elements("item") : doc[i].href \in Epub!Files
      /\ \A i \in Epub!Elements("reference") : doc[i].href \in Epub!Files
  BY <1>1, ElementsTyped
<1>3. Covering \in SUBSET (1 .. n) /\ Firsts \in SUBSET (1 .. n)
      /\ Covering \subseteq Epub!Elements("item") /\ Firsts \subseteq Epub!Elements("item")
      /\ Epub!Elements("reference") \in SUBSET (1 .. n)
  BY <1>2 DEF Covering, Firsts
<1>4. NotHere \notin Epub!Files
  BY EpubAssumption DEF Epub!Files
<1>5. CASE Covering # {}
  <2>1. Epub!Max(Covering) \in Covering
    BY <1>3, <1>5, LastOf
  <2>2. QED
    BY <1>2, <1>3, <1>4, <1>5, <2>1, DeclaredIs
<1>6. CASE Covering = {} /\ Firsts # {}
  <2>1. Epub!Min(Firsts) \in Firsts
    BY <1>3, <1>6, FirstOf
  <2>2. QED
    BY <1>2, <1>3, <1>4, <1>6, <2>1, DeclaredIs
<1>7. CASE Covering = {} /\ Firsts = {} /\ Epub!Elements("reference") # {}
  <2>1. Epub!Min(Epub!Elements("reference")) \in Epub!Elements("reference")
    BY <1>3, <1>7, FirstOf
  <2>2. QED
    BY <1>2, <1>4, <1>7, <2>1, DeclaredIs
<1>8. QED
  BY <1>5, <1>6, <1>7, DeclaredIs

\* What a new element of any kind leaves alone.
LEMMA StillThere ==
  ASSUME DocInv, NEW e \in DocElements, doc' = Append(doc, e), e.kind # "meta"
  PROVE  /\ Epub!MetaCover' = Epub!MetaCover
         /\ \A i \in 1 .. Len(doc) : Epub!Marked(i)' = Epub!Marked(i)
<1>1. PICK n \in Nat : n = Len(doc)
  BY ElementsTyped
<1>2. /\ doc'[n + 1] = e /\ \A i \in 1 .. n : doc'[i] = doc[i]
      /\ Epub!Elements("meta")' = Epub!Elements("meta")
      /\ Epub!Elements("meta") \in SUBSET (1 .. n)
  BY <1>1, Appended, ElementsTyped
<1>3. Epub!MetaCover' = Epub!MetaCover
  <2>1. PICK m \in SUBSET (1 .. n) : m = Epub!Elements("meta")
    BY <1>2
  <2>2. m # {} => Epub!Max(m) \in 1 .. n
    BY LastOf
  <2>3. QED
    BY <1>2, <2>1, <2>2 DEF Epub!MetaCover
<1>4. QED
  BY <1>1, <1>2, <1>3 DEF Epub!Marked

LEMMA DeclaredBecomes ==
  /\ Covering' # {} => Epub!Declared' = doc'[Epub!Max(Covering')].href
  /\ Covering' = {} /\ Firsts' # {} => Epub!Declared' = doc'[Epub!Min(Firsts')].href
  /\ Covering' = {} /\ Firsts' = {} /\ Epub!Elements("reference")' # {} =>
       Epub!Declared' = doc'[Epub!Min(Epub!Elements("reference")')].href
  /\ Covering' = {} /\ Firsts' = {} /\ Epub!Elements("reference")' = {} => Epub!Declared' = NotHere
  BY DEF Epub!Declared, Covering, Firsts, Named, Epub!Max, Epub!Min

\* The items that are marked, and those of the first page, after a new element.
LEMMA CoveringBecomes ==
  ASSUME DocInv, NEW e \in DocElements, doc' = Append(doc, e), e.kind # "meta"
  PROVE  Covering' = IF e.kind = "item" /\ (e.marked \/ (e.href \in EpubPictures /\ e.id = Epub!MetaCover))
                     THEN Covering \cup {Len(doc) + 1} ELSE Covering
<1>1. PICK n \in Nat : n = Len(doc)
  BY ElementsTyped
<1>2. /\ doc'[n + 1] = e /\ \A i \in 1 .. n : Epub!Marked(i)' = Epub!Marked(i)
      /\ Epub!Elements("item")' = IF e.kind = "item" THEN Epub!Elements("item") \cup {n + 1}
                                  ELSE Epub!Elements("item")
      /\ Epub!Elements("item") \subseteq 1 .. n /\ Epub!MetaCover' = Epub!MetaCover
  BY <1>1, Appended, ElementsTyped, StillThere
<1>3. Epub!Marked(n + 1)' <=> e.marked \/ (e.href \in EpubPictures /\ e.id = Epub!MetaCover)
  BY <1>2 DEF Epub!Marked
<1>4. QED
  BY <1>1, <1>2, <1>3 DEF Covering

LEMMA FirstsKept ==
  ASSUME DocInv, NEW e \in DocElements, doc' = Append(doc, e),
         e.kind # "item", e.kind # "itemref" \/ Epub!Elements("itemref") # {}
  PROVE  Firsts' = Firsts
<1>1. PICK n \in Nat : n = Len(doc)
  BY ElementsTyped
<1>2. /\ \A i \in 1 .. n : doc'[i] = doc[i]
      /\ Epub!Elements("item")' = Epub!Elements("item") /\ Epub!Elements("item") \subseteq 1 .. n
      /\ Epub!Elements("itemref") \in SUBSET (1 .. n)
      /\ Epub!Elements("itemref")' = IF e.kind = "itemref" THEN Epub!Elements("itemref") \cup {n + 1}
                                     ELSE Epub!Elements("itemref")
  BY <1>1, Appended, ElementsTyped
<1>3. CASE Epub!Elements("itemref") = {}
  BY <1>2, <1>3 DEF Firsts, Named
<1>4. CASE Epub!Elements("itemref") # {}
  <2>1. PICK refs \in SUBSET (1 .. n) : refs = Epub!Elements("itemref")
    BY <1>2
  <2>2. /\ Epub!Min(refs) \in 1 .. n /\ Epub!Min(refs \cup {n + 1}) = Epub!Min(refs)
    BY <1>4, <2>1, FirstOf
  <2>3. Epub!Elements("itemref")' # {} /\ Epub!Min(Epub!Elements("itemref")') = Epub!Min(refs)
    BY <1>2, <1>4, <2>1, <2>2
  <2>4. doc'[Epub!Min(refs)] = doc[Epub!Min(refs)]
    BY <1>2, <2>2
  <2>5. \A i \in 1 .. n : Named(i)' <=> Named(i)
    BY <1>2, <1>4, <2>1, <2>3, <2>4 DEF Named, Epub!Min
  <2>6. QED
    BY <1>2, <2>5 DEF Firsts
<1>5. QED
  BY <1>3, <1>4

\* If neither of them changes, the declared cover is the same, but for the first
\* reference.
LEMMA DeclaredKept ==
  ASSUME DocInv, NEW e \in DocElements, doc' = Append(doc, e),
         Covering' = Covering, Firsts' = Firsts,
         e.kind # "reference" \/ Epub!Declared # NotHere
  PROVE  Epub!Declared' = Epub!Declared
<1>1. PICK n \in Nat : n = Len(doc)
  BY ElementsTyped
<1>2. /\ \A i \in 1 .. n : doc'[i] = doc[i]
      /\ Epub!Elements("item") \subseteq 1 .. n /\ Epub!Elements("reference") \subseteq 1 .. n
      /\ Epub!Elements("reference")' = IF e.kind = "reference"
                                       THEN Epub!Elements("reference") \cup {n + 1}
                                       ELSE Epub!Elements("reference")
  BY <1>1, Appended, ElementsTyped
<1>3. Covering \in SUBSET (1 .. n) /\ Firsts \in SUBSET (1 .. n)
      /\ Epub!Elements("reference") \in SUBSET (1 .. n)
  BY <1>2 DEF Covering, Firsts
<1>4. CASE Covering # {}
  <2>1. Epub!Max(Covering) \in 1 .. n /\ Epub!Max(Covering') = Epub!Max(Covering)
    BY <1>3, <1>4, LastOf
  <2>2. QED
    BY <1>2, <1>4, <2>1, DeclaredIs, DeclaredBecomes
<1>5. CASE Covering = {} /\ Firsts # {}
  <2>1. Epub!Min(Firsts) \in 1 .. n /\ Epub!Min(Firsts') = Epub!Min(Firsts)
    BY <1>3, <1>5, FirstOf
  <2>2. QED
    BY <1>2, <1>5, <2>1, DeclaredIs, DeclaredBecomes
<1>6. CASE Covering = {} /\ Firsts = {} /\ Epub!Elements("reference") # {}
  <2>1. PICK refs \in SUBSET (1 .. n) : refs = Epub!Elements("reference")
    BY <1>3
  <2>2. /\ Epub!Min(refs) \in 1 .. n /\ Epub!Min(refs \cup {n + 1}) = Epub!Min(refs)
    BY <1>6, <2>1, FirstOf
  <2>3. Epub!Min(Epub!Elements("reference")') = Epub!Min(refs) /\ Epub!Elements("reference")' # {}
    BY <1>2, <1>6, <2>1, <2>2
  <2>4. QED
    BY <1>2, <1>6, <2>1, <2>2, <2>3, DeclaredIs, DeclaredBecomes
<1>7. CASE Covering = {} /\ Firsts = {} /\ Epub!Elements("reference") = {}
  BY <1>2, <1>7, DeclaredIs, DeclaredBecomes
<1>8. QED
  BY <1>4, <1>5, <1>6, <1>7

LEMMA SectionIs ==
  ASSUME DocInv
  PROVE  /\ section # 0 => /\ phase = "opf" /\ section > passed /\ Reached = section
                           /\ section \in {1, 2, 3, 4}
         /\ open = "" /\ Epub!In("metadata") => section = 1
         /\ open = "" /\ Epub!In("manifest") => section = 2
         /\ open = "" /\ Epub!In("spine") => section = 3
         /\ open = "" /\ Epub!In("guide") => section = 4
<1>1. PICK s_ \in 0 .. 4, p_ \in 0 .. 4 : s_ = section /\ p_ = passed
  BY DEF DocInv
<1>2. section # 0 => phase = "opf" /\ section > passed
  BY DEF DocInv
<1>3. section # 0 => s_ > p_ /\ section \in {1, 2, 3, 4}
  BY <1>1, <1>2
<1>4. section # 0 => Reached = section
  BY <1>2 DEF Reached
<1>5. /\ Epub!Sections[1] = "metadata" /\ Epub!Sections[2] = "manifest"
      /\ Epub!Sections[3] = "spine" /\ Epub!Sections[4] = "guide"
  BY DEF Epub!Sections
<1>6. \A name_ : Epub!In(name_) => section # 0 /\ Epub!Sections[section] = name_
  BY DEF Epub!In
<1>7. QED
  BY <1>2, <1>3, <1>4, <1>5, <1>6

\* An element more in the section that it belongs to.
LEMMA ElementFits ==
  ASSUME DocInv, NEW e \in DocElements, doc' = Append(doc, e), UNCHANGED <<section, passed, phase>>,
         section # 0,
         e.kind = "item" => section = 2, e.kind = "itemref" => section = 3,
         e.kind = "reference" => section = 4
  PROVE  DocInv'
<1>1. section > passed /\ phase = "opf" /\ section \in {1, 2, 3, 4} /\ Reached = section
  BY SectionIs
<1>2. Reached' = section
  BY <1>1 DEF Reached
<1>3. /\ section \in 0 .. 4 /\ passed \in 0 .. 4
      /\ section < 2 => Epub!Elements("item") = {}
      /\ section < 3 => Epub!Elements("itemref") = {}
      /\ section < 4 => Epub!Elements("reference") = {}
  BY <1>1 DEF DocInv
<1>4. /\ doc' \in Seq(DocElements)
      /\ \A kind_ : e.kind # kind_ => Epub!Elements(kind_)' = Epub!Elements(kind_)
  BY Appended
<1>5. /\ section < 2 => Epub!Elements("item")' = {}
      /\ section < 3 => Epub!Elements("itemref")' = {}
      /\ section < 4 => Epub!Elements("reference")' = {}
  <2>1. section = 1 \/ section = 2 \/ section = 3 \/ section = 4
    BY <1>1
  <2>2. QED
    BY <1>3, <1>4, <2>1
<1>6. QED
  BY <1>1, <1>2, <1>3, <1>4, <1>5 DEF DocInv

\* An element that has nothing to do with the manifest, nor with the cover.
LEMMA ManifestStill ==
  ASSUME ManifestInv, manifest' = manifest, Epub!Elements("item")' = Epub!Elements("item"),
         \A i \in Epub!Elements("item") : doc'[i] = doc[i]
  PROVE  ManifestInv'
<1>1. /\ \A i, j \in Epub!Elements("item")' : doc'[i].id = doc'[j].id => i = j
      /\ \A i \in Epub!Elements("item")' : manifest'[doc'[i].id] = doc'[i].href
  BY DEF ManifestInv
<1>2. {doc'[i].id : i \in Epub!Elements("item")'} = {doc[i].id : i \in Epub!Elements("item")}
  OBVIOUS
<1>3. DOMAIN manifest' = {doc'[i].id : i \in Epub!Elements("item")'}
  BY <1>2 DEF ManifestInv
<1>4. QED
  BY <1>1, <1>3 DEF ManifestInv

LEMMA CoverStill ==
  ASSUME CoverInv, UNCHANGED <<manifest, coverId, coverPath, spineItemRefFound>>,
         Covering' = Covering, Epub!MetaCover' = Epub!MetaCover, Epub!Declared' = Epub!Declared,
         Epub!Elements("item")' = Epub!Elements("item"),
         Epub!Elements("itemref")' = Epub!Elements("itemref"),
         Epub!Elements("reference")' = Epub!Elements("reference"),
         \A i \in Epub!Elements("item") : doc'[i] = doc[i]
  PROVE  CoverInv'
<1>1. ManifestInv'
  BY ManifestStill DEF CoverInv
<1>2. /\ Epub!Elements("itemref")' = {} /\ Epub!Elements("reference")' = {} =>
           coverId' = Epub!MetaCover'
      /\ Epub!Elements("itemref")' = {} => ~spineItemRefFound'
      /\ Epub!Elements("itemref")' # {} /\ Covering' = {} => spineItemRefFound'
      /\ coverPath' = Epub!Declared'
  BY DEF CoverInv
<1>3. QED
  BY <1>1, <1>2 DEF CoverInv

LEMMA FieldAdded ==
  ASSUME DocInv, CoverInv, NEW name_, Epub!StartField(name_)
  PROVE  DocInv' /\ CoverInv'
<1> DEFINE e == [kind |-> "field"]
<1>1. /\ doc' = Append(doc, e) /\ UNCHANGED <<manifest, coverId, coverPath, spineItemRefFound>>
      /\ UNCHANGED <<section, passed, phase>> /\ section # 0
  BY DEF Epub!In, Epub!StartField, Epub!Element, Epub!Outside
<1>2. e \in DocElements /\ e.kind = "field"
  BY DEF DocElements
<1> HIDE DEF e
<1>3. DocInv'
  BY <1>1, <1>2, ElementFits
<1>4. /\ Covering' = Covering /\ Firsts' = Firsts
      /\ Epub!MetaCover' = Epub!MetaCover /\ Epub!Declared' = Epub!Declared
  BY <1>1, <1>2, CoveringBecomes, FirstsKept, StillThere, DeclaredKept
<1>5. /\ Epub!Elements("item")' = Epub!Elements("item")
      /\ Epub!Elements("itemref")' = Epub!Elements("itemref")
      /\ Epub!Elements("reference")' = Epub!Elements("reference")
      /\ \A i \in Epub!Elements("item") : doc'[i] = doc[i]
  BY <1>1, <1>2, Appended, ElementsTyped
<1>6. CoverInv'
  BY <1>1, <1>4, <1>5, CoverStill
<1>7. QED
  BY <1>3, <1>6

LEMMA MetaAdded ==
  ASSUME DocInv, CoverInv, NEW id_ \in ItemIds, Epub!Meta(id_)
  PROVE  DocInv' /\ CoverInv'
<1> DEFINE e == [kind |-> "meta", id |-> id_]
<1>0. Epub!In("metadata") /\ open = "" /\ section # 0
  BY DEF Epub!Meta, Epub!In
<1>1. /\ doc' = Append(doc, e) /\ coverId' = id_ /\ UNCHANGED <<manifest, coverPath, spineItemRefFound>>
      /\ UNCHANGED <<section, passed, phase>> /\ section = 1 /\ Reached = 1
  BY <1>0, SectionIs DEF Epub!Meta, Epub!Element, Epub!Outside
<1>2. e \in DocElements /\ e.kind = "meta" /\ e.id = id_
  BY DEF DocElements
<1> HIDE DEF e
<1>3. DocInv'
  BY <1>1, <1>2, ElementFits
<1>4. /\ Epub!Elements("item") = {} /\ Epub!Elements("itemref") = {} /\ Epub!Elements("reference") = {}
      /\ Epub!Elements("item")' = {} /\ Epub!Elements("itemref")' = {} /\ Epub!Elements("reference")' = {}
  BY <1>1, <1>2, Appended DEF DocInv
<1>5. Epub!Declared = NotHere /\ Epub!Declared' = NotHere
  BY <1>4, DeclaredIs, DeclaredBecomes DEF Covering, Firsts
<1>6. Epub!MetaCover' = id_
  <2>0. PICK n \in Nat : n = Len(doc)
    BY ElementsTyped
  <2>1. PICK metas \in SUBSET (1 .. n) : metas = Epub!Elements("meta")
    BY <2>0, ElementsTyped
  <2>2. Epub!Elements("meta")' = metas \cup {n + 1} /\ doc'[n + 1] = e
    BY <1>1, <1>2, <2>0, <2>1, Appended
  <2>3. Epub!Max(metas \cup {n + 1}) = n + 1
    BY LastOf
  <2>4. Epub!Max(Epub!Elements("meta")') = n + 1 /\ Epub!Elements("meta")' # {}
    BY <2>2, <2>3
  <2>5. QED
    BY <1>2, <2>2, <2>4 DEF Epub!MetaCover, Epub!Max
<1>7. ManifestInv'
  BY <1>1, <1>4, ManifestStill DEF CoverInv
<1>8. QED
  BY <1>1, <1>3, <1>4, <1>5, <1>6, <1>7 DEF CoverInv

LEMMA ItemAdded ==
  ASSUME DocInv, CoverInv, NEW id_ \in ItemIds, NEW href_ \in Epub!Files, NEW marked_ \in BOOLEAN,
         Epub!Item(id_, href_, marked_)
  PROVE  DocInv' /\ CoverInv'
<1> DEFINE e == [kind |-> "item", id |-> id_, href |-> href_, marked |-> marked_]
<1>0. Epub!In("manifest") /\ open = "" /\ section # 0
  BY DEF Epub!Item, Epub!In
<1>1. /\ doc' = Append(doc, e) /\ UNCHANGED <<coverId, spineItemRefFound>>
      /\ id_ \notin DOMAIN manifest
      /\ manifest' = [i \in DOMAIN manifest \cup {id_} |-> IF i = id_ THEN href_ ELSE manifest[i]]
      /\ coverPath' = IF marked_ \/ (href_ \in EpubPictures /\ id_ = coverId) THEN href_ ELSE coverPath
      /\ UNCHANGED <<section, passed, phase>> /\ section = 2 /\ Reached = 2
  BY <1>0, SectionIs DEF Epub!Item, Epub!CoverOf, Epub!Element, Epub!Outside
<1>2. e \in DocElements /\ e.kind = "item" /\ e.id = id_ /\ e.href = href_ /\ e.marked = marked_
  BY DEF DocElements
<1> HIDE DEF e
<1>3. DocInv'
  BY <1>1, <1>2, ElementFits
<1>4a. PICK n \in Nat : n = Len(doc)
  BY ElementsTyped
<1>4. PICK items \in SUBSET (1 .. n) : items = Epub!Elements("item")
  BY <1>4a, ElementsTyped
<1>5. /\ Epub!Elements("item")' = items \cup {n + 1} /\ doc'[n + 1] = e /\ n + 1 \notin items
      /\ \A i \in items : doc'[i] = doc[i]
      /\ Epub!MetaCover' = Epub!MetaCover
  BY <1>1, <1>2, <1>4a, <1>4, Appended, StillThere
<1>6. /\ Epub!Elements("itemref") = {} /\ Epub!Elements("reference") = {}
      /\ Epub!Elements("itemref")' = {} /\ Epub!Elements("reference")' = {}
  BY <1>1, <1>2, Appended DEF DocInv
<1>7. coverId = Epub!MetaCover
  BY <1>6 DEF CoverInv
<1>8. Firsts = {} /\ Firsts' = {}
  BY <1>6 DEF Firsts, Named
<1>9. coverPath' = Epub!Declared'
  <2>1. CASE e.marked \/ (e.href \in EpubPictures /\ e.id = Epub!MetaCover)
    <3>1. Covering' = Covering \cup {n + 1} /\ Covering \in SUBSET (1 .. n)
      BY <1>1, <1>2, <1>4a, <1>4, <2>1, CoveringBecomes DEF Covering
    <3>2. Epub!Max(Covering \cup {n + 1}) = n + 1
      BY <3>1, LastOf
    <3>3. Covering' # {} /\ Epub!Max(Covering') = n + 1
      BY <3>1, <3>2
    <3>4. Epub!Declared' = href_
      BY <1>2, <1>5, <3>3, DeclaredBecomes
    <3>5. QED
      BY <1>1, <1>2, <1>7, <2>1, <3>4
  <2>2. CASE ~(e.marked \/ (e.href \in EpubPictures /\ e.id = Epub!MetaCover))
    <3>1. Covering' = Covering
      BY <1>1, <1>2, <2>2, CoveringBecomes
    <3>2. Epub!Declared' = Epub!Declared
      BY <1>1, <1>2, <1>8, <3>1, DeclaredKept
    <3>3. QED
      BY <1>1, <1>2, <1>7, <2>2, <3>2 DEF CoverInv
  <2>3. QED
    BY <2>1, <2>2
<1>10. /\ \A i \in items : doc[i].id \in DOMAIN manifest /\ doc[i].id # id_
       /\ \A i, j \in items : doc[i].id = doc[j].id => i = j
       /\ \A i \in items : manifest[doc[i].id] = doc[i].href
       /\ DOMAIN manifest = {doc[i].id : i \in items}
  BY <1>1, <1>4 DEF CoverInv, ManifestInv
<1>11. /\ \A i, j \in Epub!Elements("item")' : doc'[i].id = doc'[j].id => i = j
       /\ \A i \in Epub!Elements("item")' : manifest'[doc'[i].id] = doc'[i].href
  <2>1. doc'[n + 1].id = id_ /\ doc'[n + 1].href = href_ /\ manifest'[id_] = href_
    BY <1>1, <1>2, <1>5
  <2>2. \A i \in items : doc'[i].id = doc[i].id /\ doc'[i].href = doc[i].href /\ doc'[i].id # id_
    BY <1>5, <1>10
  <2>3. \A i \in items : manifest'[doc'[i].id] = doc'[i].href
    BY <1>1, <1>10, <2>2
  <2>4. \A i, j \in items \cup {n + 1} : doc'[i].id = doc'[j].id => i = j
    BY <1>10, <2>1, <2>2
  <2>5. QED
    BY <1>5, <2>1, <2>3, <2>4
<1>12. DOMAIN manifest' = {doc'[i].id : i \in Epub!Elements("item")'}
  <2>1. DOMAIN manifest' = DOMAIN manifest \cup {id_}
    BY <1>1
  <2>2. {doc'[i].id : i \in items \cup {n + 1}} = {doc[i].id : i \in items} \cup {id_}
    BY <1>2, <1>5
  <2>3. QED
    BY <1>5, <1>10, <2>1, <2>2
<1>13. ManifestInv'
  BY <1>11, <1>12 DEF ManifestInv
<1>14. QED
  BY <1>1, <1>3, <1>5, <1>6, <1>7, <1>9, <1>13 DEF CoverInv

\* The first page of the spine is the cover, if its item is there and no other was
\* marked.
LEMMA ItemRefAdded ==
  ASSUME DocInv, CoverInv, NEW id_ \in ItemIds, Epub!ItemRef(id_)
  PROVE  DocInv' /\ CoverInv'
<1> DEFINE e == [kind |-> "itemref", id |-> id_]
<1>0. Epub!In("spine") /\ open = "" /\ section # 0
  BY DEF Epub!ItemRef, Epub!In
<1>1. /\ doc' = Append(doc, e) /\ manifest' = manifest
      /\ UNCHANGED <<section, passed, phase>> /\ section = 3 /\ Reached = 3
      /\ spineItemRefFound \/ coverPath # NotHere =>
           (spineItemRefFound => spineItemRefFound') /\ UNCHANGED <<coverPath, coverId>>
      /\ ~spineItemRefFound /\ coverPath = NotHere =>
           /\ spineItemRefFound'
           /\ coverPath' = IF id_ \in DOMAIN manifest THEN manifest[id_] ELSE coverPath
  BY <1>0, SectionIs DEF Epub!ItemRef, Epub!Element, Epub!Outside
<1>2. e \in DocElements /\ e.kind = "itemref" /\ e.id = id_
  BY DEF DocElements
<1> HIDE DEF e
<1>3. DocInv'
  BY <1>1, <1>2, ElementFits
<1>4a. PICK n \in Nat : n = Len(doc)
  BY ElementsTyped
<1>4. /\ Epub!Elements("item")' = Epub!Elements("item") /\ Epub!Elements("item") \subseteq 1 .. n
      /\ Epub!Elements("itemref")' = Epub!Elements("itemref") \cup {n + 1}
      /\ Epub!Elements("reference") = {} /\ Epub!Elements("reference")' = {}
      /\ doc'[n + 1] = e /\ \A i \in 1 .. n : doc'[i] = doc[i]
  <2>1. Epub!Elements("reference") = {}
    BY <1>1 DEF DocInv
  <2>2. QED
    BY <1>1, <1>2, <1>4a, <2>1, Appended, ElementsTyped
<1>5. Covering' = Covering /\ Covering \in SUBSET (1 .. n)
  BY <1>1, <1>2, <1>4, CoveringBecomes DEF Covering
<1>6. ManifestInv'
  BY <1>1, <1>4, ManifestStill DEF CoverInv
<1>7. CASE Covering # {}
  <2>1. coverPath # NotHere
    BY <1>7, DeclaredTyped DEF CoverInv
  <2>2. Epub!Max(Covering) \in 1 .. n /\ Epub!Max(Covering') = Epub!Max(Covering)
    BY <1>5, <1>7, LastOf
  <2>3. Epub!Declared' = Epub!Declared
    BY <1>4, <1>5, <1>7, <2>2, DeclaredIs, DeclaredBecomes
  <2>4. QED
    BY <1>1, <1>3, <1>4, <1>5, <1>6, <1>7, <2>1, <2>3 DEF CoverInv
<1>8. CASE Covering = {} /\ Epub!Elements("itemref") # {}
  <2>1. spineItemRefFound
    BY <1>8 DEF CoverInv
  <2>2. Firsts' = Firsts
    BY <1>1, <1>2, <1>8, FirstsKept
  <2>3. Epub!Declared' = Epub!Declared
    BY <1>1, <1>2, <1>5, <2>2, DeclaredKept
  <2>4. QED
    BY <1>1, <1>3, <1>4, <1>6, <2>1, <2>3 DEF CoverInv
<1>9. CASE Covering = {} /\ Epub!Elements("itemref") = {}
  <2>1. Firsts = {} /\ ~spineItemRefFound
    BY <1>9 DEF Firsts, Named, CoverInv
  <2>2. coverPath = NotHere
    BY <1>4, <1>9, <2>1, DeclaredIs DEF CoverInv
  <2>3. Epub!Elements("itemref")' = {n + 1} /\ Epub!Min({n + 1}) = n + 1
    BY <1>4, <1>9, OnlyOne
  <2>4. Firsts' = {i \in Epub!Elements("item") : doc[i].id = id_}
    <3>1. \A i \in Epub!Elements("item") : Named(i)' <=> doc[i].id = id_
      BY <1>2, <1>4, <2>3 DEF Named, Epub!Min
    <3>2. QED
      BY <1>4, <3>1 DEF Firsts
  <2>5. CASE id_ \in DOMAIN manifest
    <3>1. PICK k \in Epub!Elements("item") : doc[k].id = id_
      BY <2>5 DEF CoverInv, ManifestInv
    <3>2. Firsts' = {k} /\ manifest[id_] = doc[k].href
      BY <2>4, <3>1 DEF CoverInv, ManifestInv
    <3>3. k \in Nat /\ doc'[k] = doc[k]
      BY <1>4, <3>1
    <3>4. Epub!Min(Firsts') = k
      BY <3>2, <3>3, OnlyOne
    <3>5. Epub!Declared' = manifest[id_]
      BY <1>5, <1>9, <3>2, <3>3, <3>4, DeclaredBecomes
    <3>6. QED
      BY <1>1, <1>3, <1>6, <2>1, <2>2, <2>3, <2>5, <3>5 DEF CoverInv
  <2>6. CASE id_ \notin DOMAIN manifest
    <3>1. Firsts' = {}
      BY <2>4, <2>6 DEF CoverInv, ManifestInv
    <3>2. Epub!Declared' = NotHere
      BY <1>4, <1>5, <1>9, <3>1, DeclaredBecomes
    <3>3. QED
      BY <1>1, <1>3, <1>6, <2>1, <2>2, <2>3, <2>6, <3>2 DEF CoverInv
  <2>7. QED
    BY <2>5, <2>6
<1>10. QED
  BY <1>7, <1>8, <1>9

\* The guide counts only if there is no other cover.
LEMMA ReferenceAdded ==
  ASSUME DocInv, CoverInv, NEW href_ \in Epub!Files, Epub!Reference(href_)
  PROVE  DocInv' /\ CoverInv'
<1> DEFINE e == [kind |-> "reference", href |-> href_]
<1>0. Epub!In("guide") /\ open = "" /\ section # 0
  BY DEF Epub!Reference, Epub!In
<1>1. /\ doc' = Append(doc, e) /\ UNCHANGED <<manifest, spineItemRefFound>>
      /\ UNCHANGED <<section, passed, phase>> /\ section = 4
      /\ coverPath' = IF coverPath = NotHere THEN href_ ELSE coverPath
  BY <1>0, SectionIs DEF Epub!Reference, Epub!Element, Epub!Outside
<1>2. e \in DocElements /\ e.kind = "reference" /\ e.href = href_
  BY DEF DocElements
<1> HIDE DEF e
<1>3. DocInv'
  BY <1>1, <1>2, ElementFits
<1>4a. PICK n \in Nat : n = Len(doc)
  BY ElementsTyped
<1>4. /\ Epub!Elements("item")' = Epub!Elements("item") /\ Epub!Elements("item") \subseteq 1 .. n
      /\ Epub!Elements("itemref")' = Epub!Elements("itemref")
      /\ Epub!Elements("reference")' = Epub!Elements("reference") \cup {n + 1}
      /\ doc'[n + 1] = e /\ \A i \in 1 .. n : doc'[i] = doc[i]
  BY <1>1, <1>2, <1>4a, Appended, ElementsTyped
<1>5. Covering' = Covering /\ Firsts' = Firsts
  BY <1>1, <1>2, CoveringBecomes, FirstsKept
<1>6. ManifestInv'
  BY <1>1, <1>4, ManifestStill DEF CoverInv
<1>7. coverPath' = Epub!Declared'
  <2>1. CASE coverPath # NotHere
    <3>1. Epub!Declared' = Epub!Declared
      BY <1>1, <1>2, <1>5, <2>1, DeclaredKept DEF CoverInv
    <3>2. QED
      BY <1>1, <2>1, <3>1 DEF CoverInv
  <2>2. CASE coverPath = NotHere
    <3>1. Covering = {} /\ Firsts = {} /\ Epub!Elements("reference") = {}
      BY <2>2, DeclaredTyped DEF CoverInv
    <3>2. Epub!Elements("reference")' = {n + 1} /\ Epub!Min({n + 1}) = n + 1
      BY <1>4, <3>1, OnlyOne
    <3>3. Epub!Declared' = href_
      BY <1>2, <1>4, <1>5, <3>1, <3>2, DeclaredBecomes
    <3>4. QED
      BY <1>1, <2>2, <3>3
  <2>3. QED
    BY <2>1, <2>2
<1>8. QED
  BY <1>1, <1>3, <1>4, <1>5, <1>6, <1>7 DEF CoverInv

\* All pictures, each of them once, in any order.
AllOnce(list_, S) == Epub!IsInjective(list_) /\ Epub!Range(list_) = S

LEMMA Listed ==
  ASSUME NEW S, IsFiniteSet(S), NEW list_ \in Epub!SetToSeqs(S)
  PROVE  /\ AllOnce(list_, S)
         /\ \E n \in Nat : /\ list_ \in [1 .. n -> S]
                           /\ \A i, j \in 1 .. n : list_[i] = list_[j] => i = j
                           /\ \A t \in S : \E i \in 1 .. n : list_[i] = t
<1>1. PICK n \in Nat : n = Cardinality(S)
  BY FS_CardinalityType
<1>2. list_ \in {f \in [1 .. n -> S] : \A i, j \in 1 .. n : i # j => f[i] # f[j]}
  BY <1>1 DEF Epub!SetToSeqs, Epub!Cardinality, Cardinality
<1>3. list_ \in [1 .. n -> S] /\ \A i, j \in 1 .. n : list_[i] = list_[j] => i = j
  BY <1>2
<1>4. list_ \in Injection(1 .. n, S)
  BY <1>3 DEF Injection, IsInjective
<1>5. Cardinality(1 .. n) = n
  <2>1. n \in Int /\ 1 \in Int
    OBVIOUS
  <2>2. Cardinality(1 .. n) = IF 1 > n THEN 0 ELSE n - 1 + 1
    BY <2>1, FS_Interval
  <2>3. QED
    BY <2>2
<1>6. list_ \in Surjection(1 .. n, S)
  BY <1>1, <1>4, <1>5, FS_Injection
<1>7. \A t \in S : \E i \in 1 .. n : list_[i] = t
  BY <1>6 DEF Surjection
<1>8. AllOnce(list_, S)
  BY <1>3, <1>7 DEF AllOnce, Epub!IsInjective, Epub!Range
<1>9. QED
  BY <1>3, <1>7, <1>8

\* The cover moves to the front, and nothing is lost.
LEMMA MovedToFront ==
  ASSUME NEW S, NEW n \in Nat, NEW list_ \in [1 .. n -> S],
         \A i, j \in 1 .. n : list_[i] = list_[j] => i = j,
         \A t \in S : \E i \in 1 .. n : list_[i] = t,
         NEW path_ \in S
  PROVE  Epub!ToFront(path_, list_)[1] = path_ /\ AllOnce(Epub!ToFront(path_, list_), S)
<1> DEFINE k == CHOOSE i \in DOMAIN list_ : list_[i] = path_
           from(i) == IF i = 1 THEN k ELSE IF i <= k THEN i - 1 ELSE i
           to(i) == IF i = k THEN 1 ELSE IF i < k THEN i + 1 ELSE i
           g == [i \in 1 .. n |-> IF i = 1 THEN path_ ELSE IF i <= k THEN list_[i - 1] ELSE list_[i]]
<1>1. DOMAIN list_ = 1 .. n
  OBVIOUS
<1>2. k \in 1 .. n /\ list_[k] = path_
  BY <1>1
<1>3. Epub!ToFront(path_, list_) = g
  BY <1>1 DEF Epub!ToFront
<1> HIDE DEF k
<1>4. /\ \A i \in 1 .. n : from(i) \in 1 .. n
      /\ \A i, j \in 1 .. n : from(i) = from(j) => i = j
      /\ \A i \in 1 .. n : to(i) \in 1 .. n /\ from(to(i)) = i
  BY <1>2
<1>5. \A i \in 1 .. n : g[i] = list_[from(i)]
  BY <1>2
<1>6. DOMAIN g = 1 .. n /\ g[1] = path_
  BY <1>2
<1> HIDE DEF from, to, g
<1>7. \A i, j \in 1 .. n : g[i] = g[j] => i = j
  BY <1>4, <1>5
<1>8. \A i \in 1 .. n : g[i] \in S
  BY <1>4, <1>5
<1>9. \A t \in S : \E i \in 1 .. n : g[i] = t
  <2>1. TAKE t \in S
  <2>2. PICK i \in 1 .. n : list_[i] = t
    OBVIOUS
  <2>3. to(i) \in 1 .. n /\ g[to(i)] = t
    BY <1>4, <1>5, <2>2
  <2>4. QED
    BY <2>3
<1>10. AllOnce(g, S)
  <2>1. {g[x] : x \in 1 .. n} = S
    BY <1>8, <1>9
  <2>2. QED
    BY <1>6, <1>7, <2>1 DEF AllOnce, Epub!IsInjective, Epub!Range
<1>11. QED
  BY <1>3, <1>6, <1>10

\* What the caller gets: the pictures with the cover in front.
EpubTyped ==
  /\ mode \in Epub!Modes /\ body \in SUBSET Epub!Files /\ phase \in {"opf", "done"}
  /\ functor \in Epub!Fields \cup {""} /\ fields \in [Epub!Fields -> Epub!Fields \cup {"", "date"}]
  /\ phase = "opf" => images = <<>> /\ texts = {} /\ ~coverExists
  /\ coverExists \in BOOLEAN /\ open \in Epub!Fields \cup {"", "date"}
  /\ shows \in [Pages -> EpubPictures \cup {NotHere}]

EpubInv ==
  /\ DocInv /\ CoverInv /\ EpubTyped
  /\ phase = "done" => Epub!CoverIsDeclared /\ Epub!NothingTwice

LEMMA Finished ==
  ASSUME EpubInv, NEW files_ \in SUBSET Epub!Files,
         NEW shown_ \in [Pages -> EpubPictures \cup {NotHere}], Epub!Finish(files_, shown_)
  PROVE  EpubInv'
<1>1. /\ phase = "opf" /\ section = 0 /\ phase' = "done" /\ body' = files_ /\ shows' = shown_
      /\ UNCHANGED <<mode, section, passed, open, text, functor, fields, coverId, coverPath,
                     manifest, spineItemRefFound, doc>>
      /\ mode \in Epub!Modes /\ images = <<>> /\ texts = {} /\ ~coverExists
      /\ coverExists \in BOOLEAN
  BY DEF Epub!Finish, Epub!document, EpubInv, EpubTyped
<1>2. DocInv'
  <2>1. \A kind_ : Epub!Elements(kind_)' = Epub!Elements(kind_)
    BY <1>1, DocKept
  <2>2. Reached' = Reached
    BY <1>1 DEF Reached
  <2>3. DocInv
    BY DEF EpubInv
  <2>4. open' = ""
    BY <1>1, <2>3 DEF DocInv
  <2>5. QED
    BY <1>1, <2>1, <2>2, <2>3, <2>4 DEF DocInv
<1>3. CoverInv' /\ Epub!Declared' = Epub!Declared
      /\ Epub!Elements("item")' = Epub!Elements("item")
  BY <1>1, DocKept DEF EpubInv
<1> DEFINE there == files_ \cap EpubPictures
           direct == IF coverPath = NotHere THEN NotHere ELSE Epub!FindCover(coverPath)
<1>4. IsFiniteSet(there)
  <2>1. IsFiniteSet(EpubPictures) /\ there \in SUBSET EpubPictures
    BY EpubAssumption
  <2>2. QED
    BY <2>1, FS_Subset
<1>5. /\ mode = {} => images' = <<>> /\ texts' = {} /\ coverExists' = FALSE
      /\ mode = {"texts"} => images' = <<>> /\ texts' = files_ /\ coverExists' = FALSE
      /\ "images" \in mode =>
           /\ texts' = IF "texts" \in mode THEN files_ \ EpubPictures ELSE {}
           /\ \E list_ \in Epub!SetToSeqs(there) :
                \/ /\ direct \in there
                   /\ images' = Epub!ToFront(direct, list_) /\ coverExists' = TRUE
                \/ /\ direct \notin there
                   /\ \E cover_ \in Epub!FallbackCovers \cap there :
                        images' = Epub!ToFront(cover_, list_) /\ coverExists' = TRUE
                \/ /\ direct \notin there
                   /\ images' = list_ /\ coverExists' = FALSE
  <2>1. mode = {} => images' = <<>> /\ texts' = {} /\ coverExists' = FALSE
    BY <1>1 DEF Epub!Finish
  <2>2. mode = {"texts"} => images' = <<>> /\ texts' = files_ /\ coverExists' = FALSE
    BY <1>1 DEF Epub!Finish
  <2>3. ASSUME "images" \in mode
        PROVE  /\ texts' = IF "texts" \in mode THEN files_ \ EpubPictures ELSE {}
               /\ \E list_ \in Epub!SetToSeqs(there) :
                \/ /\ direct \in there
                   /\ images' = Epub!ToFront(direct, list_) /\ coverExists' = TRUE
                \/ /\ direct \notin there
                   /\ \E cover_ \in Epub!FallbackCovers \cap there :
                        images' = Epub!ToFront(cover_, list_) /\ coverExists' = TRUE
                \/ /\ direct \notin there
                   /\ images' = list_ /\ coverExists' = FALSE
    BY <1>1, <2>3 DEF Epub!Finish
  <2>4. QED
    BY <2>1, <2>2, <2>3
<1> HIDE DEF there, direct
<1>6. ASSUME "images" \in mode
      PROVE  /\ AllOnce(images', there)
             /\ direct \in there => coverExists' /\ images'[1] = direct
             /\ coverExists' /\ direct \notin there => images'[1] \in Epub!FallbackCovers \cap there
  <2>1. PICK list_ \in Epub!SetToSeqs(there) :
          \/ /\ direct \in there
             /\ images' = Epub!ToFront(direct, list_) /\ coverExists' = TRUE
          \/ /\ direct \notin there
             /\ \E cover_ \in Epub!FallbackCovers \cap there :
                  images' = Epub!ToFront(cover_, list_) /\ coverExists' = TRUE
          \/ /\ direct \notin there
             /\ images' = list_ /\ coverExists' = FALSE
    BY <1>5, <1>6
  <2>2. /\ AllOnce(list_, there)
        /\ \A path_ \in there : Epub!ToFront(path_, list_)[1] = path_
                                /\ AllOnce(Epub!ToFront(path_, list_), there)
    <3>1. AllOnce(list_, there)
      BY <1>4, Listed
    <3>2. PICK n \in Nat : /\ list_ \in [1 .. n -> there]
                           /\ \A i, j \in 1 .. n : list_[i] = list_[j] => i = j
                           /\ \A t \in there : \E i \in 1 .. n : list_[i] = t
      BY <1>4, Listed
    <3>3. QED
      BY <3>1, <3>2, MovedToFront
  <2>3. QED
    BY <2>1, <2>2
<1>7. /\ direct = IF coverPath \in Pages
                  THEN IF coverPath \in files_ /\ "texts" \notin mode THEN shown_[coverPath] ELSE NotHere
                  ELSE coverPath
      /\ \A path_ : Epub!FindCover(path_)
                     = IF path_ \in Pages
                       THEN IF path_ \in files_ /\ "texts" \notin mode THEN shown_[path_] ELSE NotHere
                       ELSE path_
  <2>1. \A path_ : Epub!FindCover(path_)
                    = IF path_ \in Pages
                      THEN IF path_ \in files_ /\ "texts" \notin mode THEN shown_[path_] ELSE NotHere
                      ELSE path_
    BY <1>1 DEF Epub!FindCover, Epub!GetImagePath
  <2>2. NotHere \notin Pages
    BY EpubAssumption
  <2>3. QED
    BY <2>1, <2>2 DEF direct
<1>8. Epub!CoverIsDeclared'
  <2>1. SUFFICES ASSUME "images" \in mode
                 PROVE  /\ direct \in files_ => coverExists' /\ images'[1] = direct
                        /\ coverExists' /\ images'[1] # direct =>
                             \E i \in Epub!Elements("item") :
                               /\ doc[i].id \in CoverIds
                               /\ images'[1] \in {doc[i].href} \cup
                                    {shown_[page] : page \in {doc[i].href} \cap Pages}
    <3>1. coverPath = Epub!Declared'
      BY <1>3 DEF EpubInv, CoverInv
    <3>2. mode = {"images"} <=> "images" \in mode /\ "texts" \notin mode
      BY <1>1 DEF Epub!Modes
    <3>3. "images" \in mode =>
            direct = IF Epub!Declared' \in Pages
                     THEN IF Epub!Declared' \in body' /\ mode' = {"images"} THEN shows'[Epub!Declared'] ELSE NotHere
                     ELSE Epub!Declared'
      BY <1>1, <1>7, <3>1, <3>2
    <3>4. QED
      BY <1>1, <1>3, <3>3 DEF Epub!CoverIsDeclared
  <2>2. direct \in files_ => direct \in there
    <3>1. coverPath \in EpubPictures \cup Pages \cup {NotHere}
      BY DeclaredTyped DEF EpubInv, CoverInv, Epub!Files
    <3>2. NotHere \notin files_ /\ files_ \subseteq EpubPictures \cup Pages
      BY EpubAssumption DEF Epub!Files
    <3>3. direct \in EpubPictures \cup {NotHere}
      BY <1>7, <3>1
    <3>4. QED
      BY <3>2, <3>3 DEF there
  <2>3. ASSUME images'[1] \in Epub!FallbackCovers \cap there
        PROVE  \E i \in Epub!Elements("item") :
                 /\ doc[i].id \in CoverIds
                 /\ images'[1] \in {doc[i].href} \cup
                      {shown_[page] : page \in {doc[i].href} \cap Pages}
    <3>1. PICK id_ \in DOMAIN manifest \cap CoverIds : images'[1] = Epub!FindCover(manifest[id_])
      BY <2>3 DEF Epub!FallbackCovers
    <3>2. PICK i \in Epub!Elements("item") : doc[i].id = id_ /\ manifest[id_] = doc[i].href
      BY <3>1 DEF EpubInv, CoverInv, ManifestInv
    <3>3. images'[1] # NotHere
      BY <2>3, EpubAssumption DEF there
    <3>4. QED
      BY <1>7, <3>1, <3>2, <3>3
  <2>4. QED
    BY <1>6, <2>1, <2>2, <2>3
<1>9. Epub!NothingTwice'
  <2>1. CASE "images" \notin mode
    <3>1. mode = {} \/ mode = {"texts"}
      BY <1>1, <2>1 DEF Epub!Modes
    <3>2. images' = <<>> /\ mode' = mode /\ "images" \notin mode'
      BY <1>1, <1>5, <2>1, <3>1
    <3>3. Epub!IsInjective(<<>>) /\ Epub!Range(<<>>) = {}
      BY DEF Epub!IsInjective, Epub!Range
    <3>4. mode' # {"images", "texts"}
      BY <3>2
    <3>5. QED
      BY <3>2, <3>3, <3>4 DEF Epub!NothingTwice, Epub!IsInjective, Epub!Range
  <2>2. CASE "images" \in mode
    <3>1. AllOnce(images', there) /\ files_ \subseteq EpubPictures \cup Pages
      BY <1>6, <2>2 DEF Epub!Files
    <3>2. texts' = IF "texts" \in mode THEN files_ \ EpubPictures ELSE {}
      BY <1>5, <2>2
    <3>3. /\ there = files_ \cap EpubPictures /\ there \cap texts' = {}
          /\ mode = {"images", "texts"} => there \cup texts' = files_
      BY <3>2 DEF there
    <3>4. QED
      BY <1>1, <3>1, <3>3 DEF Epub!NothingTwice, AllOnce, Epub!IsInjective, Epub!Range
  <2>3. QED
    BY <2>1, <2>2
<1>10. EpubTyped'
  <2>1. coverExists' \in BOOLEAN
    <3>1. mode = {} \/ mode = {"texts"} \/ "images" \in mode
      BY <1>1 DEF Epub!Modes
    <3>2. QED
      BY <1>5, <3>1
  <2>2. QED
    BY <1>1, <2>1 DEF EpubInv, EpubTyped
<1>11. QED
  BY <1>2, <1>3, <1>8, <1>9, <1>10 DEF EpubInv

\* A section begins or ends, or text is read.
IsOpen == open # ""

LEMMA NothingAdded ==
  ASSUME DocInv, CoverInv,
         UNCHANGED <<doc, manifest, coverId, coverPath, spineItemRefFound>>,
         section' \in 0 .. 4, passed' \in 0 .. 4, section' # 0 => section' > passed' /\ phase' = "opf",
         IsOpen' => section' # 0, Reached \in Nat, Reached' \in Nat, Reached' >= Reached
  PROVE  DocInv' /\ CoverInv'
<1>1. CoverInv' /\ \A kind_ : Epub!Elements(kind_)' = Epub!Elements(kind_)
  BY DocKept
<1>2. PICK a \in Nat, b \in Nat : a = Reached /\ b = Reached' /\ b >= a
  OBVIOUS
<1>3. /\ a < 2 => Epub!Elements("item") = {}
      /\ a < 3 => Epub!Elements("itemref") = {}
      /\ a < 4 => Epub!Elements("reference") = {}
  BY <1>2 DEF DocInv
<1>4. /\ b < 2 => Epub!Elements("item")' = {}
      /\ b < 3 => Epub!Elements("itemref")' = {}
      /\ b < 4 => Epub!Elements("reference")' = {}
  <2>1. (b < 2 => a < 2) /\ (b < 3 => a < 3) /\ (b < 4 => a < 4)
    BY <1>2
  <2>2. QED
    BY <1>1, <1>3, <2>1
<1>5. doc' \in Seq(DocElements)
  BY DEF DocInv
<1>6. open' # "" => section' # 0
  BY DEF IsOpen
<1>7. QED
  BY <1>1, <1>2, <1>4, <1>5, <1>6 DEF DocInv

LEMMA EpubBegins ==
  ASSUME Epub!Init
  PROVE  EpubInv
<1>1. /\ doc = <<>> /\ section = 0 /\ passed = 0 /\ ~IsOpen /\ phase = "opf"
      /\ coverId = NotHere /\ coverPath = NotHere /\ manifest = <<>> /\ ~spineItemRefFound
  BY DEF Epub!Init, IsOpen
<1>2. \A kind_ : Epub!Elements(kind_) = {}
  <2>1. DOMAIN doc = {}
    BY <1>1
  <2>2. QED
    BY <2>1 DEF Epub!Elements
<1>3. DocInv
  <2>1. doc \in Seq(DocElements)
    BY <1>1
  <2>2. section \in 0 .. 4 /\ passed \in 0 .. 4 /\ ~(section # 0)
    BY <1>1
  <2>3. ~(open # "")
    BY <1>1 DEF IsOpen
  <2>4. QED
    BY <1>2, <2>1, <2>2, <2>3 DEF DocInv
<1>4. Covering = {} /\ Firsts = {} /\ Epub!MetaCover = NotHere
  BY <1>2 DEF Covering, Firsts, Epub!MetaCover
<1>5. Epub!Declared = NotHere
  BY <1>2, <1>4, DeclaredIs
<1>6. ManifestInv
  <2>1. DOMAIN manifest = {}
    BY <1>1
  <2>2. QED
    BY <1>2, <2>1 DEF ManifestInv
<1>7. CoverInv
  BY <1>1, <1>2, <1>4, <1>5, <1>6 DEF CoverInv
<1>8. EpubTyped
  <2>1. /\ mode \in Epub!Modes /\ body \in SUBSET Epub!Files /\ phase = "opf"
        /\ functor = "" /\ fields = [f \in Epub!Fields |-> ""]
        /\ shows = [page \in Pages |-> NotHere]
        /\ images = <<>> /\ texts = {} /\ coverExists = FALSE
    BY DEF Epub!Init
  <2>2. open = ""
    BY <1>1 DEF IsOpen
  <2>3. QED
    BY <1>1, <2>1, <2>2 DEF EpubTyped
<1>9. QED
  BY <1>1, <1>3, <1>7, <1>8 DEF EpubInv

\* What stays as it is until the archive is read.
Packed == UNCHANGED <<mode, body, shows, phase, images, texts, coverExists>>

LEMMA EpubStep ==
  ASSUME EpubInv, [Epub!Next]_epubVars
  PROVE  EpubInv'
<1>1. DocInv /\ CoverInv /\ EpubTyped
  BY DEF EpubInv
<1>2. ASSUME DocInv', CoverInv', Packed, phase = "opf",
             functor' \in Epub!Fields \cup {""}, fields' \in [Epub!Fields -> Epub!Fields \cup {"", "date"}],
             open' \in Epub!Fields \cup {"", "date"}
      PROVE  EpubInv'
  BY <1>1, <1>2 DEF Packed, EpubTyped, EpubInv
<1>3. PICK sec \in 0 .. 4, pas \in 0 .. 4 : sec = section /\ pas = passed
  BY <1>1 DEF DocInv
<1>4. /\ section # 0 => phase = "opf" /\ Reached = sec /\ sec > pas
      /\ section = 0 => Reached = pas
      /\ IsOpen => section # 0
  <2>1. (section # 0 => section > passed /\ phase = "opf") /\ (IsOpen => section # 0)
    BY <1>1 DEF DocInv, IsOpen
  <2>2. ~(0 > pas)
    OBVIOUS
  <2>3. Reached = IF sec > pas THEN sec ELSE pas
    BY <1>3 DEF Reached
  <2>4. QED
    BY <1>3, <2>1, <2>2, <2>3
<1>5. /\ functor \in Epub!Fields \cup {""} /\ fields \in [Epub!Fields -> Epub!Fields \cup {"", "date"}]
      /\ open \in Epub!Fields \cup {"", "date"} /\ Len(Epub!Sections) = 4
  BY <1>1 DEF EpubTyped, Epub!Sections
<1>5a. Reached \in Nat /\ 0 \in 0 .. 4 /\ 4 \in 0 .. 4
  <2>1. sec \in Nat /\ pas \in Nat
    OBVIOUS
  <2>2. QED
    BY <1>4, <2>1
<1>6. ASSUME NEW s \in 1 .. Len(Epub!Sections), Epub!StartSection(s) PROVE EpubInv'
  <2>1. /\ UNCHANGED <<doc, manifest, coverId, coverPath, spineItemRefFound, passed, open, functor, fields>>
        /\ Packed /\ phase = "opf" /\ section = 0 /\ s > passed /\ section' = s
    BY <1>6 DEF Epub!StartSection, Epub!Outside, Packed
  <2>2. s \in 0 .. 4 /\ s > pas /\ s # 0
    <3>1. s \in 1 .. 4 /\ s > pas
      BY <1>3, <1>5, <2>1
    <3>2. QED
      BY <3>1
  <2>3. Reached' = s /\ Reached = pas
    BY <1>3, <1>4, <2>1, <2>2 DEF Reached
  <2>4. DocInv' /\ CoverInv'
    <3>1. section' > passed' /\ phase' = "opf" /\ section' \in 0 .. 4 /\ passed' \in 0 .. 4
      BY <1>3, <2>1, <2>2 DEF Packed
    <3>2. Reached \in Nat /\ Reached' \in Nat /\ Reached' >= Reached
      BY <2>2, <2>3
    <3>3. IsOpen' => section' # 0
      BY <2>1, <2>2
    <3>4. QED
      BY <1>1, <2>1, <3>1, <3>2, <3>3, NothingAdded
  <2>5. QED
    BY <1>2, <1>5, <2>1, <2>4
<1>7. ASSUME Epub!EndSection PROVE EpubInv'
  <2>1. /\ UNCHANGED <<doc, manifest, coverId, coverPath, spineItemRefFound, open, functor, fields>>
        /\ Packed /\ phase = "opf" /\ section # 0 /\ section' = 0 /\ open = ""
        /\ passed' = Len(Epub!Sections) \/ passed' = section
    BY <1>7 DEF Epub!EndSection, Epub!Outside, Packed
  <2>2. passed' \in 0 .. 4 /\ passed' >= sec
    <3>1. passed' = 4 \/ passed' = sec
      BY <1>3, <1>5, <2>1
    <3>2. 4 >= sec /\ sec >= sec
      OBVIOUS
    <3>3. QED
      BY <1>5a, <3>1, <3>2
  <2>3. Reached' = passed' /\ Reached = sec
    <3>1. PICK p_ \in 0 .. 4 : p_ = passed'
      BY <2>2
    <3>2. ~(0 > p_)
      OBVIOUS
    <3>3. Reached' = IF 0 > p_ THEN 0 ELSE p_
      BY <2>1, <3>1 DEF Reached
    <3>4. QED
      BY <1>4, <2>1, <3>1, <3>2, <3>3
  <2>4. DocInv' /\ CoverInv'
    <3>1. section' \in 0 .. 4 /\ ~(section' # 0)
      BY <1>5a, <2>1
    <3>2. ~IsOpen'
      BY <2>1 DEF IsOpen
    <3>3. Reached \in Nat /\ Reached' \in Nat /\ Reached' >= Reached
      BY <2>2, <2>3
    <3>4. QED
      BY <1>1, <2>1, <2>2, <3>1, <3>2, <3>3, NothingAdded
  <2>5. QED
    BY <1>2, <1>5, <2>1, <2>4
<1>8. ASSUME NEW name_ \in Epub!Fields \cup {"date"}, Epub!StartField(name_) PROVE EpubInv'
  <2>1. /\ Packed /\ phase = "opf" /\ fields' = fields /\ open' = name_
        /\ ((functor' = name_ /\ name_ \in Epub!Fields) \/ functor' = functor)
    BY <1>8 DEF Epub!StartField, Epub!Outside, Epub!In, Packed
  <2>2. QED
    BY <1>1, <1>2, <1>5, <1>8, <2>1, FieldAdded
<1>9. ASSUME Epub!OnCharacters PROVE EpubInv'
  <2>1. /\ UNCHANGED <<doc, manifest, coverId, coverPath, spineItemRefFound, section, passed, open>>
        /\ Packed /\ open # ""
        /\ \/ functor' = functor /\ fields' = fields
           \/ functor' = "" /\ fields' = [fields EXCEPT ![functor] = open]
    BY <1>9 DEF Epub!OnCharacters, Epub!Outside, Packed
  <2>2. phase = "opf" /\ section # 0
    BY <1>4, <2>1 DEF IsOpen
  <2>3. DocInv' /\ CoverInv'
    <3>1. Reached' = Reached /\ Reached \in Nat
      BY <1>5a, <2>1 DEF Reached
    <3>2. Reached' >= Reached
      BY <3>1
    <3>3. section' \in 0 .. 4 /\ passed' \in 0 .. 4 /\ (section' # 0 => section' > passed')
      BY <1>1, <2>1 DEF DocInv
    <3>4. (section' # 0 => phase' = "opf") /\ (IsOpen' => section' # 0)
      BY <2>1, <2>2 DEF Packed
    <3>5. QED
      BY <1>1, <2>1, <3>1, <3>2, <3>3, <3>4, NothingAdded
  <2>4. fields' \in [Epub!Fields -> Epub!Fields \cup {"", "date"}]
    BY <1>5, <2>1
  <2>5. QED
    BY <1>2, <1>5, <2>1, <2>2, <2>3, <2>4
<1>10. ASSUME Epub!EndField PROVE EpubInv'
  <2>1. /\ UNCHANGED <<doc, manifest, coverId, coverPath, spineItemRefFound, section, passed, functor, fields>>
        /\ Packed /\ open # "" /\ open' = ""
    BY <1>10 DEF Epub!EndField, Epub!Outside, Packed
  <2>2. phase = "opf" /\ section # 0
    BY <1>4, <2>1 DEF IsOpen
  <2>3. DocInv' /\ CoverInv'
    <3>1. Reached' = Reached /\ Reached \in Nat
      BY <1>5a, <2>1 DEF Reached
    <3>2. Reached' >= Reached
      BY <3>1
    <3>3. section' \in 0 .. 4 /\ passed' \in 0 .. 4 /\ (section' # 0 => section' > passed')
      BY <1>1, <2>1 DEF DocInv
    <3>4. (section' # 0 => phase' = "opf") /\ (IsOpen' => section' # 0)
      BY <2>1, <2>2 DEF Packed
    <3>5. QED
      BY <1>1, <2>1, <3>1, <3>2, <3>3, <3>4, NothingAdded
  <2>4. QED
    BY <1>2, <1>5, <2>1, <2>2, <2>3
<1>11. ASSUME NEW id_ \in ItemIds, Epub!Meta(id_) PROVE EpubInv'
  <2>1. Packed /\ phase = "opf" /\ UNCHANGED <<functor, fields, open>>
    BY <1>11 DEF Epub!Meta, Epub!Outside, Epub!In, Packed
  <2>2. QED
    BY <1>1, <1>2, <1>5, <1>11, <2>1, MetaAdded
<1>12. ASSUME NEW id_ \in ItemIds, Epub!ItemRef(id_) PROVE EpubInv'
  <2>1. Packed /\ phase = "opf" /\ UNCHANGED <<functor, fields, open>>
    BY <1>12 DEF Epub!ItemRef, Epub!Outside, Epub!In, Packed
  <2>2. QED
    BY <1>1, <1>2, <1>5, <1>12, <2>1, ItemRefAdded
<1>13. ASSUME NEW id_ \in ItemIds, NEW href_ \in Epub!Files, NEW marked_ \in BOOLEAN,
              Epub!Item(id_, href_, marked_) PROVE EpubInv'
  <2>1. Packed /\ phase = "opf" /\ UNCHANGED <<functor, fields, open>>
    BY <1>13 DEF Epub!Item, Epub!Outside, Epub!In, Packed
  <2>2. QED
    BY <1>1, <1>2, <1>5, <1>13, <2>1, ItemAdded
<1>14. ASSUME NEW href_ \in Epub!Files, Epub!Reference(href_) PROVE EpubInv'
  <2>1. Packed /\ phase = "opf" /\ UNCHANGED <<functor, fields, open>>
    BY <1>14 DEF Epub!Reference, Epub!Outside, Epub!In, Packed
  <2>2. QED
    BY <1>1, <1>2, <1>5, <1>14, <2>1, ReferenceAdded
<1>15. ASSUME UNCHANGED epubVars PROVE EpubInv'
  <2>1. /\ UNCHANGED <<doc, manifest, coverId, coverPath, spineItemRefFound, section, passed, open, phase>>
        /\ UNCHANGED <<mode, body, shows, functor, fields, images, texts, coverExists>>
    BY <1>15 DEF epubVars
  <2>2. CoverInv' /\ Epub!Declared' = Epub!Declared /\ \A kind_ : Epub!Elements(kind_)' = Epub!Elements(kind_)
    BY <1>1, <2>1, DocKept
  <2>3. DocInv'
    <3>1. Reached' = Reached
      BY <2>1 DEF Reached
    <3>2. QED
      BY <1>1, <2>1, <2>2, <3>1 DEF DocInv
  <2>4. EpubTyped'
    BY <1>1, <2>1 DEF EpubTyped
  <2>5. phase' = "done" => Epub!CoverIsDeclared' /\ Epub!NothingTwice'
    BY <2>1, <2>2 DEF EpubInv, Epub!CoverIsDeclared, Epub!NothingTwice, Epub!IsInjective, Epub!Range
  <2>6. QED
    BY <2>2, <2>3, <2>4, <2>5 DEF EpubInv
<1>16. ASSUME NEW files_ \in SUBSET Epub!Files, NEW shown_ \in [Pages -> EpubPictures \cup {NotHere}],
              Epub!Finish(files_, shown_) PROVE EpubInv'
  BY <1>16, Finished
<1>17. QED
  BY <1>6, <1>7, <1>8, <1>9, <1>10, <1>11, <1>12, <1>13, <1>14, <1>15, <1>16 DEF Epub!Next

LEMMA EpubShows ==
  ASSUME EpubInv
  PROVE  Epub!CoverIsDeclared /\ Epub!NothingTwice /\ Epub!TypeOK
<1>1. Epub!CoverIsDeclared /\ Epub!NothingTwice
  BY DEF EpubInv, Epub!CoverIsDeclared, Epub!NothingTwice
<1>2. coverPath \in Epub!Files \cup {NotHere}
  BY DeclaredTyped DEF EpubInv, CoverInv
<1>3. \A id \in DOMAIN manifest : manifest[id] \in Epub!Files
  BY ElementsTyped DEF EpubInv, CoverInv, ManifestInv
<1>4. Len(Epub!Sections) = 4
  BY DEF Epub!Sections
<1>5. section \in 0 .. 4 /\ passed \in 0 .. 4
  BY DEF EpubInv, DocInv
<1>6. QED
  BY <1>1, <1>2, <1>3, <1>4, <1>5 DEF EpubInv, EpubTyped, Epub!TypeOK

-----------------------------------------------------------------------------
(* Paths of elements                                                         *)

\* The names of elements.
StoredNames == Stored!Names
InpxNames   == Inpx!Names
Tags        == HashNames \cup StoredNames \cup InpxNames \cup {"lang", "keywords"}

Depth(path) == Cardinality({i \in DOMAIN path : path[i] = "section"})

\* The path ends as well, or goes on.
Begins(start, path) == Len(start) <= Len(path) /\ \A i \in 1 .. Len(start) : start[i] = path[i]

LEMMA SameStart ==
  ASSUME NEW S, NEW s \in Seq(S), NEW t \in Seq(S), NEW n \in Nat, n <= Len(s), n <= Len(t)
  PROVE  /\ SubSeq(s, 1, n) = SubSeq(t, 1, n) <=> \A i \in 1 .. n : s[i] = t[i]
         /\ n = Len(s) => SubSeq(s, 1, n) = s
<1>1. PICK k \in Nat, m \in Nat : k = Len(s) /\ m = Len(t)
  OBVIOUS
<1>2. /\ \A i \in 1 .. n : s[i] \in S /\ t[i] \in S
      /\ n = IF 1 <= n THEN n - 1 + 1 ELSE 0
  BY <1>1
<1>3. /\ SubSeq(s, 1, n) \in Seq(S) /\ Len(SubSeq(s, 1, n)) = n
      /\ \A i \in 1 .. n : SubSeq(s, 1, n)[i] = s[i]
  <2>1. /\ SubSeq(s, 1, n) \in Seq(S)
        /\ Len(SubSeq(s, 1, n)) = IF 1 <= n THEN n - 1 + 1 ELSE 0
        /\ \A i \in 1 .. n - 1 + 1 : SubSeq(s, 1, n)[i] = s[1 + i - 1]
    BY <1>2, SubSeqProperties
  <2>2. QED
    BY <1>2, <2>1
<1>4. /\ SubSeq(t, 1, n) \in Seq(S) /\ Len(SubSeq(t, 1, n)) = n
      /\ \A i \in 1 .. n : SubSeq(t, 1, n)[i] = t[i]
  <2>1. /\ SubSeq(t, 1, n) \in Seq(S)
        /\ Len(SubSeq(t, 1, n)) = IF 1 <= n THEN n - 1 + 1 ELSE 0
        /\ \A i \in 1 .. n - 1 + 1 : SubSeq(t, 1, n)[i] = t[1 + i - 1]
    BY <1>2, SubSeqProperties
  <2>2. QED
    BY <1>2, <2>1
<1> DEFINE front == SubSeq(s, 1, n)
           begun == SubSeq(t, 1, n)
<1> HIDE DEF front, begun
<1>5. front = begun <=> \A i \in 1 .. n : front[i] = begun[i]
  BY <1>3, <1>4, SeqEqual DEF front, begun
<1>6. n = Len(s) => front = s
  BY <1>3, SeqEqual DEF front
<1>7. QED
  BY <1>3, <1>4, <1>5, <1>6 DEF front, begun

LEMMA PrefixBegins ==
  ASSUME NEW s \in Seq(Tags), NEW t \in Seq(Tags)
  PROVE  (Hash!IsPrefix(s, t) <=> Begins(s, t)) /\ (Inpx!IsPrefix(s, t) <=> Begins(s, t))
<1>1. PICK n \in Nat, m \in Nat : n = Len(s) /\ m = Len(t)
  OBVIOUS
<1>2. ASSUME n <= m PROVE SubSeq(s, 1, n) = SubSeq(t, 1, n) <=> \A i \in 1 .. n : s[i] = t[i]
  BY <1>1, <1>2, SameStart
<1>3. QED
  BY <1>1, <1>2 DEF Hash!IsPrefix, Inpx!IsPrefix, Begins

\* One more element.
LEMMA PathLonger ==
  ASSUME NEW path \in Seq(Tags), NEW name \in Tags
  PROVE  LET longer == Append(path, name) IN
         /\ longer \in Seq(Tags) /\ longer # <<>> /\ longer[Len(longer)] = name
         /\ Depth(longer) = Depth(path) + IF name = "section" THEN 1 ELSE 0
         /\ Depth(path) \in Nat
         /\ \A s \in Seq(Tags) : Begins(s, longer) <=> Begins(s, path) \/ s = longer
<1> DEFINE longer == Append(path, name)
           before_ == {i \in DOMAIN path : path[i] = "section"}
           after_  == {i \in DOMAIN longer : longer[i] = "section"}
<1>1. PICK n \in Nat : n = Len(path)
  OBVIOUS
<1>2. /\ longer \in Seq(Tags) /\ Len(longer) = n + 1 /\ longer[n + 1] = name
      /\ \A i \in 1 .. n : longer[i] = path[i]
  <2>1. /\ longer \in Seq(Tags) /\ Len(longer) = Len(path) + 1 /\ longer[Len(path) + 1] = name
        /\ \A i \in 1 .. Len(path) : longer[i] = path[i]
    BY AppendProperties
  <2>2. QED
    BY <1>1, <2>1
<1>3. DOMAIN path = 1 .. n /\ DOMAIN longer = 1 .. n + 1
  BY <1>1, <1>2
<1> HIDE DEF longer
<1>4. longer # <<>> /\ longer[Len(longer)] = name
  BY <1>2
<1>5. /\ before_ \in SUBSET (1 .. n) /\ n + 1 \notin before_
      /\ after_ = IF name = "section" THEN before_ \cup {n + 1} ELSE before_
  BY <1>2, <1>3
<1> HIDE DEF before_, after_
<1>6. IsFiniteSet(before_) /\ Cardinality(before_) \in Nat
  <2>1. IsFiniteSet(1 .. n)
    BY FS_Interval
  <2>2. QED
    BY <1>5, <2>1, FS_Subset, FS_CardinalityType
<1>7. Cardinality(after_) = Cardinality(before_) + IF name = "section" THEN 1 ELSE 0
  <2>1. Cardinality(before_ \cup {n + 1}) = Cardinality(before_) + 1
    BY <1>5, <1>6, FS_AddElement
  <2>2. QED
    BY <1>5, <1>6, <2>1
<1>8. ASSUME NEW s \in Seq(Tags) PROVE Begins(s, longer) <=> Begins(s, path) \/ s = longer
  <2>1. PICK k \in Nat : k = Len(s)
    OBVIOUS
  <2>2. CASE k <= n
    BY <1>1, <1>2, <2>1, <2>2 DEF Begins
  <2>3. CASE k = n + 1
    <3>1. s = longer <=> \A i \in 1 .. n + 1 : s[i] = longer[i]
      BY <1>2, <2>1, <2>3, SeqEqual
    <3>2. QED
      BY <1>1, <1>2, <2>1, <2>3, <3>1 DEF Begins
  <2>4. CASE k > n + 1
    BY <1>1, <1>2, <2>1, <2>4 DEF Begins
  <2>5. QED
    BY <1>1, <2>2, <2>3, <2>4
<1>9. QED
  BY <1>2, <1>4, <1>6, <1>7, <1>8 DEF Depth, before_, after_, longer

\* One less.
LEMMA PathShorter ==
  ASSUME NEW path \in Seq(Tags), path # <<>>
  PROVE  LET shorter == SubSeq(path, 1, Len(path) - 1)
             name    == path[Len(path)] IN
         /\ shorter \in Seq(Tags) /\ name \in Tags /\ path = Append(shorter, name)
         /\ Depth(path) = Depth(shorter) + IF name = "section" THEN 1 ELSE 0
         /\ Depth(shorter) \in Nat
         /\ \A s \in Seq(Tags) : Begins(s, path) <=> Begins(s, shorter) \/ s = path
<1> DEFINE shorter == SubSeq(path, 1, Len(path) - 1)
           name    == path[Len(path)]
<1>1. PICK n \in Nat : n + 1 = Len(path) /\ n = Len(path) - 1
  BY EmptySeq
<1>2. \A i \in 1 .. n : path[i] \in Tags
  BY <1>1
<1>3. /\ shorter \in Seq(Tags) /\ Len(shorter) = n /\ \A i \in 1 .. n : shorter[i] = path[i]
  <2>1. /\ SubSeq(path, 1, n) \in Seq(Tags)
        /\ Len(SubSeq(path, 1, n)) = IF 1 <= n THEN n - 1 + 1 ELSE 0
        /\ \A i \in 1 .. n - 1 + 1 : SubSeq(path, 1, n)[i] = path[1 + i - 1]
    BY <1>2, SubSeqProperties
  <2>2. QED
    BY <1>1, <2>1
<1>4. name = path[n + 1] /\ name \in Tags
  BY <1>1
<1> HIDE DEF shorter, name
<1>5. path = Append(shorter, name)
  <2>1. /\ Append(shorter, name) \in Seq(Tags) /\ Len(Append(shorter, name)) = n + 1
        /\ Append(shorter, name)[n + 1] = name
        /\ \A i \in 1 .. n : Append(shorter, name)[i] = shorter[i]
    BY <1>3, <1>4, AppendProperties
  <2>2. \A i \in 1 .. n + 1 : Append(shorter, name)[i] = path[i]
    BY <1>3, <1>4, <2>1
  <2>3. QED
    BY <1>1, <2>1, <2>2, SeqEqual
<1>6. LET longer == Append(shorter, name) IN
      /\ Depth(longer) = Depth(shorter) + IF name = "section" THEN 1 ELSE 0
      /\ Depth(shorter) \in Nat
      /\ \A s \in Seq(Tags) : Begins(s, longer) <=> Begins(s, shorter) \/ s = longer
  BY <1>3, <1>4, PathLonger
<1>7. QED
  BY <1>3, <1>4, <1>5, <1>6 DEF shorter, name

-----------------------------------------------------------------------------
(* The types of archives                                                     *)

ArchiveTyped ==
  /\ exists \in BOOLEAN /\ kind \in Kinds /\ listed \in BOOLEAN /\ used \in BOOLEAN
  /\ opened \in 0 .. MaxObjects /\ asked \subseteq Requests
  /\ files \in Seq([index : DOMAIN disk, name : Names])
  /\ ~listed => files = <<>>

LEMMA ListTyped ==
  ASSUME NEW d, DiskInv(d)
  PROVE  /\ CreateFileList(d) \in Seq([index : DOMAIN d, name : Names])
         /\ d = <<>> => CreateFileList(d) = <<>>
<1> DEFINE items  == [i \in DOMAIN d |-> [index |-> i, name |-> d[i].name]]
           firsts == {i \in DOMAIN d : IsFirst(d, i)}
           Items  == [index : DOMAIN d, name : Names]
<1>1. PICK n \in Nat : DOMAIN d = 1 .. n
  <2>1. Len(d) \in Nat /\ DOMAIN d = 1 .. Len(d)
    BY DEF DiskInv
  <2>2. QED
    BY <2>1
<1>2. \A i \in DOMAIN d : d[i].name \in Names
  BY DiskDistinct
<1>3. items \in Seq(Items) /\ firsts \in SUBSET DOMAIN items
  <2>1. \A i \in 1 .. n : [index |-> i, name |-> d[i].name] \in Items
    BY <1>1, <1>2
  <2> HIDE DEF Items
  <2>2. items = [i \in 1 .. n |-> [index |-> i, name |-> d[i].name]] /\ firsts \subseteq 1 .. n
    BY <1>1
  <2>3. items \in [1 .. n -> Items]
    BY <2>1, <2>2
  <2> HIDE DEF items, firsts
  <2>4. items \in Seq(Items) /\ DOMAIN items = 1 .. n
    BY <2>3
  <2>5. QED
    BY <2>2, <2>4
<1>4. CreateFileList(d) = Sublist(items, firsts)
  BY DEF CreateFileList
<1> HIDE DEF items, firsts
<1>5. CreateFileList(d) \in Seq(Items)
  BY <1>3, <1>4, SublistOf
<1>6. ASSUME d = <<>> PROVE CreateFileList(d) = <<>>
  <2>1. Items = {}
    BY <1>6
  <2> HIDE DEF Items
  <2>2. \A made \in Seq(Items) : made = <<>>
    <3>1. ASSUME NEW made \in Seq(Items) PROVE Len(made) = 0
      BY <2>1
    <3>2. QED
      BY <3>1, EmptySeq
  <2>3. QED
    BY <1>5, <2>2
<1>7. QED
  BY <1>5, <1>6

LEMMA ArchiveTypesBegin == Init \/ IdleArchive => ArchiveTyped
<1> SUFFICES ASSUME Init \/ IdleArchive PROVE ArchiveTyped
  OBVIOUS
<1>1. MaxObjects \in Nat
  BY ArchiveAssumption, Zenon
<1>2. /\ exists \in BOOLEAN /\ kind \in Kinds /\ listed \in BOOLEAN /\ used \in BOOLEAN
      /\ opened = 0 /\ asked = {} /\ files = <<>>
  BY DEF Init, IdleArchive, Kinds
<1>3. <<>> \in Seq([index : DOMAIN disk, name : Names])
  OBVIOUS
<1>4. QED
  BY <1>1, <1>2, <1>3 DEF ArchiveTyped

LEMMA ArchiveTypesStep ==
  ASSUME ArchiveInv, ArchiveInv', ArchiveTyped, [Next]_vars
  PROVE  ArchiveTyped'
<1>1. /\ CreateFileList(disk') \in Seq([index : DOMAIN disk', name : Names])
      /\ disk' = <<>> => CreateFileList(disk') = <<>>
  BY ListTyped DEF ArchiveInv
<1>2. <<>> \in Seq([index : DOMAIN disk', name : Names])
  OBVIOUS
<1>3. MaxObjects \in Nat
  BY ArchiveAssumption, Zenon
<1> USE DEF Kinds
<1>4. CASE UNCHANGED vars
  BY <1>4 DEF vars, ArchiveTyped
<1>5. CASE CreateReader
  BY <1>1, <1>3, <1>5 DEF CreateReader, ArchiveTyped, ArchiveInv
<1>6. ASSUME NEW appendMode \in BOOLEAN, CreateWriter(appendMode) PROVE ArchiveTyped'
  <2>1. /\ exists' \in BOOLEAN /\ kind' \in Kinds /\ listed' \in BOOLEAN /\ used' = used
        /\ opened < MaxObjects /\ opened' = opened + 1 /\ asked' = asked
        /\ files' = CreateFileList(disk')
        /\ ~listed' => disk' = <<>>
    BY <1>6 DEF CreateWriter
  <2>2. QED
    BY <1>1, <1>3, <2>1 DEF ArchiveTyped
<1>7. CASE CreateStreamWriter
  <2>1. /\ exists' \in BOOLEAN /\ kind' \in Kinds /\ listed' \in BOOLEAN /\ used' = used
        /\ opened < MaxObjects /\ opened' = opened + 1 /\ asked' = asked /\ files' = <<>>
    BY <1>7 DEF CreateStreamWriter
  <2>2. QED
    BY <1>2, <1>3, <2>1 DEF ArchiveTyped
<1>8. CASE Close
  BY <1>2, <1>8 DEF Close, ArchiveTyped
<1>9. ASSUME NEW names \in BoundedSeq(FileNames, 2), Write(names) PROVE ArchiveTyped'
  <2>1. /\ exists' = TRUE /\ used' = TRUE /\ asked' = {} /\ UNCHANGED <<kind, listed, opened>>
        /\ files' = UpdateFileList(disk')
    BY <1>9 DEF Write
  <2>2. files' = IF listed THEN CreateFileList(disk') ELSE files
    BY <2>1 DEF UpdateFileList
  <2>3. QED
    BY <1>1, <1>2, <2>1, <2>2 DEF ArchiveTyped
<1>10. ASSUME NEW names \in (SUBSET Requests) \ {{}}, RemoveFiles(names) PROVE ArchiveTyped'
  <2>1. /\ asked' = names /\ UNCHANGED <<exists, kind, listed, used, opened>>
        /\ files' = UpdateFileList(disk')
    BY <1>10 DEF RemoveFiles
  <2>2. files' = IF listed THEN CreateFileList(disk') ELSE files
    BY <2>1 DEF UpdateFileList
  <2>3. QED
    BY <1>1, <1>2, <2>1, <2>2 DEF ArchiveTyped
<1>11. CASE Terminated
  BY <1>11 DEF Terminated, vars, ArchiveTyped
<1>12. QED
  BY <1>4, <1>5, <1>6, <1>7, <1>8, <1>9, <1>10, <1>11 DEF Next

LEMMA ArchiveTypeShown == ASSUME ArchiveInv, ArchiveTyped PROVE TypeOK
<1>1. \A e \in Range(disk) : e \in Entries
  BY DiskDistinct DEF ArchiveInv, Range
<1>2. QED
  BY <1>1 DEF ArchiveTyped, TypeOK, Entries

-----------------------------------------------------------------------------
(* The types of Fb2Parser                                                    *)

HashHandlers ==
  [open : Seq(Nat), closed : Seq(Nat \X Nat), picId : PictureIds \cup {Hash!NoId},
   isBinary : BOOLEAN, isAnnotation : BOOLEAN, coverPage : PictureIds \cup {Hash!NoId},
   cover : PictureIds \cup {Hash!NoId}, images : Seq(PictureIds), annotation : Nat, title : BOOLEAN]

\* The handler is where the document is.
HashFits(p, path) ==
  /\ p \in HashHandlers /\ Len(p.open) = 1 + Depth(path)
  /\ p.isBinary <=> path \in Hash!Binaries
  /\ p.isAnnotation <=> Begins(Hash!Annotation, path)

HashTyped == HashFits(handler, stack) /\ pieces \in 0 .. MaxPieces /\ stopped \in BOOLEAN

LEMMA HashCharactersFit ==
  ASSUME NEW p, NEW path, HashFits(p, path)
  PROVE  LET answer == Hash!HashCharacters(p, path)
         IN answer.go = TRUE /\ HashFits(answer.self, path)
<1> DEFINE Same(q) == /\ q \in HashHandlers /\ Len(q.open) = Len(p.open)
                      /\ q.isBinary = p.isBinary /\ q.isAnnotation = p.isAnnotation
<1>1. p \in HashHandlers
  BY DEF HashFits
<1>2. Same(Hash!DropPicture(p))
  BY <1>1 DEF Hash!DropPicture, HashHandlers
<1>3. ASSUME p.picId # Hash!NoId PROVE Same(Hash!AddPicture(p))
  <2>1. Append(p.images, p.picId) \in Seq(PictureIds)
    BY <1>1, <1>3 DEF HashHandlers
  <2>2. CASE p.picId = p.coverPage
    BY <1>1, <2>2 DEF Hash!AddPicture, HashHandlers
  <2>3. CASE p.picId # p.coverPage
    BY <1>1, <2>1, <2>3 DEF Hash!AddPicture, HashHandlers
  <2>4. QED
    BY <2>2, <2>3
<1>4. Same(Hash!AddWord(p, path))
  <2> DEFINE noted == IF p.isAnnotation THEN [p EXCEPT !.annotation = @ + 1] ELSE p
             up    == Hash!CountUpwards(noted.open)
  <2>1. Same(noted)
    <3>1. PICK k \in Nat : k = p.annotation + 1
      BY <1>1 DEF HashHandlers
    <3>2. noted = [p EXCEPT !.annotation = k] \/ noted = p
      BY <3>1
    <3> HIDE DEF noted
    <3>3. QED
      BY <1>1, <3>2 DEF HashHandlers
  <2>2. Hash!AddWord(p, path) \in {[noted EXCEPT !.title = TRUE], [noted EXCEPT !.open = up], noted}
    <3>1. ~(path = Hash!Title /\ Hash!IsPrefix(Hash!Body, path))
      BY TitleOutside
    <3>2. QED
      BY <3>1 DEF Hash!AddWord
  <2> HIDE DEF noted
  <2>3. up \in Seq(Nat) /\ Len(up) = Len(noted.open)
    <3>1. noted.open \in Seq(Nat)
      BY <2>1 DEF HashHandlers
    <3>2. PICK n \in Nat : n = Len(noted.open) /\ noted.open \in [1 .. n -> Nat]
      BY <3>1
    <3>3. up = [k \in 1 .. n |-> noted.open[k] + 1]
      BY <3>2 DEF Hash!CountUpwards
    <3>4. up \in [1 .. n -> Nat]
      BY <3>2, <3>3
    <3>5. QED
      BY <3>2, <3>4
  <2> HIDE DEF up
  <2>4. Same([noted EXCEPT !.title = TRUE]) /\ Same([noted EXCEPT !.open = up])
    BY <2>1, <2>3 DEF HashHandlers
  <2> HIDE DEF Same
  <2>5. QED
    BY <2>1, <2>2, <2>4
<1>5. PICK q : Hash!HashCharacters(p, path) = [self |-> q, go |-> TRUE] /\ Same(q)
  <2> HIDE DEF Same
  <2>1. QED
    BY <1>2, <1>3, <1>4 DEF Hash!HashCharacters, Hash!True
<1>6. QED
  BY <1>5 DEF HashFits

LEMMA HashFlushFits ==
  ASSUME HashFits(handler, stack)
  PROVE  Hash!Reader!Flushed.go = TRUE /\ HashFits(Hash!Reader!Flushed.self, stack)
<1>1. CASE characters = "text"
  BY <1>1, HashCharactersFit DEF Hash!Reader!Flushed
<1>2. CASE characters # "text"
  BY <1>2 DEF Hash!Reader!Flushed
<1>3. QED
  BY <1>1, <1>2

LEMMA HashNamesAreTags == HashNames \subseteq Tags /\ Seq(HashNames) \subseteq Seq(Tags)
<1>1. HashNames \subseteq Tags
  BY DEF Tags
<1>2. QED
  BY <1>1

LEMMA HashAnnotationPath == Hash!Annotation \in Seq(Tags) /\ "section" \in Tags
<1>1. Hash!Annotation \in Seq(HashNames) /\ "section" \in HashNames
  BY DEF Hash!Annotation, Hash!TitleInfo, HashNames
<1>2. QED
  BY <1>1, HashNamesAreTags

LEMMA HashStartFits ==
  ASSUME NEW p, NEW path \in Seq(Tags), HashFits(p, path), path \notin Hash!Binaries,
         NEW name \in Tags, NEW id \in PictureIds \cup {Hash!NoId}
  PROVE  HashFits(Hash!HashStartElement(p, name, Append(path, name), id).self, Append(path, name))
<1> DEFINE longer == Append(path, name)
           q == Hash!HashStartElement(p, name, longer, id).self
<1>1. /\ longer[Len(longer)] = name
      /\ Depth(longer) = Depth(path) + IF name = "section" THEN 1 ELSE 0
      /\ Depth(path) \in Nat
      /\ Begins(Hash!Annotation, longer) <=> Begins(Hash!Annotation, path) \/ Hash!Annotation = longer
  BY PathLonger, HashAnnotationPath
<1> HIDE DEF longer
<1>2. /\ longer \in Hash!Binaries => name = "binary"
      /\ longer = Hash!Annotation => name = "annotation"
      /\ longer = Hash!CoverpageImage => name = "image"
  BY <1>1, BinaryPath, OtherPaths
<1>3. /\ p \in HashHandlers /\ Len(p.open) = 1 + Depth(path) /\ p.isBinary = FALSE
      /\ p.isAnnotation <=> Begins(Hash!Annotation, path)
  BY DEF HashFits, HashHandlers
<1>4. CASE name = "section"
  <2>1. q = [p EXCEPT !.open = Append(p.open, 0)]
    BY <1>2, <1>4 DEF Hash!HashStartElement, Hash!True
  <2>2. PICK more \in Seq(Nat) : more = Append(p.open, 0) /\ Len(more) = Len(p.open) + 1
    <3>1. p.open \in Seq(Nat)
      BY <1>3 DEF HashHandlers
    <3>2. Append(p.open, 0) \in Seq(Nat) /\ Len(Append(p.open, 0)) = Len(p.open) + 1
      BY <3>1, AppendProperties
    <3>3. QED
      BY <3>2
  <2>3. /\ q \in HashHandlers /\ q.open = more /\ q.isBinary = FALSE
        /\ q.isAnnotation = p.isAnnotation
    BY <1>3, <2>1, <2>2 DEF HashHandlers
  <2>4. Len(q.open) = 1 + Depth(longer)
    BY <1>1, <1>3, <1>4, <2>2, <2>3
  <2>5. QED
    BY <1>1, <1>2, <1>3, <1>4, <2>3, <2>4 DEF HashFits, longer
<1>5. CASE longer \in Hash!Binaries
  <2>1. q = [[p EXCEPT !.isBinary = TRUE] EXCEPT !.picId = id]
    BY <1>2, <1>5 DEF Hash!HashStartElement, Hash!True
  <2>2. /\ q \in HashHandlers /\ q.open = p.open /\ q.isBinary = TRUE
        /\ q.isAnnotation = p.isAnnotation
    BY <1>3, <2>1 DEF HashHandlers
  <2>3. QED
    BY <1>1, <1>2, <1>3, <1>5, <2>2 DEF HashFits, longer
<1>6. CASE longer = Hash!Annotation
  <2>1. q = [p EXCEPT !.isAnnotation = TRUE]
    BY <1>2, <1>6 DEF Hash!HashStartElement, Hash!True
  <2>2. q \in HashHandlers /\ q.open = p.open /\ q.isBinary = FALSE /\ q.isAnnotation = TRUE
    BY <1>3, <2>1 DEF HashHandlers
  <2>3. QED
    BY <1>1, <1>2, <1>3, <1>6, <2>2 DEF HashFits, longer
<1>7. CASE name # "section" /\ longer \notin Hash!Binaries /\ longer # Hash!Annotation
  <2>1. q = [p EXCEPT !.coverPage = id] \/ q = p
    BY <1>7 DEF Hash!HashStartElement, Hash!True
  <2>2. /\ q \in HashHandlers /\ q.open = p.open /\ q.isBinary = FALSE
        /\ q.isAnnotation = p.isAnnotation
    BY <1>3, <2>1 DEF HashHandlers
  <2>3. QED
    BY <1>1, <1>3, <1>7, <2>2 DEF HashFits, longer
<1>8. QED
  BY <1>4, <1>5, <1>6, <1>7 DEF longer

LEMMA HashEndFits ==
  ASSUME NEW p, NEW path \in Seq(Tags), path # <<>>, HashFits(p, path),
         SubSeq(path, 1, Len(path) - 1) \notin Hash!Binaries
  PROVE  HashFits(Hash!HashEndElement(p, path[Len(path)], path).self, SubSeq(path, 1, Len(path) - 1))
<1> DEFINE shorter == SubSeq(path, 1, Len(path) - 1)
           name    == path[Len(path)]
           q == Hash!HashEndElement(p, name, path).self
<1>1. /\ Depth(path) = Depth(shorter) + IF name = "section" THEN 1 ELSE 0
      /\ Depth(shorter) \in Nat
      /\ Begins(Hash!Annotation, path) <=> Begins(Hash!Annotation, shorter) \/ Hash!Annotation = path
      /\ path = Append(shorter, name) /\ shorter \in Seq(Tags) /\ name \in Tags
  BY PathShorter, HashAnnotationPath
<1>2. /\ path \in Hash!Binaries => name = "binary"
      /\ path = Hash!Annotation => name = "annotation"
  BY BinaryPath, OtherPaths
<1>3. /\ p \in HashHandlers /\ Len(p.open) = 1 + Depth(path)
      /\ p.isBinary <=> path \in Hash!Binaries
      /\ p.isAnnotation <=> Begins(Hash!Annotation, path)
  BY DEF HashFits
<1>4. path = Hash!Annotation => ~Begins(Hash!Annotation, shorter)
  <2>1. Len(Append(shorter, name)) = Len(shorter) + 1 /\ Len(shorter) \in Nat
    BY <1>1
  <2> HIDE DEF shorter, name
  <2>2. QED
    BY <1>1, <2>1 DEF Begins
<1>5. shorter \notin Hash!Binaries
  OBVIOUS
<1> HIDE DEF shorter, name
<1>6. CASE path \in Hash!Binaries
  <2>1. q = [p EXCEPT !.isBinary = FALSE]
    BY <1>2, <1>6 DEF Hash!HashEndElement, Hash!True
  <2>2. /\ q \in HashHandlers /\ q.open = p.open /\ q.isBinary = FALSE
        /\ q.isAnnotation = p.isAnnotation
    BY <1>3, <2>1 DEF HashHandlers
  <2>3. QED
    BY <1>1, <1>2, <1>3, <1>5, <1>6, <2>2 DEF HashFits, shorter, name
<1>7. CASE name = "section"
  <2> DEFINE ended == <<Len(p.open) - 1, Hash!Last(p.open)>>
             more  == Append(p.closed, ended)
  <2>1. Hash!ToParent(p.open) = Front(p.open)
    BY DEF Hash!ToParent, Hash!Front, Front
  <2>2. q = [[p EXCEPT !.closed = more] EXCEPT !.open = Front(p.open)]
    BY <1>2, <1>7, <2>1 DEF Hash!HashEndElement, Hash!True
  <2>3. PICK n \in Nat : Len(p.open) = n + 1 /\ n = Depth(path)
    BY <1>1, <1>3, <1>7
  <2>4. p.open[n + 1] \in Nat
    BY <1>3, <2>3 DEF HashHandlers
  <2>5. ended \in Nat \X Nat
    BY <2>3, <2>4 DEF Hash!Last
  <2> HIDE DEF ended
  <2>6. more \in Seq(Nat \X Nat)
    BY <1>3, <2>5 DEF HashHandlers
  <2>7. Front(p.open) \in Seq(Nat) /\ Len(Front(p.open)) = n
    <3>1. p.open \in Seq(Nat)
      BY <1>3 DEF HashHandlers
    <3>2. QED
      BY <2>3, <3>1, FrontOf
  <2> HIDE DEF more
  <2>8. /\ q \in HashHandlers /\ q.open = Front(p.open) /\ q.isBinary = p.isBinary
        /\ q.isAnnotation = p.isAnnotation
    BY <1>3, <2>2, <2>6, <2>7 DEF HashHandlers
  <2>9. Len(q.open) = 1 + Depth(shorter)
    BY <1>1, <1>7, <2>3, <2>7, <2>8
  <2>10. QED
    BY <1>1, <1>2, <1>3, <1>5, <1>7, <2>8, <2>9 DEF HashFits, shorter, name
<1>8. CASE path = Hash!Annotation
  <2>1. q = [p EXCEPT !.isAnnotation = FALSE]
    BY <1>2, <1>8 DEF Hash!HashEndElement, Hash!True
  <2>2. /\ q \in HashHandlers /\ q.open = p.open /\ q.isBinary = p.isBinary
        /\ q.isAnnotation = FALSE
    BY <1>3, <2>1 DEF HashHandlers
  <2>3. QED
    BY <1>1, <1>2, <1>3, <1>4, <1>5, <1>8, <2>2 DEF HashFits, shorter, name
<1>9. CASE path \notin Hash!Binaries /\ name # "section" /\ path # Hash!Annotation
  <2>1. q = p
    BY <1>9 DEF Hash!HashEndElement, Hash!True
  <2>2. QED
    BY <1>1, <1>3, <1>5, <1>9, <2>1 DEF HashFits, shorter, name
<1>10. QED
  BY <1>6, <1>7, <1>8, <1>9 DEF shorter, name

LEMMA HashTypesStep ==
  ASSUME HashInv, HashInv', HashTyped, [Hash!Next]_hashVars
  PROVE  HashTyped'
<1> DEFINE p == Hash!Reader!Flushed.self
<1>1. /\ stack \in Seq(HashNames) /\ stack' \in Seq(HashNames) /\ stack \in Seq(Tags)
      /\ \A k \in 1 .. Len(stack) - 1 : stack[k] # "binary"
      /\ \A k \in 1 .. Len(stack') - 1 : stack'[k] # "binary"
  BY HashNamesAreTags DEF HashInv
<1>2. Hash!Reader!Flushed.go = TRUE /\ HashFits(p, stack) /\ HashFits(handler, stack)
      /\ pieces \in 0 .. MaxPieces /\ MaxPieces \in Nat /\ stopped \in BOOLEAN
  BY HashFlushFits, HashAssumption DEF HashTyped
<1>3. ASSUME UNCHANGED <<handler, stack>>, pieces' \in 0 .. MaxPieces, stopped' \in BOOLEAN
      PROVE  HashTyped'
  <2>1. HashFits(handler', stack')
    BY <1>2, <1>3
  <2>2. QED
    BY <1>3, <2>1 DEF HashTyped
<1>4. ASSUME NEW name \in HashNames, NEW id \in PictureIds \cup {Hash!NoId}, Hash!Start(name, id)
      PROVE  HashTyped'
  <2>1. /\ stack' = Append(stack, name) /\ pieces' = pieces + 1 /\ pieces < MaxPieces
        /\ handler' = Hash!HashStartElement(p, name, stack', id).self
        /\ stopped' \in BOOLEAN
    BY <1>2, <1>4 DEF Hash!Start, Hash!Reader!StartElement, Hash!Reader!Told
  <2>2. stack \notin Hash!Binaries
    <3>1. PICK n \in Nat : n = Len(stack) /\ Len(Append(stack, name)) = n + 1
      BY <1>1, <1>4, AppendProperties
    <3>2. \A k \in 1 .. n : stack[k] # "binary"
      BY <1>1, <1>4, <2>1, <3>1, AppendProperties
    <3>3. QED
      BY <3>1, <3>2, BinaryPath
  <2>3. name \in Tags
    BY HashNamesAreTags
  <2> HIDE DEF p
  <2>4. HashFits(handler', stack')
    BY <1>1, <1>2, <2>1, <2>2, <2>3, HashStartFits
  <2>5. pieces' \in 0 .. MaxPieces
    BY <1>2, <2>1
  <2>6. QED
    BY <2>1, <2>4, <2>5 DEF HashTyped
<1>5. CASE UNCHANGED hashVars
  BY <1>2, <1>3, <1>5 DEF hashVars
<1>6. CASE Hash!StartBook \/ Hash!StartNode \/ Hash!StartBinary \/ Hash!StartImage
  <2>1. \E name \in HashNames, id \in PictureIds \cup {Hash!NoId} : Hash!Start(name, id)
    BY <1>6 DEF Hash!StartBook, Hash!StartNode, Hash!StartBinary, Hash!StartImage, Hash!Children, HashNames
  <2>2. QED
    BY <1>4, <2>1
<1>7. CASE Hash!EndNode
  <2>1. /\ stack # <<>> /\ stack' = SubSeq(stack, 1, Len(stack) - 1) /\ pieces' = pieces
        /\ handler' = [Hash!HashEndElement(p, stack[Len(stack)], stack)
                         EXCEPT !.go = @ /\ Hash!Reader!Flushed.go].self
        /\ stopped' \in BOOLEAN
    BY <1>7 DEF Hash!EndNode, Hash!Reader!EndElement, Hash!Reader!Told, Hash!Reader!Tag
  <2>2. stack' \notin Hash!Binaries
    <3>1. PICK n \in Nat : n + 1 = Len(stack) /\ n = Len(stack) - 1
      BY <1>1, <2>1, EmptySeq
    <3>2. /\ Len(stack') = n /\ \A k \in 1 .. n : stack'[k] = stack[k]
      BY <1>1, <2>1, <3>1
    <3>3. QED
      BY <1>1, <3>1, <3>2, BinaryPath
  <2> HIDE DEF p
  <2>3. Ended(p, stack[Len(stack)], Hash!HashEndElement(p, stack[Len(stack)], stack))
    <3>1. IsHandler(p)
      BY <1>2 DEF HashFits, HashHandlers, IsHandler
    <3>2. QED
      BY <3>1, HashEnds
  <2>4. handler' = Hash!HashEndElement(p, stack[Len(stack)], stack).self
    BY <2>1, <2>3 DEF Ended
  <2>5. HashFits(handler', stack')
    BY <1>1, <1>2, <2>1, <2>2, <2>4, HashEndFits
  <2>6. QED
    BY <1>2, <2>1, <2>5 DEF HashTyped
<1>8. CASE Hash!ReadInstruction
  <2>1. handler' = p /\ stack' = stack /\ pieces' = pieces /\ stopped' \in BOOLEAN
    BY <1>2, <1>8 DEF Hash!ReadInstruction, Hash!Reader!ProcessingInstruction, Hash!Reader!Told,
                      Hash!HashInstruction, Hash!True
  <2> HIDE DEF p
  <2>2. HashFits(handler', stack')
    BY <1>2, <2>1
  <2>3. QED
    BY <1>2, <2>1, <2>2 DEF HashTyped
<1>9. CASE Hash!ReadError
  BY <1>2, <1>3, <1>9 DEF Hash!ReadError, Hash!Reader!Error, Hash!Reader!Told, Hash!HashError
<1>10. CASE Hash!Finished
  BY <1>2, <1>3, <1>10 DEF Hash!Finished, Hash!vars
<1>11. ASSUME NEW read \in {"blank", "text"}, Hash!ReadCharacters(read) PROVE HashTyped'
  <2>1. UNCHANGED <<handler, stack, stopped>> /\ pieces' \in 0 .. MaxPieces
    BY <1>2, <1>11 DEF Hash!ReadCharacters, Hash!Reader!Characters
  <2>2. UNCHANGED <<handler, stack>> /\ stopped' \in BOOLEAN
    BY <1>2, <2>1
  <2>3. QED
    BY <1>3, <2>1, <2>2
<1>12. QED
  BY <1>5, <1>6, <1>7, <1>8, <1>9, <1>10, <1>11 DEF Hash!Next

LEMMA HashTypesBegin == Hash!Init => HashTyped
<1> SUFFICES ASSUME Hash!Init PROVE HashTyped
  OBVIOUS
<1>1. stack = <<>> /\ handler = Hash!Fb2Parser /\ pieces = 0 /\ stopped = FALSE
  BY DEF Hash!Init, Hash!Reader!Init
<1>2. /\ handler \in HashHandlers /\ handler.open = <<0>> /\ handler.isBinary = FALSE
      /\ handler.isAnnotation = FALSE
  BY <1>1 DEF Hash!Fb2Parser, HashHandlers
<1>3. Depth(<<>>) = 0
  <2>1. {i \in DOMAIN <<>> : <<>>[i] = "section"} = {}
    OBVIOUS
  <2>2. QED
    BY <2>1, FS_EmptySet DEF Depth
<1>4. stack \notin Hash!Binaries
  BY <1>1 DEF Hash!Binaries, Hash!Body
<1>5. ~Begins(Hash!Annotation, stack)
  <2>1. Len(Hash!Annotation) # 0 /\ Len(stack) = 0 /\ Len(Hash!Annotation) \in Nat
    BY <1>1 DEF Hash!Annotation, Hash!TitleInfo
  <2>2. QED
    BY <2>1 DEF Begins
<1>6. Len(<<0>>) = 1
  OBVIOUS
<1>7. HashFits(handler, stack)
  <2>1. Len(handler.open) = 1 + Depth(stack)
    BY <1>1, <1>2, <1>3, <1>6
  <2>2. QED
    BY <1>2, <1>4, <1>5, <2>1 DEF HashFits
<1>8. pieces \in 0 .. MaxPieces /\ stopped \in BOOLEAN
  <2>1. MaxPieces \in Nat /\ pieces = 0
    BY <1>1, HashAssumption
  <2>2. stopped \in BOOLEAN
    BY <1>1, Zenon
  <2>3. QED
    BY <2>1, <2>2
<1>9. QED
  BY <1>7, <1>8 DEF HashTyped

LEMMA HashTypeShown == ASSUME HashInv, HashTyped PROVE Hash!TypeOK
<1>1. stack \in Seq(Tags) /\ HashFits(handler, stack)
  BY HashNamesAreTags DEF HashInv, HashTyped
<1>2. Hash!IsPrefix(Hash!Annotation, stack) <=> Begins(Hash!Annotation, stack)
  BY <1>1, HashAnnotationPath, PrefixBegins
<1>3. stack \in Seq(Hash!Names)
  BY DEF HashInv, HashNames, Hash!Names
<1>4. Hash!Cardinality({i \in DOMAIN stack : stack[i] = "section"}) = Depth(stack)
  BY DEF Hash!Cardinality, Cardinality, Depth
<1>5. QED
  BY <1>1, <1>2, <1>3, <1>4 DEF HashInv, HashTyped, HashFits, HashHandlers, Hash!TypeOK

-----------------------------------------------------------------------------
(* The types of HashParserImpl                                               *)

storedVars == <<stack, characters, stopped, handler, pieces, told>>

StoredFiles == HashFiles \cup {""}

StoredHandler(p) ==
  /\ {"data", "current"} \subseteq DOMAIN p
  /\ {"book", "file", "sections"} \subseteq DOMAIN p.data
  /\ p.data.book \in 0 .. MaxHashPieces /\ p.data.file \in StoredFiles
  /\ p.current \in Seq(SectionIds)
  /\ \A k \in 1 .. Len(p.current) : SubSeq(p.current, 1, k) \in DOMAIN p.data.sections

StoredTyped ==
  /\ stack \in Seq(StoredNames) /\ stopped \in BOOLEAN /\ pieces \in 0 .. MaxHashPieces
  /\ StoredHandler(handler)
  /\ ~stopped => Len(handler.current) = Depth(stack)

LEMMA StoredNamesAreTags == StoredNames \subseteq Tags /\ Seq(StoredNames) \subseteq Seq(Tags)
<1>1. StoredNames \subseteq Tags
  BY DEF Tags
<1>2. QED
  BY <1>1

\* What one more element ends in, and what two do.
LEMMA OneMore ==
  ASSUME NEW S, NEW s \in Seq(S), NEW a \in S
  PROVE  /\ Append(s, a) \in Seq(S) /\ Append(s, a) # <<>> /\ Len(Append(s, a)) = Len(s) + 1
         /\ Append(s, a)[Len(s) + 1] = a /\ \A i \in 1 .. Len(s) : Append(s, a)[i] = s[i]
  BY AppendProperties

LEMMA TwoMore ==
  ASSUME NEW S, NEW s \in Seq(S), NEW a \in S, NEW b \in S
  PROVE  /\ s \o <<a, b>> \in Seq(S) /\ Len(s \o <<a, b>>) = Len(s) + 2
         /\ (s \o <<a, b>>)[Len(s \o <<a, b>>)] = b
         /\ (s \o <<a, b>>)[Len(s) + 1] = a
         /\ \A i \in 1 .. Len(s) : (s \o <<a, b>>)[i] = s[i]
<1> DEFINE two == <<a, b>>
<1>1. two \in Seq(S) /\ Len(two) = 2 /\ two[1] = a /\ two[2] = b
  OBVIOUS
<1>2. PICK n \in Nat : n = Len(s)
  OBVIOUS
<1> HIDE DEF two
<1>3. /\ s \o two \in Seq(S) /\ Len(s \o two) = n + 2
      /\ \A i \in 1 .. n + 2 : (s \o two)[i] = IF i <= n THEN s[i] ELSE two[i - n]
  <2>1. /\ s \o two \in Seq(S) /\ Len(s \o two) = Len(s) + Len(two)
        /\ \A i \in 1 .. Len(s) + Len(two) : (s \o two)[i] = IF i <= Len(s) THEN s[i] ELSE two[i - Len(s)]
    BY <1>1, ConcatProperties
  <2>2. QED
    BY <1>1, <1>2, <2>1
<1>4. (s \o two)[n + 1] = a /\ (s \o two)[n + 2] = b /\ \A i \in 1 .. n : (s \o two)[i] = s[i]
  BY <1>1, <1>3
<1>5. QED
  BY <1>2, <1>3, <1>4 DEF two

\* The paths that a book is made of, by what they end in.
LEMMA StoredPaths ==
  ASSUME NEW path
  PROVE  /\ path = Stored!Book => path[Len(path)] = "book" /\ Depth(path) = 0
         /\ path = Stored!Cover => path[Len(path)] = "cover"
         /\ path = Stored!Image => path[Len(path)] = "image"
         /\ path = Stored!Origin => path[Len(path)] = "origin"
         /\ path = Stored!Histogram => path[Len(path)] = "item"
         /\ path = Stored!Annotation => path[Len(path)] = "p"
<1>1. /\ Stored!Book \in Seq(StoredNames) /\ Len(Stored!Book) = 2
      /\ Stored!Book[1] = "books" /\ Stored!Book[2] = "book"
  BY DEF Stored!Book, Stored!Books, StoredNames, Stored!Names
<1>2. Depth(Stored!Book) = 0
  <2>1. {i \in DOMAIN Stored!Book : Stored!Book[i] = "section"} = {}
    BY <1>1
  <2>2. QED
    BY <2>1, FS_EmptySet DEF Depth
<1>3. ASSUME NEW name \in StoredNames
      PROVE  Append(Stored!Book, name)[Len(Append(Stored!Book, name))] = name
  BY <1>1, AppendProperties
<1>4. {"cover", "image", "origin", "histogram", "item", "annotation", "p"} \subseteq StoredNames
  BY DEF StoredNames, Stored!Names
<1>5. /\ Stored!Histogram[Len(Stored!Histogram)] = "item"
      /\ Stored!Annotation[Len(Stored!Annotation)] = "p"
  BY <1>1, <1>4, TwoMore DEF Stored!Histogram, Stored!Annotation
<1>6. QED
  BY <1>1, <1>2, <1>3, <1>4, <1>5 DEF Stored!Cover, Stored!Image, Stored!Origin

LEMMA NoBookTyped ==
  /\ {"book", "file", "sections"} \subseteq DOMAIN Stored!NoBook
  /\ Stored!NoBook.book = 0 /\ Stored!NoBook.file \in StoredFiles
<1>1. PICK empty \in StoredFiles : empty = ""
  BY Zenon DEF StoredFiles
<1>2. PICK cover_, none :
        Stored!NoBook = [book |-> 0, file |-> empty, origin |-> 0, cover |-> cover_, images |-> <<>>,
                         sections |-> none, words |-> <<>>, annotation |-> 0]
  BY <1>1, Zenon DEF Stored!NoBook, Stored!Nothing
<1>3. QED
  BY <1>2

LEMMA StoredCharactersTyped ==
  ASSUME NEW p, NEW path, StoredHandler(p)
  PROVE  LET answer == Stored!OnCharacters(p, path)
         IN answer.go = TRUE /\ StoredHandler(answer.self) /\ answer.self.current = p.current
<1> DEFINE answer == Stored!OnCharacters(p, path)
           q      == answer.self
<1>1. /\ path = Stored!Cover => path[Len(path)] = "cover"
      /\ path = Stored!Image => path[Len(path)] = "image"
      /\ path = Stored!Annotation => path[Len(path)] = "p"
  BY StoredPaths
<1>2. answer.go = TRUE
  BY DEF Stored!OnCharacters, Stored!True
<1>3. \/ \E c : q = [p EXCEPT !.data = [@ EXCEPT !.cover = c]]
      \/ \E c : q = [p EXCEPT !.data = [@ EXCEPT !.images = c]]
      \/ \E c : q = [p EXCEPT !.data = [@ EXCEPT !.annotation = c]]
      \/ q = p
  <2>1. CASE path = Stored!Cover
    BY <1>1, <2>1 DEF Stored!OnCharacters, Stored!True
  <2>2. CASE path = Stored!Image
    BY <1>1, <2>2 DEF Stored!OnCharacters, Stored!True
  <2>3. CASE path = Stored!Annotation
    BY <1>1, <2>3 DEF Stored!OnCharacters, Stored!True
  <2>4. CASE path \notin {Stored!Cover, Stored!Image, Stored!Annotation}
    BY <2>4 DEF Stored!OnCharacters, Stored!True
  <2>5. QED
    BY <2>1, <2>2, <2>3, <2>4
<1> HIDE DEF q
<1>4. /\ DOMAIN q = DOMAIN p /\ DOMAIN q.data = DOMAIN p.data /\ q.current = p.current
      /\ q.data.book = p.data.book /\ q.data.file = p.data.file /\ q.data.sections = p.data.sections
  BY <1>3 DEF StoredHandler
<1>5. QED
  BY <1>2, <1>4 DEF StoredHandler, q

LEMMA StoredStartTyped ==
  ASSUME NEW p, NEW path \in Seq(Tags), StoredHandler(p), Len(p.current) = Depth(path),
         NEW name \in Tags, NEW attribute, attribute.n \in 0 .. MaxHashPieces,
         name = "book" => attribute.id \in StoredFiles,
         name = "section" => attribute.id \in SectionIds
  PROVE  LET answer == Stored!OnStartElement(p, name, Append(path, name), attribute)
         IN /\ answer.go = TRUE /\ StoredHandler(answer.self)
            /\ Len(answer.self.current) = Depth(Append(path, name))
<1> DEFINE longer == Append(path, name)
           answer == Stored!OnStartElement(p, name, longer, attribute)
           q      == answer.self
<1>1. /\ longer[Len(longer)] = name /\ Depth(path) \in Nat
      /\ Depth(longer) = Depth(path) + IF name = "section" THEN 1 ELSE 0
  BY PathLonger
<1> HIDE DEF longer
<1>2. /\ longer = Stored!Book => name = "book" /\ Depth(longer) = 0
      /\ longer = Stored!Cover => name = "cover"
      /\ longer = Stored!Image => name = "image"
      /\ longer = Stored!Origin => name = "origin"
      /\ longer = Stored!Histogram => name = "item"
  BY <1>1, StoredPaths
<1>3. answer.go = TRUE
  BY DEF Stored!OnStartElement, Stored!True
<1>4. CASE longer = Stored!Book
  <2> DEFINE p1 == [p EXCEPT !.data = [@ EXCEPT !.book = attribute.n]]
             p2 == [p1 EXCEPT !.data = [@ EXCEPT !.file = attribute.id]]
             p3 == [p2 EXCEPT !.data = [@ EXCEPT !.sections = Stored!NoBook.sections]]
  <2>1. q = [p3 EXCEPT !.current = <<>>]
    BY <1>2, <1>4 DEF Stored!OnStartElement, Stored!True
  <2>2. /\ DOMAIN p1 = DOMAIN p /\ DOMAIN p1.data = DOMAIN p.data
        /\ p1.data.book = attribute.n
    BY DEF StoredHandler
  <2> HIDE DEF p1
  <2>3. /\ DOMAIN p2 = DOMAIN p /\ DOMAIN p2.data = DOMAIN p.data
        /\ p2.data.book = attribute.n /\ p2.data.file = attribute.id
    BY <2>2 DEF StoredHandler
  <2> HIDE DEF p2
  <2>4. /\ DOMAIN p3 = DOMAIN p /\ DOMAIN p3.data = DOMAIN p.data
        /\ p3.data.book = attribute.n /\ p3.data.file = attribute.id
    BY <2>3 DEF StoredHandler
  <2> HIDE DEF p3, q
  <2>5. /\ DOMAIN q = DOMAIN p /\ DOMAIN q.data = DOMAIN p.data
        /\ q.data.book = attribute.n /\ q.data.file = attribute.id /\ q.current = <<>>
    BY <2>1, <2>4 DEF StoredHandler
  <2>6. q.current \in Seq(SectionIds) /\ Len(q.current) = 0
    BY <2>5
  <2>7. QED
    BY <1>2, <1>3, <1>4, <2>5, <2>6 DEF StoredHandler, q, longer
<1>5. CASE name = "section"
  <2> DEFINE sections_ == Stored!AddSection(p.data.sections, Append(p.current, attribute.id), attribute.n)
             p1 == [p EXCEPT !.data = [@ EXCEPT !.sections = sections_]]
  <2>1. q = [p1 EXCEPT !.current = Append(p.current, attribute.id)]
    BY <1>2, <1>5 DEF Stored!OnStartElement, Stored!True
  <2>2. DOMAIN sections_ = DOMAIN p.data.sections \cup {Append(p.current, attribute.id)}
    BY DEF Stored!AddSection
  <2> HIDE DEF sections_
  <2>3. /\ DOMAIN p1 = DOMAIN p /\ DOMAIN p1.data = DOMAIN p.data
        /\ p1.data.book = p.data.book /\ p1.data.file = p.data.file /\ p1.data.sections = sections_
    BY DEF StoredHandler
  <2> HIDE DEF p1, q
  <2>4. /\ DOMAIN q = DOMAIN p /\ DOMAIN q.data = DOMAIN p.data
        /\ q.data.book = p.data.book /\ q.data.file = p.data.file /\ q.data.sections = sections_
        /\ q.current = Append(p.current, attribute.id)
    BY <2>1, <2>3 DEF StoredHandler
  <2>5. PICK n \in Nat : n = Len(p.current) /\ n = Depth(path)
    BY DEF StoredHandler
  <2>6. /\ q.current \in Seq(SectionIds) /\ Len(q.current) = n + 1
        /\ \A i \in 1 .. n : q.current[i] = p.current[i]
    <3>1. p.current \in Seq(SectionIds) /\ attribute.id \in SectionIds
      BY <1>5 DEF StoredHandler
    <3>2. QED
      BY <2>4, <2>5, <3>1, AppendProperties
  <2>7. ASSUME NEW k \in 1 .. n + 1 PROVE SubSeq(q.current, 1, k) \in DOMAIN q.data.sections
    <3>1. p.current \in Seq(SectionIds)
      BY DEF StoredHandler
    <3>2. CASE k = n + 1
      <4>1. SubSeq(q.current, 1, n + 1) = q.current
        BY <2>6, SameStart
      <4>2. QED
        BY <2>2, <2>4, <3>2, <4>1
    <3>3. CASE k # n + 1
      <4>1. k \in 1 .. n
        BY <3>3
      <4>2. SubSeq(q.current, 1, k) = SubSeq(p.current, 1, k)
        BY <2>5, <2>6, <3>1, <4>1, SameStart
      <4>3. SubSeq(p.current, 1, k) \in DOMAIN p.data.sections
        BY <2>5, <4>1 DEF StoredHandler
      <4>4. QED
        BY <2>2, <2>4, <4>2, <4>3
    <3>4. QED
      BY <3>2, <3>3
  <2>8. QED
    BY <1>1, <1>3, <1>5, <2>4, <2>5, <2>6, <2>7 DEF StoredHandler, q, longer
<1>6. CASE longer # Stored!Book /\ name # "section"
  <2>1. \/ \E c : q = [p EXCEPT !.data = [@ EXCEPT !.origin = c]]
        \/ \E c : q = [p EXCEPT !.data = [@ EXCEPT !.cover = c]]
        \/ \E c : q = [p EXCEPT !.data = [@ EXCEPT !.images = c]]
        \/ \E c : q = [p EXCEPT !.data = [@ EXCEPT !.words = c]]
        \/ q = p
    <3>1. CASE longer = Stored!Origin
      BY <1>2, <1>6, <3>1 DEF Stored!OnStartElement, Stored!True
    <3>2. CASE longer = Stored!Cover
      BY <1>2, <1>6, <3>2 DEF Stored!OnStartElement, Stored!True
    <3>3. CASE longer = Stored!Image
      BY <1>2, <1>6, <3>3 DEF Stored!OnStartElement, Stored!True
    <3>4. CASE longer = Stored!Histogram
      BY <1>2, <1>6, <3>4 DEF Stored!OnStartElement, Stored!True
    <3>5. CASE longer \notin {Stored!Origin, Stored!Cover, Stored!Image, Stored!Histogram}
      BY <1>6, <3>5 DEF Stored!OnStartElement, Stored!True
    <3>6. QED
      BY <3>1, <3>2, <3>3, <3>4, <3>5
  <2> HIDE DEF q
  <2>2. /\ DOMAIN q = DOMAIN p /\ DOMAIN q.data = DOMAIN p.data /\ q.current = p.current
        /\ q.data.book = p.data.book /\ q.data.file = p.data.file /\ q.data.sections = p.data.sections
    BY <2>1 DEF StoredHandler
  <2>3. QED
    BY <1>1, <1>3, <1>6, <2>2 DEF StoredHandler, q, longer
<1>7. QED
  BY <1>4, <1>5, <1>6

LEMMA StoredEndTyped ==
  ASSUME NEW p, NEW path \in Seq(Tags), path # <<>>, StoredHandler(p), Len(p.current) = Depth(path)
  PROVE  LET answer == Stored!OnEndElement(p, path[Len(path)], path)
         IN /\ DOMAIN answer = {"self", "go"} /\ answer.go \in BOOLEAN /\ StoredHandler(answer.self)
            /\ answer.go => Len(answer.self.current) = Depth(SubSeq(path, 1, Len(path) - 1))
<1> DEFINE shorter == SubSeq(path, 1, Len(path) - 1)
           name    == path[Len(path)]
           answer  == Stored!OnEndElement(p, name, path)
           q       == answer.self
<1>1. /\ Depth(path) = Depth(shorter) + IF name = "section" THEN 1 ELSE 0
      /\ Depth(shorter) \in Nat
  BY PathShorter
<1>2. path = Stored!Book => name = "book" /\ Depth(path) = 0
  BY StoredPaths
<1> HIDE DEF shorter, name
<1>3. CASE path = Stored!Book
  <2> DEFINE told_  == Stored!OnBookParsed(p)
             reset_ == [told_.self EXCEPT !.data = Stored!NoBook]
  <2>1. PICK q1 : /\ told_ = [self |-> q1, go |-> TRUE] \/ told_ = [self |-> q1, go |-> FALSE]
                  /\ DOMAIN q1 = DOMAIN p /\ q1.data = p.data /\ q1.current = p.current
    <3>1. CASE p.data.file # WantedFile
      <4>1. told_ = [self |-> [p EXCEPT !.reports = Append(@, p.data)], go |-> TRUE]
        BY <3>1 DEF Stored!OnBookParsed, Stored!True
      <4> DEFINE p1 == [p EXCEPT !.reports = Append(@, p.data)]
      <4>2. DOMAIN p1 = DOMAIN p /\ p1.data = p.data /\ p1.current = p.current
        BY DEF StoredHandler
      <4> HIDE DEF p1, told_
      <4>3. QED
        BY <4>1, <4>2 DEF p1
    <3>2. CASE p.data.file = WantedFile
      <4>1. PICK a, b : told_ = [self |-> [p EXCEPT !.reports = a, !.item = b], go |-> FALSE]
        BY <3>2 DEF Stored!OnBookParsed
      <4> DEFINE p1 == [p EXCEPT !.reports = a]
                 p2 == [p1 EXCEPT !.item = b]
      <4>2. told_ = [self |-> p2, go |-> FALSE]
        BY <4>1
      <4>3. DOMAIN p1 = DOMAIN p /\ p1.data = p.data /\ p1.current = p.current
        BY DEF StoredHandler
      <4> HIDE DEF p1
      <4>4. DOMAIN p2 = DOMAIN p /\ p2.data = p.data /\ p2.current = p.current
        BY <4>3 DEF StoredHandler
      <4> HIDE DEF p2, told_
      <4>5. QED
        BY <4>2, <4>4
    <3>3. QED
      BY <3>1, <3>2
  <2>2. answer = IF told_.go THEN [self |-> [reset_ EXCEPT !.current = <<>>], go |-> TRUE] ELSE told_
    BY <1>3 DEF Stored!OnEndElement, Stored!True, Stored!Reset
  <2> HIDE DEF told_
  <2>3. StoredHandler(q1)
    BY <2>1 DEF StoredHandler
  <2>4. CASE ~told_.go
    <3>1. answer = [self |-> q1, go |-> FALSE]
      BY <2>1, <2>2, <2>4
    <3>2. QED
      BY <2>3, <3>1 DEF shorter, name
  <2>5. CASE told_.go
    <3>1. told_.self = q1 /\ answer = [self |-> [reset_ EXCEPT !.current = <<>>], go |-> TRUE]
      BY <2>1, <2>2, <2>5
    <3>2. DOMAIN reset_ = DOMAIN p /\ reset_.data = Stored!NoBook
      BY <2>1, <3>1 DEF StoredHandler
    <3> HIDE DEF reset_
    <3>3. DOMAIN q = DOMAIN p /\ q.data = Stored!NoBook /\ q.current = <<>>
      BY <3>1, <3>2 DEF StoredHandler
    <3>4. q.current \in Seq(SectionIds) /\ Len(q.current) = 0
      BY <3>3
    <3>5. MaxHashPieces \in Nat
      BY PiecesAssumption
    <3>6. StoredHandler(q)
      BY <3>3, <3>4, <3>5, NoBookTyped DEF StoredHandler
    <3>7. Len(q.current) = Depth(shorter)
      BY <1>1, <1>2, <1>3, <3>4
    <3> HIDE DEF answer
    <3>8. QED
      BY <3>1, <3>6, <3>7 DEF shorter, name, answer
  <2>6. QED
    BY <2>4, <2>5
<1>4. CASE name = "section"
  <2>1. answer = [self |-> [p EXCEPT !.current = Front(@)], go |-> TRUE]
    BY <1>2, <1>4 DEF Stored!OnEndElement, Stored!True, Stored!Front, Front
  <2> DEFINE rest == Front(p.current)
  <2>2. p.current \in Seq(SectionIds)
    BY DEF StoredHandler
  <2>3. PICK n \in Nat : n + 1 = Len(p.current) /\ n = Depth(shorter)
    <3>1. Len(p.current) = Depth(shorter) + 1
      BY <1>1, <1>4
    <3>2. QED
      BY <1>1, <3>1
  <2>4. rest \in Seq(SectionIds) /\ Len(rest) = n /\ \A i \in 1 .. n : rest[i] = p.current[i]
    <3>1. /\ rest \in Seq(SectionIds)
          /\ Len(rest) = IF Len(p.current) = 0 THEN 0 ELSE Len(p.current) - 1
          /\ \A k \in 1 .. Len(p.current) - 1 : rest[k] = p.current[k]
      BY <2>2, FrontOf
    <3> HIDE DEF rest
    <3>2. QED
      BY <2>3, <3>1
  <2> HIDE DEF rest
  <2>5. ASSUME NEW k \in 1 .. n PROVE SubSeq(rest, 1, k) \in DOMAIN p.data.sections
    <3>1. SubSeq(rest, 1, k) = SubSeq(p.current, 1, k)
      BY <2>2, <2>3, <2>4, SameStart
    <3>2. SubSeq(p.current, 1, k) \in DOMAIN p.data.sections
      BY <2>3 DEF StoredHandler
    <3>3. QED
      BY <3>1, <3>2
  <2>6. DOMAIN q = DOMAIN p /\ q.data = p.data /\ q.current = rest
    BY <2>1 DEF StoredHandler, rest
  <2> HIDE DEF q
  <2>7. StoredHandler(q)
    BY <2>4, <2>5, <2>6 DEF StoredHandler
  <2>8. QED
    BY <2>1, <2>3, <2>4, <2>6, <2>7 DEF q, shorter, name
<1>5. CASE path # Stored!Book /\ name # "section"
  <2>1. answer = [self |-> p, go |-> TRUE]
    BY <1>5 DEF Stored!OnEndElement, Stored!True
  <2>2. QED
    BY <1>1, <1>5, <2>1 DEF shorter, name
<1>6. QED
  BY <1>3, <1>4, <1>5 DEF shorter, name

LEMMA StoredTypesBegin == Stored!Init => StoredTyped
<1> SUFFICES ASSUME Stored!Init PROVE StoredTyped
  OBVIOUS
<1>1. stack = <<>> /\ handler = Stored!HashParser /\ pieces = 0 /\ stopped = FALSE
  BY DEF Stored!Init, Stored!Reader!Init
<1>2. /\ {"data", "current"} \subseteq DOMAIN handler
      /\ handler.data = Stored!NoBook /\ handler.current = <<>>
  BY <1>1 DEF Stored!HashParser
<1>3. Depth(<<>>) = 0
  <2>1. {i \in DOMAIN <<>> : <<>>[i] = "section"} = {}
    OBVIOUS
  <2>2. QED
    BY <2>1, FS_EmptySet DEF Depth
<1>4. handler.current \in Seq(SectionIds) /\ Len(handler.current) = 0 /\ stack \in Seq(StoredNames)
  BY <1>1, <1>2
<1>5. MaxHashPieces \in Nat /\ 1 .. 0 = {}
  BY PiecesAssumption
<1>6. StoredHandler(handler)
  <2>1. ASSUME NEW k \in 1 .. Len(handler.current) PROVE FALSE
    BY <1>4, <1>5
  <2>2. handler.data.book \in 0 .. MaxHashPieces
    BY <1>2, <1>5, NoBookTyped
  <2>3. QED
    BY <1>2, <1>4, <2>1, <2>2, NoBookTyped DEF StoredHandler
<1>7. Len(handler.current) = Depth(stack)
  BY <1>1, <1>3, <1>4
<1>8. stopped \in BOOLEAN
  BY <1>1, Zenon
<1>9. pieces \in 0 .. MaxHashPieces
  BY <1>1, <1>5
<1>10. QED
  BY <1>4, <1>6, <1>7, <1>8, <1>9 DEF StoredTyped

LEMMA StoredTypesStep ==
  ASSUME StoredTyped, [Stored!Next]_storedVars
  PROVE  StoredTyped'
<1> DEFINE p == Stored!Reader!Flushed.self
<1>1. /\ stack \in Seq(StoredNames) /\ stopped \in BOOLEAN /\ StoredHandler(handler)
      /\ pieces \in 0 .. MaxHashPieces /\ MaxHashPieces \in Nat /\ stack \in Seq(Tags)
      /\ ~stopped => Len(handler.current) = Depth(stack)
  BY PiecesAssumption, StoredNamesAreTags DEF StoredTyped
<1>2. /\ Stored!Reader!Flushed.go = TRUE /\ StoredHandler(p)
      /\ ~stopped => Len(p.current) = Depth(stack)
  <2>1. CASE characters = "text"
    BY <1>1, <2>1, StoredCharactersTyped DEF Stored!Reader!Flushed
  <2>2. CASE characters # "text"
    BY <1>1, <2>2 DEF Stored!Reader!Flushed
  <2>3. QED
    BY <2>1, <2>2
<1>3. ASSUME UNCHANGED <<stack, handler>>, stopped' \in BOOLEAN, stopped => stopped',
             pieces' \in 0 .. MaxHashPieces
      PROVE  StoredTyped'
  <2>1. StoredHandler(handler') /\ (~stopped' => Len(handler'.current) = Depth(stack'))
    BY <1>1, <1>3
  <2>2. QED
    BY <1>1, <1>3, <2>1 DEF StoredTyped
<1>4. ASSUME NEW name \in StoredNames, NEW id, Stored!Start(name, id),
             name = "book" => id \in StoredFiles, name = "section" => id \in SectionIds
      PROVE  StoredTyped'
  <2> DEFINE attribute == [n |-> pieces + 1, id |-> id]
             answer    == Stored!OnStartElement(p, name, Append(stack, name), attribute)
  <2>1. /\ ~stopped /\ stack' = Append(stack, name) /\ pieces' = pieces + 1 /\ pieces < MaxHashPieces
        /\ handler' = answer.self /\ stopped' \in BOOLEAN
    BY <1>2, <1>4 DEF Stored!Start, Stored!Reader!StartElement, Stored!Reader!Told, Stored!Reader!Going
  <2>2. name \in Tags
    BY StoredNamesAreTags
  <2>3. attribute.n \in 0 .. MaxHashPieces /\ attribute.id = id
    BY <1>1, <2>1
  <2> HIDE DEF p, attribute
  <2>4. StoredHandler(answer.self) /\ Len(answer.self.current) = Depth(Append(stack, name))
    BY <1>1, <1>2, <1>4, <2>1, <2>2, <2>3, StoredStartTyped
  <2> HIDE DEF answer
  <2>5. Append(stack, name) \in Seq(StoredNames)
    BY <1>1, <1>4
  <2>6. pieces' \in 0 .. MaxHashPieces
    BY <1>1, <2>1
  <2>7. StoredHandler(handler') /\ Len(handler'.current) = Depth(stack')
    BY <2>1, <2>4
  <2>8. QED
    BY <2>1, <2>5, <2>6, <2>7 DEF StoredTyped
<1>5. CASE UNCHANGED storedVars
  BY <1>1, <1>3, <1>5 DEF storedVars
<1>6. CASE Stored!StartBooks
  <2>1. "books" \in StoredNames /\ \E id : Stored!Start("books", id)
    BY <1>6, Zenon DEF Stored!StartBooks, StoredNames, Stored!Names
  <2>2. QED
    BY <1>4, <2>1
<1>7. CASE Stored!StartPiece
  <2>1. PICK name \in Stored!Children(Stored!Last(stack)) :
          \E id \in Stored!Attributes(name) : Stored!Start(name, id)
    BY <1>7 DEF Stored!StartPiece
  <2>2. PICK id \in Stored!Attributes(name) : Stored!Start(name, id)
    BY <2>1
  <2>3. name \in StoredNames
    BY DEF Stored!Children, StoredNames, Stored!Names
  <2>4. name = "book" => id \in StoredFiles
    <3>1. name = "book" => id \in HashFiles
      BY Zenon DEF Stored!Attributes
    <3>2. QED
      BY <3>1, Zenon DEF StoredFiles
  <2>5. name = "section" => id \in SectionIds
    <3>1. "section" # "book"
      OBVIOUS
    <3>2. QED
      BY <3>1, Zenon DEF Stored!Attributes
  <2>6. QED
    BY <1>4, <2>2, <2>3, <2>4, <2>5
<1>8. CASE Stored!ReadText
  <2>1. UNCHANGED <<stack, handler, stopped>> /\ pieces' = pieces + 1 /\ pieces < MaxHashPieces
    BY <1>8, Zenon DEF Stored!ReadText, Stored!Reader!Characters
  <2>2. QED
    BY <1>1, <1>3, <2>1
<1>9. CASE Stored!ReadBlank
  BY <1>1, <1>3, <1>9 DEF Stored!ReadBlank, Stored!Reader!Characters
<1>10. CASE Stored!EndPiece
  <2> DEFINE shorter == SubSeq(stack, 1, Len(stack) - 1)
             answer  == Stored!OnEndElement(p, stack[Len(stack)], stack)
  <2>1. /\ ~stopped /\ stack # <<>> /\ stack' = shorter /\ pieces' = pieces
        /\ handler' = [answer EXCEPT !.go = @ /\ Stored!Reader!Flushed.go].self
        /\ stopped' = ~[answer EXCEPT !.go = @ /\ Stored!Reader!Flushed.go].go
    BY <1>10 DEF Stored!EndPiece, Stored!Reader!EndElement, Stored!Reader!Told, Stored!Reader!Tag,
                 Stored!Reader!Going
  <2> HIDE DEF p
  <2>2. /\ DOMAIN answer = {"self", "go"} /\ answer.go \in BOOLEAN /\ StoredHandler(answer.self)
        /\ answer.go => Len(answer.self.current) = Depth(shorter)
    BY <1>1, <1>2, <2>1, StoredEndTyped
  <2>3. shorter \in Seq(StoredNames)
    BY <1>1, <2>1, FrontOf DEF Front
  <2> HIDE DEF answer, shorter
  <2>4. handler' = answer.self /\ stopped' \in BOOLEAN /\ (~stopped' => answer.go)
    BY <1>2, <2>1, <2>2
  <2>5. StoredHandler(handler') /\ (~stopped' => Len(handler'.current) = Depth(stack'))
    BY <2>1, <2>2, <2>4
  <2>6. QED
    BY <1>1, <2>1, <2>3, <2>4, <2>5 DEF StoredTyped
<1>11. CASE Stored!ReadError
  BY <1>1, <1>3, <1>11 DEF Stored!ReadError, Stored!Reader!Error, Stored!Reader!Told, Stored!OnError
<1>12. CASE Stored!Finished
  BY <1>1, <1>3, <1>12 DEF Stored!Finished, Stored!vars
<1>13. QED
  BY <1>5, <1>6, <1>7, <1>8, <1>9, <1>10, <1>11, <1>12 DEF Stored!Next

LEMMA StoredTypeShown == StoredTyped => Stored!TypeOK
<1> SUFFICES ASSUME StoredTyped PROVE Stored!TypeOK
  OBVIOUS
<1>1. handler.current \in Seq(SectionIds)
  BY DEF StoredTyped, StoredHandler
<1>2. handler.current # <<>> => handler.current \in DOMAIN handler.data.sections
  <2>1. PICK n \in Nat : n = Len(handler.current)
    BY <1>1
  <2>2. handler.current # <<>> => n \in 1 .. n
    BY <1>1, <2>1, EmptySeq
  <2>3. SubSeq(handler.current, 1, n) = handler.current
    BY <1>1, <2>1, SameStart
  <2>4. QED
    BY <2>1, <2>2, <2>3 DEF StoredTyped, StoredHandler
<1>3. Stored!Cardinality({i \in DOMAIN stack : stack[i] = "section"}) = Depth(stack)
  BY DEF Stored!Cardinality, Cardinality, Depth
<1>4. stack \in Seq(Stored!Names)
  BY DEF StoredTyped, StoredNames
<1>5. handler.data.book \in 0 .. MaxHashPieces /\ stopped \in BOOLEAN /\ pieces \in 0 .. MaxHashPieces
  BY DEF StoredTyped, StoredHandler
<1>6. handler.data.file \in HashFiles \cup {""}
  BY Zenon DEF StoredTyped, StoredHandler, StoredFiles
<1>7. stopped \/ Len(handler.current) = Stored!Cardinality({i \in DOMAIN stack : stack[i] = "section"})
  BY <1>3 DEF StoredTyped
<1>8. QED
  BY <1>2, <1>4, <1>5, <1>6, <1>7, Zenon DEF Stored!TypeOK

-----------------------------------------------------------------------------
(* The types of the parser of index lines                                    *)

inpxVars == <<stack, characters, stopped, handler, elements, frame, told, withText>>

Authors == [n : 1 .. MaxBookElements, parts : SUBSET Inpx!NameParts]

\* Authors are filled in only after one has been begun.
InpxHandler(p) ==
  /\ {"authors", "insertAuthorMode", "annotationMode"} \subseteq DOMAIN p
  /\ p.authors \in Seq(Authors) /\ p.insertAuthorMode \in BOOLEAN /\ p.annotationMode \in BOOLEAN
  /\ p.insertAuthorMode => p.authors # <<>>

InpxFits(p, path) ==
  /\ InpxHandler(p)
  /\ p.insertAuthorMode => Begins(Inpx!Author, path) \/ Begins(Inpx!AuthorDoc, path)
  /\ p.annotationMode <=> Begins(Inpx!Annotation, path)

InpxTyped ==
  /\ stack \in Seq(InpxNames) /\ elements \in 0 .. MaxBookElements /\ withText \subseteq 1 .. elements
  /\ InpxFits(handler, stack)

LEMMA InpxNamesAreTags == InpxNames \subseteq Tags /\ Seq(InpxNames) \subseteq Seq(Tags)
<1>1. InpxNames \subseteq Tags
  BY DEF Tags
<1>2. QED
  BY <1>1

\* The paths of an author, of the annotation and of the series, and what they and
\* the frame end in.
LEMMA InpxPaths ==
  /\ {Inpx!Author, Inpx!AuthorDoc, Inpx!Annotation} \subseteq Seq(InpxNames) \ {<<>>}
  /\ Inpx!Author # Inpx!AuthorDoc
  /\ \A path :
       /\ path \in {Inpx!Author, Inpx!AuthorDoc} => path[Len(path)] = "author"
       /\ path = Inpx!Annotation => path[Len(path)] = "annotation"
       /\ path = Inpx!Sequence => path[Len(path)] = "sequence"
  /\ \A i \in 1 .. Len(Inpx!Frame) :
       Inpx!Last(Inpx!Frame[i]) \in {"FictionBook", "description", "title-info", "document-info",
                                     "publish-info", "body"}
<1>1. /\ Inpx!Description \in Seq(InpxNames) /\ Len(Inpx!Description) = 2
      /\ Inpx!Description[2] = "description"
  BY DEF Inpx!Description, InpxNames, Inpx!Names
<1>2. {"title-info", "document-info", "publish-info", "author", "annotation", "sequence", "year"}
        \subseteq InpxNames
  BY DEF InpxNames, Inpx!Names
<1>3. /\ Inpx!TitleInfo \in Seq(InpxNames) /\ Len(Inpx!TitleInfo) = 3
      /\ Inpx!TitleInfo[3] = "title-info"
  <2>1. Inpx!TitleInfo = Append(Inpx!Description, "title-info")
    BY DEF Inpx!TitleInfo
  <2>2. /\ Inpx!TitleInfo \in Seq(InpxNames) /\ Len(Inpx!TitleInfo) = Len(Inpx!Description) + 1
        /\ Inpx!TitleInfo[Len(Inpx!Description) + 1] = "title-info"
    BY <1>1, <1>2, <2>1, AppendProperties
  <2>3. QED
    BY <1>1, <2>2
<1>4. ASSUME NEW name \in {"author", "annotation", "sequence"}
      PROVE  LET path == Append(Inpx!TitleInfo, name) IN
             path \in Seq(InpxNames) /\ Len(path) = 4 /\ path[4] = name /\ path[3] = "title-info"
  <2>1. name \in InpxNames
    BY <1>2
  <2>2. PICK t \in Seq(InpxNames) : t = Inpx!TitleInfo /\ Len(t) = 3 /\ t[3] = "title-info"
    BY <1>3
  <2> DEFINE more == Append(t, name)
  <2>3. more \in Seq(InpxNames) /\ Len(more) = Len(t) + 1 /\ more[Len(t) + 1] = name
    BY <2>1, OneMore
  <2>4. \A i \in 1 .. Len(t) : more[i] = t[i]
    BY <2>1, OneMore
  <2> HIDE DEF more
  <2>5. Len(more) = 4 /\ more[4] = name /\ more[3] = "title-info"
    BY <2>2, <2>3, <2>4
  <2>6. QED
    BY <2>2, <2>3, <2>5 DEF more
<1>5. PICK d \in Seq(InpxNames) : d = Inpx!Description /\ Len(d) = 2
  BY <1>1
<1>6. ASSUME NEW a \in InpxNames, NEW b \in InpxNames
      PROVE  /\ d \o <<a, b>> \in Seq(InpxNames) /\ Len(d \o <<a, b>>) = 4
             /\ (d \o <<a, b>>)[4] = b /\ (d \o <<a, b>>)[3] = a
  <2>1. /\ d \o <<a, b>> \in Seq(InpxNames) /\ Len(d \o <<a, b>>) = Len(d) + 2
        /\ (d \o <<a, b>>)[Len(d \o <<a, b>>)] = b /\ (d \o <<a, b>>)[Len(d) + 1] = a
    BY TwoMore
  <2> DEFINE more == d \o <<a, b>>
  <2> HIDE DEF more
  <2>2. QED
    BY <1>5, <2>1 DEF more
<1>7. /\ Inpx!AuthorDoc \in Seq(InpxNames) /\ Len(Inpx!AuthorDoc) = 4
      /\ Inpx!AuthorDoc[4] = "author" /\ Inpx!AuthorDoc[3] = "document-info"
  BY <1>2, <1>5, <1>6 DEF Inpx!AuthorDoc
<1>8. Inpx!Year \in Seq(InpxNames) /\ Len(Inpx!Year) = 4 /\ Inpx!Year[3] = "publish-info"
  BY <1>2, <1>5, <1>6 DEF Inpx!Year
<1>9. ASSUME NEW path, path \in Seq(InpxNames), Len(path) = 4
      PROVE  Inpx!Last(Inpx!Front(path)) = path[3]
  <2>1. Inpx!Front(path) = Front(path)
    BY DEF Inpx!Front, Front
  <2>2. /\ Len(Front(path)) = IF Len(path) = 0 THEN 0 ELSE Len(path) - 1
        /\ \A k \in 1 .. Len(path) - 1 : Front(path)[k] = path[k]
    BY <1>9, FrontOf
  <2>3. Len(Front(path)) = 3 /\ Front(path)[3] = path[3]
    BY <1>9, <2>2
  <2>4. QED
    BY <2>1, <2>3 DEF Inpx!Last
<1>10. ASSUME NEW i \in 1 .. Len(Inpx!Frame)
      PROVE  Inpx!Last(Inpx!Frame[i]) \in {"FictionBook", "description", "title-info", "document-info",
                                           "publish-info", "body"}
  <2>1. PICK a, b : a = Inpx!Front(Inpx!AuthorDoc) /\ b = Inpx!Front(Inpx!Year)
    OBVIOUS
  <2>2. Inpx!Frame = <<<<"FictionBook">>, Inpx!Description, Inpx!TitleInfo, a, b, <<"FictionBook", "body">>>>
    BY <2>1 DEF Inpx!Frame
  <2>3. Inpx!Frame[i] \in {<<"FictionBook">>, Inpx!Description, Inpx!TitleInfo, a, b, <<"FictionBook", "body">>}
    BY <2>2
  <2>4. Inpx!Last(a) = "document-info" /\ Inpx!Last(b) = "publish-info"
    BY <1>7, <1>8, <1>9, <2>1
  <2>5. /\ Inpx!Last(<<"FictionBook">>) = "FictionBook" /\ Inpx!Last(Inpx!Description) = "description"
        /\ Inpx!Last(Inpx!TitleInfo) = "title-info" /\ Inpx!Last(<<"FictionBook", "body">>) = "body"
    BY <1>1, <1>3 DEF Inpx!Last
  <2>6. QED
    BY <2>3, <2>4, <2>5
<1>11. {Inpx!Author, Inpx!AuthorDoc, Inpx!Annotation} \subseteq Seq(InpxNames) \ {<<>>}
  BY <1>4, <1>7 DEF Inpx!Author, Inpx!Annotation
<1>12. /\ Inpx!Author # Inpx!AuthorDoc
       /\ \A path :
            /\ path \in {Inpx!Author, Inpx!AuthorDoc} => path[Len(path)] = "author"
            /\ path = Inpx!Annotation => path[Len(path)] = "annotation"
            /\ path = Inpx!Sequence => path[Len(path)] = "sequence"
  BY <1>4, <1>7 DEF Inpx!Author, Inpx!Annotation, Inpx!Sequence
<1>13. QED
  BY <1>10, <1>11, <1>12

LEMMA InpxPathsTyped ==
  /\ Inpx!Author \in Seq(Tags) /\ Inpx!AuthorDoc \in Seq(Tags) /\ Inpx!Annotation \in Seq(Tags)
  /\ Inpx!Author # <<>> /\ Inpx!AuthorDoc # <<>> /\ Inpx!Annotation # <<>>
  BY InpxPaths, InpxNamesAreTags

\* A handler that differs from another one in nothing that is typed here.
Alike2(q, p) ==
  /\ DOMAIN q = DOMAIN p /\ q.authors = p.authors
  /\ q.insertAuthorMode = p.insertAuthorMode /\ q.annotationMode = p.annotationMode

LEMMA InpxCharactersFit ==
  ASSUME NEW p, NEW path, InpxFits(p, path)
  PROVE  LET answer == Inpx!OnCharacters(p, path) IN answer.go = TRUE /\ InpxFits(answer.self, path)
<1> DEFINE sized == [[p EXCEPT !.annotation = IF p.annotationMode THEN @ + 1 ELSE @] EXCEPT !.size = @ + 1]
           answer == Inpx!OnCharacters(p, path)
           q      == answer.self
<1>1. InpxHandler(p)
  BY DEF InpxFits
<1>2. Alike2(sized, p)
  BY <1>1 DEF InpxHandler, Alike2
<1>3. PICK noted : noted = sized
  OBVIOUS
<1>4. \/ \E c : answer = [self |-> [noted EXCEPT !.genres = c], go |-> TRUE]
      \/ \E c : answer = [self |-> [noted EXCEPT !.fields = c], go |-> TRUE]
      \/ answer = [self |-> noted, go |-> TRUE]
      \/ \E name \in Inpx!NameParts : answer = [self |-> Inpx!ParseName(noted, name), go |-> TRUE]
  <2> DEFINE genre == path = Append(Inpx!TitleInfo, "genre")
             part_ == /\ Inpx!Front(path) \in {Inpx!Author, Inpx!AuthorDoc}
                      /\ Inpx!Last(path) \in Inpx!NameParts
             field == path \in Inpx!Fields
  <2>1. answer = [self |-> CASE genre -> [noted EXCEPT !.genres = @ + 1]
                             [] part_ -> Inpx!ParseName(noted, Inpx!Last(path))
                             [] field -> Inpx!ParseField(noted, path)
                             [] OTHER -> noted, go |-> TRUE]
    BY <1>3 DEF Inpx!OnCharacters, Inpx!True
  <2>2. ~(genre /\ part_) /\ ~(genre /\ field) /\ ~(part_ /\ field)
    <3>1. /\ Inpx!Description \in Seq(Tags) /\ Len(Inpx!Description) = 2
          /\ {"title-info", "publish-info", "year", "genre", "book-title", "lang", "keywords"} \subseteq Tags
      BY DEF Inpx!Description, Tags, InpxNames, Inpx!Names
    <3>2. Inpx!TitleInfo \in Seq(Tags)
      BY <3>1 DEF Inpx!TitleInfo
    <3>3. ASSUME NEW name \in Tags PROVE Inpx!Last(Append(Inpx!TitleInfo, name)) = name
      BY <3>2, AppendProperties DEF Inpx!Last
    <3>4. Inpx!Last(Inpx!Year) = "year"
      BY <3>1, TwoMore DEF Inpx!Year, Inpx!Last
    <3>5. /\ genre => Inpx!Last(path) = "genre"
          /\ field => Inpx!Last(path) \in {"book-title", "lang", "keywords", "year"}
      BY <3>1, <3>3, <3>4 DEF Inpx!Fields
    <3>6. QED
      BY <3>5 DEF Inpx!NameParts
  <2> HIDE DEF genre, part_, field, answer
  <2>3. CASE genre
    BY <2>1, <2>2, <2>3
  <2>4. CASE part_
    <3>1. answer = [self |-> Inpx!ParseName(noted, Inpx!Last(path)), go |-> TRUE]
      BY <2>1, <2>2, <2>4
    <3>2. QED
      BY <2>4, <3>1 DEF part_
  <2>5. CASE field
    <3>1. answer = [self |-> Inpx!ParseField(noted, path), go |-> TRUE]
      BY <2>1, <2>2, <2>5
    <3>2. QED
      BY <3>1 DEF Inpx!ParseField
  <2>6. CASE ~genre /\ ~part_ /\ ~field
    BY <2>1, <2>6
  <2>7. QED
    BY <2>3, <2>4, <2>5, <2>6
<1> HIDE DEF sized
<1>5. InpxFits(noted, path)
  BY <1>2, <1>3 DEF InpxFits, InpxHandler, Alike2
<1> HIDE DEF answer
<1>6. CASE \E name \in Inpx!NameParts : answer = [self |-> Inpx!ParseName(noted, name), go |-> TRUE]
  <2>1. PICK name \in Inpx!NameParts : answer = [self |-> Inpx!ParseName(noted, name), go |-> TRUE]
    BY <1>6
  <2>2. CASE noted.insertAuthorMode = FALSE
    BY <1>5, <2>1, <2>2 DEF Inpx!ParseName, answer
  <2>3. CASE noted.insertAuthorMode = TRUE
    <3> DEFINE a    == noted.authors
               filled == Inpx!WithPart(a[Len(a)], name)
               more == Append(Front(a), filled)
    <3>1. answer.go = TRUE /\ q = [noted EXCEPT !.authors = more]
      BY <2>1, <2>3 DEF Inpx!ParseName, Inpx!Front, Front, Inpx!Last
    <3>2. a \in Seq(Authors) /\ a # <<>>
      BY <1>5, <2>3 DEF InpxFits, InpxHandler
    <3> HIDE DEF a
    <3>3. PICK n \in Nat : Len(a) = n + 1
      BY <3>2, EmptySeq
    <3>4. a[n + 1] \in Authors
      BY <3>2, <3>3
    <3>5. filled \in Authors
      BY <3>3, <3>4 DEF Authors, Inpx!WithPart
    <3>6. Front(a) \in Seq(Authors)
      BY <3>2, FrontOf
    <3>7. more \in Seq(Authors) /\ more # <<>>
      <4> DEFINE front == Front(a)
      <4> HIDE DEF filled, front, Authors
      <4>1. front \in Seq(Authors) /\ filled \in Authors
        BY <3>5, <3>6 DEF front
      <4>2. Append(front, filled) \in Seq(Authors) /\ Append(front, filled) # <<>>
        BY <4>1, OneMore, Zenon
      <4>3. QED
        BY <4>2 DEF front
    <3> HIDE DEF more, q
    <3>8. /\ DOMAIN q = DOMAIN noted /\ q.authors = more
          /\ q.insertAuthorMode = noted.insertAuthorMode /\ q.annotationMode = noted.annotationMode
      BY <1>5, <3>1 DEF InpxFits, InpxHandler
    <3>9. QED
      BY <1>5, <3>1, <3>7, <3>8 DEF InpxFits, InpxHandler, q, answer
  <2>4. QED
    BY <1>5, <2>2, <2>3 DEF InpxFits, InpxHandler, answer
<1>7. CASE \/ \E c : answer = [self |-> [noted EXCEPT !.genres = c], go |-> TRUE]
           \/ \E c : answer = [self |-> [noted EXCEPT !.fields = c], go |-> TRUE]
           \/ answer = [self |-> noted, go |-> TRUE]
  <2>1. answer.go = TRUE /\ Alike2(q, noted)
    BY <1>5, <1>7 DEF InpxFits, InpxHandler, Alike2
  <2> HIDE DEF q
  <2>2. QED
    BY <1>5, <2>1 DEF InpxFits, InpxHandler, Alike2, answer, q
<1>8. QED
  BY <1>4, <1>6, <1>7 DEF answer

LEMMA InpxStartFits ==
  ASSUME NEW p, NEW path \in Seq(Tags), InpxFits(p, path), NEW name \in Tags, NEW attribute,
         name = "author" => attribute.n \in 1 .. MaxBookElements
  PROVE  LET answer == Inpx!OnStartElement(p, name, Append(path, name), attribute)
         IN answer.go = TRUE /\ InpxFits(answer.self, Append(path, name))
<1> DEFINE longer == Append(path, name)
           answer == Inpx!OnStartElement(p, name, longer, attribute)
           q      == answer.self
<1>1. /\ longer[Len(longer)] = name
      /\ \A s \in {Inpx!Author, Inpx!AuthorDoc, Inpx!Annotation} :
           Begins(s, longer) <=> Begins(s, path) \/ s = longer
  BY PathLonger, InpxPathsTyped
<1> HIDE DEF longer
<1>2. /\ longer \in {Inpx!Author, Inpx!AuthorDoc} => name = "author"
      /\ longer = Inpx!Annotation => name = "annotation"
      /\ longer = Inpx!Sequence => name = "sequence"
      /\ Inpx!Author # Inpx!AuthorDoc
  BY <1>1, InpxPaths
<1>3. /\ InpxHandler(p)
      /\ p.insertAuthorMode => Begins(Inpx!Author, path) \/ Begins(Inpx!AuthorDoc, path)
      /\ p.annotationMode <=> Begins(Inpx!Annotation, path)
  BY DEF InpxFits
<1>4. answer.go = TRUE
  BY DEF Inpx!OnStartElement, Inpx!True
<1>5. ASSUME longer \in {Inpx!Author, Inpx!AuthorDoc}, q = Inpx!OnStartElementAuthor(p, attribute)
      PROVE  InpxFits(q, longer)
  <2> DEFINE begun == [n |-> attribute.n, parts |-> {}]
             more  == Append(p.authors, begun)
             p1    == [p EXCEPT !.insertAuthorMode = TRUE]
  <2>1. q = [p1 EXCEPT !.authors = more]
    BY <1>5 DEF Inpx!OnStartElementAuthor
  <2>2. begun \in Authors
    BY <1>2, <1>5 DEF Authors
  <2> HIDE DEF begun
  <2>3. more \in Seq(Authors) /\ more # <<>>
    BY <1>3, <2>2 DEF InpxHandler
  <2> HIDE DEF more
  <2>4. /\ DOMAIN p1 = DOMAIN p /\ p1.insertAuthorMode = TRUE /\ p1.annotationMode = p.annotationMode
    BY <1>3 DEF InpxHandler
  <2> HIDE DEF p1, q
  <2>5. /\ DOMAIN q = DOMAIN p /\ q.authors = more /\ q.insertAuthorMode = TRUE
        /\ q.annotationMode = p.annotationMode
    BY <1>3, <2>1, <2>4 DEF InpxHandler
  <2>6. longer # Inpx!Annotation
    BY <1>2, <1>5
  <2>7. QED
    BY <1>1, <1>3, <1>5, <2>3, <2>5, <2>6 DEF InpxFits, InpxHandler
<1>6. ASSUME longer # Inpx!Annotation, Alike2(q, p) PROVE InpxFits(q, longer)
  <2> HIDE DEF q
  <2>1. QED
    BY <1>1, <1>3, <1>6 DEF InpxFits, InpxHandler, Alike2
<1>7. CASE longer = Inpx!Author
  <2>1. q = Inpx!OnStartElementAuthor(p, attribute)
    BY <1>2, <1>7 DEF Inpx!OnStartElement, Inpx!True
  <2>2. QED
    BY <1>4, <1>5, <1>7, <2>1 DEF longer
<1>8. CASE longer = Inpx!AuthorDoc
  <2>1. q = IF p.authors = <<>> THEN Inpx!OnStartElementAuthor(p, attribute) ELSE p
    BY <1>2, <1>8 DEF Inpx!OnStartElement, Inpx!True, Inpx!OnStartElementAuthorDoc
  <2>2. q = p => Alike2(q, p)
    BY DEF Alike2
  <2>3. longer # Inpx!Annotation
    BY <1>2, <1>8
  <2> HIDE DEF q
  <2>4. QED
    BY <1>4, <1>5, <1>6, <1>8, <2>1, <2>2, <2>3 DEF longer, q
<1>9. CASE longer = Inpx!Annotation
  <2>1. q = [p EXCEPT !.annotationMode = TRUE]
    BY <1>2, <1>9 DEF Inpx!OnStartElement, Inpx!True
  <2>2. /\ DOMAIN q = DOMAIN p /\ q.authors = p.authors /\ q.insertAuthorMode = p.insertAuthorMode
        /\ q.annotationMode = TRUE
    BY <1>3, <2>1 DEF InpxHandler
  <2> HIDE DEF q
  <2>3. InpxFits(q, longer)
    BY <1>1, <1>3, <1>9, <2>2 DEF InpxFits, InpxHandler
  <2>4. QED
    BY <1>4, <2>3 DEF longer, q
<1>10. CASE longer \notin {Inpx!Author, Inpx!AuthorDoc, Inpx!Annotation}
  <2>1. q = Inpx!OnStartElementSequence(p, attribute) \/ q = p
    BY <1>10 DEF Inpx!OnStartElement, Inpx!True
  <2>2. Alike2(q, p)
    BY <1>3, <2>1 DEF Inpx!OnStartElementSequence, Alike2, InpxHandler
  <2> HIDE DEF q
  <2>3. QED
    BY <1>4, <1>6, <1>10, <2>2 DEF longer, q
<1>11. QED
  BY <1>7, <1>8, <1>9, <1>10

LEMMA InpxEndFits ==
  ASSUME NEW p, NEW path \in Seq(Tags), path # <<>>, InpxFits(p, path)
  PROVE  LET answer == Inpx!OnEndElement(p, path[Len(path)], path)
         IN DOMAIN answer = {"self", "go"} /\ InpxFits(answer.self, SubSeq(path, 1, Len(path) - 1))
<1> DEFINE shorter == SubSeq(path, 1, Len(path) - 1)
           name    == path[Len(path)]
           answer  == Inpx!OnEndElement(p, name, path)
           q       == answer.self
<1>1. /\ \A s \in {Inpx!Author, Inpx!AuthorDoc, Inpx!Annotation} :
           Begins(s, path) <=> Begins(s, shorter) \/ s = path
      /\ shorter \in Seq(Tags) /\ name \in Tags /\ path = Append(shorter, name)
  BY PathShorter, InpxPathsTyped
<1>2. /\ path \in {Inpx!Author, Inpx!AuthorDoc} => name = "author"
      /\ path = Inpx!Annotation => name = "annotation"
  BY InpxPaths
<1>3. ~Begins(path, shorter)
  <2>1. Len(Append(shorter, name)) = Len(shorter) + 1 /\ Len(shorter) \in Nat
    BY <1>1
  <2> HIDE DEF shorter, name
  <2>2. QED
    BY <1>1, <2>1 DEF Begins
<1> HIDE DEF shorter, name
<1>4. /\ InpxHandler(p)
      /\ p.insertAuthorMode => Begins(Inpx!Author, path) \/ Begins(Inpx!AuthorDoc, path)
      /\ p.annotationMode <=> Begins(Inpx!Annotation, path)
  BY DEF InpxFits
<1>5. DOMAIN answer = {"self", "go"}
  BY DEF Inpx!OnEndElement, Inpx!True
<1>6. CASE path \in {Inpx!Author, Inpx!AuthorDoc}
  <2>1. q = Inpx!OnEndElementAuthor(p)
    BY <1>2, <1>6 DEF Inpx!OnEndElement, Inpx!True
  <2>2. PICK p1 : /\ p1 = [p EXCEPT !.authors = Front(p.authors)] \/ p1 = p
                  /\ q = [p1 EXCEPT !.insertAuthorMode = FALSE]
    BY <2>1 DEF Inpx!OnEndElementAuthor, Inpx!EndMode, Inpx!Front, Front
  <2>3. Front(p.authors) \in Seq(Authors)
    BY <1>4, FrontOf DEF InpxHandler
  <2>4. /\ DOMAIN p1 = DOMAIN p /\ p1.authors \in Seq(Authors) /\ p1.annotationMode = p.annotationMode
    BY <1>4, <2>2, <2>3 DEF InpxHandler
  <2> HIDE DEF q
  <2>5. /\ DOMAIN q = DOMAIN p /\ q.authors \in Seq(Authors) /\ q.annotationMode = p.annotationMode
        /\ q.insertAuthorMode = FALSE
    BY <1>4, <2>2, <2>4 DEF InpxHandler
  <2>6. path # Inpx!Annotation
    BY <1>2, <1>6
  <2>7. InpxFits(q, shorter)
    BY <1>1, <1>4, <2>5, <2>6 DEF InpxFits, InpxHandler
  <2>8. QED
    BY <1>5, <2>7 DEF q, shorter, name
<1>7. CASE path = Inpx!Annotation
  <2>1. q = [p EXCEPT !.annotationMode = FALSE]
    BY <1>2, <1>7 DEF Inpx!OnEndElement, Inpx!True
  <2>2. /\ DOMAIN q = DOMAIN p /\ q.authors = p.authors /\ q.insertAuthorMode = p.insertAuthorMode
        /\ q.annotationMode = FALSE
    BY <1>4, <2>1 DEF InpxHandler
  <2>3. path \notin {Inpx!Author, Inpx!AuthorDoc}
    BY <1>2, <1>7
  <2> HIDE DEF q
  <2>4. InpxFits(q, shorter)
    BY <1>1, <1>3, <1>4, <1>7, <2>2, <2>3 DEF InpxFits, InpxHandler
  <2>5. QED
    BY <1>5, <2>4 DEF q, shorter, name
<1>8. CASE path \notin {Inpx!Author, Inpx!AuthorDoc, Inpx!Annotation}
  <2>1. q = p
    BY <1>8 DEF Inpx!OnEndElement, Inpx!True
  <2> HIDE DEF q
  <2>2. InpxFits(q, shorter)
    BY <1>1, <1>4, <1>8, <2>1 DEF InpxFits
  <2>3. QED
    BY <1>5, <2>2 DEF q, shorter, name
<1>9. QED
  BY <1>6, <1>7, <1>8

LEMMA InpxTypesBegin == Inpx!Init => InpxTyped
<1> SUFFICES ASSUME Inpx!Init PROVE InpxTyped
  OBVIOUS
<1>1. stack = <<>> /\ handler = Inpx!InpxHandler /\ elements = 0 /\ withText = {}
  BY DEF Inpx!Init, Inpx!Reader!Init
<1>2. /\ {"authors", "insertAuthorMode", "annotationMode"} \subseteq DOMAIN handler
      /\ handler.authors = <<>> /\ handler.insertAuthorMode = FALSE /\ handler.annotationMode = FALSE
  <2>1. PICK empty : Inpx!InpxHandler =
          [authors |-> <<>>, insertAuthorMode |-> FALSE, annotationMode |-> FALSE,
           annotation |-> 0, size |-> 0, genres |-> 0, series |-> 0, seqNumber |-> empty,
           fields |-> {}, error |-> FALSE]
    BY Zenon DEF Inpx!InpxHandler
  <2>2. QED
    BY <1>1, <2>1
<1>3. ~Begins(Inpx!Annotation, <<>>)
  <2>1. Len(Inpx!Annotation) \in Nat /\ Len(Inpx!Annotation) # 0
    BY InpxPathsTyped, EmptySeq
  <2>2. QED
    BY <2>1 DEF Begins
<1>4. handler.authors \in Seq(Authors) /\ stack \in Seq(InpxNames)
  BY <1>1, <1>2
<1>5. InpxFits(handler, stack)
  BY <1>1, <1>2, <1>3, <1>4 DEF InpxFits, InpxHandler
<1>6. elements \in 0 .. MaxBookElements /\ withText \subseteq 1 .. elements
  <2>1. MaxBookElements \in Nat /\ elements = 0 /\ withText = {}
    BY <1>1, PiecesAssumption
  <2>2. QED
    BY <2>1
<1>7. QED
  BY <1>4, <1>5, <1>6 DEF InpxTyped

LEMMA InpxTypesStep ==
  ASSUME InpxTyped, [Inpx!Next]_inpxVars
  PROVE  InpxTyped'
<1> DEFINE p == Inpx!Reader!Flushed.self
<1>1. /\ stack \in Seq(InpxNames) /\ elements \in 0 .. MaxBookElements /\ withText \subseteq 1 .. elements
      /\ InpxFits(handler, stack) /\ MaxBookElements \in Nat /\ stack \in Seq(Tags)
  BY PiecesAssumption, InpxNamesAreTags DEF InpxTyped
<1>2. Inpx!Reader!Flushed.go = TRUE /\ InpxFits(p, stack)
  <2>1. CASE characters = "text"
    BY <1>1, <2>1, InpxCharactersFit DEF Inpx!Reader!Flushed
  <2>2. CASE characters # "text"
    BY <1>1, <2>2 DEF Inpx!Reader!Flushed
  <2>3. QED
    BY <2>1, <2>2
<1>3. ASSUME NEW q, NEW path \in Seq(InpxNames), InpxFits(q, path), handler' = q, stack' = path,
             elements' \in 0 .. MaxBookElements, withText' \subseteq 1 .. elements'
      PROVE  InpxTyped'
  <2>1. InpxFits(handler', stack') /\ stack' \in Seq(InpxNames)
    BY <1>3
  <2>2. QED
    BY <1>3, <2>1 DEF InpxTyped
<1>4. ASSUME NEW name \in InpxNames, NEW attribute, Inpx!Reader!StartElement(name, attribute),
             name = "author" => attribute.n \in 1 .. MaxBookElements,
             elements' \in 0 .. MaxBookElements, withText' \subseteq 1 .. elements'
      PROVE  InpxTyped'
  <2> DEFINE path   == Append(stack, name)
             answer == Inpx!OnStartElement(p, name, path, attribute)
  <2>1. stack' = path /\ handler' = answer.self
    BY <1>2, <1>4 DEF Inpx!Reader!StartElement, Inpx!Reader!Told
  <2>2. name \in Tags
    BY InpxNamesAreTags
  <2> HIDE DEF p
  <2>3. InpxFits(answer.self, path)
    BY <1>1, <1>2, <1>4, <2>2, InpxStartFits
  <2>4. path \in Seq(InpxNames)
    BY <1>1, <1>4
  <2> HIDE DEF answer, path
  <2>5. QED
    BY <1>3, <1>4, <2>1, <2>3, <2>4
<1>5. CASE UNCHANGED inpxVars
  BY <1>1, <1>3, <1>5 DEF inpxVars
<1>6. CASE Inpx!StartFrame
  <2>1. PICK i \in 1 .. Len(Inpx!Frame) :
          \E attribute : Inpx!Reader!StartElement(Inpx!Last(Inpx!Frame[i]), attribute)
    BY <1>6, Zenon DEF Inpx!StartFrame
  <2>2. UNCHANGED <<elements, withText>>
    BY <1>6, Zenon DEF Inpx!StartFrame
  <2>3. Inpx!Last(Inpx!Frame[i]) \in InpxNames /\ Inpx!Last(Inpx!Frame[i]) # "author"
    BY InpxPaths DEF InpxNames, Inpx!Names
  <2>4. QED
    BY <1>1, <1>4, <2>1, <2>2, <2>3
<1>7. CASE Inpx!StartPiece
  <2>1. PICK name \in Inpx!Children(stack), number \in SeqNumbers :
          /\ elements < MaxBookElements
          /\ Inpx!Reader!StartElement(name, [n |-> elements + 1, number |-> number])
          /\ elements' = elements + 1 /\ withText' = withText
    BY <1>7 DEF Inpx!StartPiece
  <2>2. name \in InpxNames
    BY DEF Inpx!Children, InpxNames, Inpx!Names
  <2>3. /\ elements' \in 0 .. MaxBookElements /\ withText' \subseteq 1 .. elements'
        /\ elements + 1 \in 1 .. MaxBookElements
    BY <1>1, <2>1
  <2>4. QED
    BY <1>4, <2>1, <2>2, <2>3
<1>8. CASE Inpx!ReadText
  <2>1. /\ elements > 0 /\ withText' = withText \cup {elements}
        /\ UNCHANGED <<stack, handler, elements>>
    BY <1>8 DEF Inpx!ReadText, Inpx!Reader!Characters
  <2>2. withText' \subseteq 1 .. elements
    BY <1>1, <2>1
  <2>3. QED
    BY <1>1, <1>3, <2>1, <2>2
<1>9. CASE Inpx!EndPiece
  <2> DEFINE shorter == SubSeq(stack, 1, Len(stack) - 1)
             answer  == Inpx!OnEndElement(p, stack[Len(stack)], stack)
  <2>1. /\ stack # <<>> /\ stack' = shorter /\ UNCHANGED <<elements, withText>>
        /\ handler' = [answer EXCEPT !.go = @ /\ Inpx!Reader!Flushed.go].self
    BY <1>9 DEF Inpx!EndPiece, Inpx!Reader!EndElement, Inpx!Reader!Told, Inpx!Reader!Tag
  <2> HIDE DEF p
  <2>2. DOMAIN answer = {"self", "go"} /\ InpxFits(answer.self, shorter)
    BY <1>1, <1>2, <2>1, InpxEndFits
  <2>3. shorter \in Seq(InpxNames)
    BY <1>1, <2>1, FrontOf DEF Front
  <2> HIDE DEF answer, shorter
  <2>4. handler' = answer.self
    BY <2>1, <2>2
  <2>5. QED
    BY <1>1, <1>3, <2>1, <2>2, <2>3, <2>4
<1>10. CASE Inpx!ReadError
  <2> DEFINE q == [handler EXCEPT !.error = TRUE]
  <2>1. handler' = q /\ UNCHANGED <<stack, elements, withText>>
    BY <1>10 DEF Inpx!ReadError, Inpx!Reader!Error, Inpx!Reader!Told, Inpx!OnError
  <2>2. /\ DOMAIN q = DOMAIN handler /\ q.authors = handler.authors
        /\ q.insertAuthorMode = handler.insertAuthorMode /\ q.annotationMode = handler.annotationMode
    BY <1>1 DEF InpxFits, InpxHandler
  <2> HIDE DEF q
  <2>3. InpxFits(q, stack)
    BY <1>1, <2>2 DEF InpxFits, InpxHandler
  <2>4. QED
    BY <1>1, <1>3, <2>1, <2>3
<1>11. CASE Inpx!Finished
  BY <1>1, <1>3, <1>11 DEF Inpx!Finished, Inpx!vars
<1>12. QED
  BY <1>5, <1>6, <1>7, <1>8, <1>9, <1>10, <1>11 DEF Inpx!Next

LEMMA InpxTypeShown == InpxTyped => Inpx!TypeOK
<1> SUFFICES ASSUME InpxTyped PROVE Inpx!TypeOK
  OBVIOUS
<1>1. /\ stack \in Seq(InpxNames) /\ elements \in 0 .. MaxBookElements /\ withText \subseteq 1 .. elements
      /\ handler.authors \in Seq(Authors)
      /\ handler.insertAuthorMode => Begins(Inpx!Author, stack) \/ Begins(Inpx!AuthorDoc, stack)
      /\ handler.annotationMode <=> Begins(Inpx!Annotation, stack)
  BY DEF InpxTyped, InpxFits, InpxHandler
<1>2. \A s \in {Inpx!Author, Inpx!AuthorDoc, Inpx!Annotation} : Inpx!IsPrefix(s, stack) <=> Begins(s, stack)
  BY <1>1, InpxNamesAreTags, InpxPathsTyped, PrefixBegins
<1>3. stack \in Seq(Inpx!Names)
  BY <1>1 DEF InpxNames
<1>4. QED
  BY <1>1, <1>2, <1>3 DEF Inpx!TypeOK, Authors

-----------------------------------------------------------------------------
(* The components side by side                                               *)

PartInv ==
  /\ ArchiveInv /\ ArchiveTyped
  /\ part = "hash"    => HashInv /\ HashTyped
  /\ part = "stored"  => StoredTyped
  /\ part = "inpx"    => InpxTyped
  /\ part = "compare" => CompareInv
  /\ part = "epub"    => EpubInv
  /\ part = "removal" => RemovalInv

LEMMA PartBegins == PartInit => PartInv
<1> SUFFICES ASSUME PartInit PROVE PartInv
  OBVIOUS
<1>1. ArchiveInv /\ ArchiveTyped
  <2>1. CASE Init
    BY <2>1, ArchiveInit, ArchiveTypesBegin
  <2>2. CASE IdleArchive
    <3>1. kind = "none" /\ asked = {} /\ disk = <<>>
      BY <2>2 DEF IdleArchive
    <3>2. DiskInv(<<>>)
      BY DEF DiskInv
    <3>3. QED
      BY <2>2, <3>1, <3>2, ArchiveTypesBegin DEF ArchiveInv
  <2>3. QED
    BY <2>1, <2>2 DEF PartInit, CompareInit
<1>2. part = "hash" => HashInv /\ HashTyped
  <2>1. part = "hash" => Hash!Init
    BY DEF PartInit, CompareInit
  <2>2. QED
    BY <2>1, HashInit, HashTypesBegin
<1>3. part = "removal" => RemovalInv
  <2>1. part = "removal" => Removal!Init
    BY DEF PartInit, CompareInit
  <2>2. QED
    BY <2>1, RemovalInit
<1>4. part = "compare" => CompareInv
  <2>1. part = "compare" => Compare!Init
    BY DEF PartInit, CompareInit
  <2>2. QED
    BY <2>1, CompareBegins
<1>5. part = "epub" => EpubInv
  <2>1. part = "epub" => Epub!Init
    BY DEF PartInit, CompareInit
  <2>2. QED
    BY <2>1, EpubBegins
<1>6. part = "stored" => StoredTyped
  <2>1. part = "stored" => Stored!Init
    BY DEF PartInit, CompareInit
  <2>2. QED
    BY <2>1, StoredTypesBegin
<1>7. part = "inpx" => InpxTyped
  <2>1. part = "inpx" => Inpx!Init
    BY DEF PartInit, CompareInit
  <2>2. QED
    BY <2>1, InpxTypesBegin
<1>8. QED
  BY <1>1, <1>2, <1>3, <1>4, <1>5, <1>6, <1>7 DEF PartInv

\* A step is one of the component picked, or changes nothing of it.
LEMMA StepOfPart ==
  ASSUME [PartNext]_partVars
  PROVE  /\ part' = part
         /\ [Next]_vars
         /\ part = "hash"    => [Hash!Next]_hashVars
         /\ part = "stored"  => [Stored!Next]_storedVars
         /\ part = "inpx"    => [Inpx!Next]_inpxVars
         /\ part = "compare" => [Compare!Next]_compareVars
         /\ part = "epub"    => [Epub!Next]_epubVars
         /\ part = "removal" => [Removal!Next]_removalVars
<1> USE DEF hashVars, removalVars, readerVars, removalOnly, compareVars, compareOnly,
            epubVars, epubOnly, storedVars, inpxVars, inpxOnly
<1>1. CASE UNCHANGED partVars
  BY <1>1 DEF partVars
<1>2. CASE Done
  BY <1>2 DEF Done, partVars
<1>3. CASE part = "archive" /\ Next /\ UNCHANGED part
  BY <1>3
<1>4. CASE part = "hash" /\ Hash!Next /\ UNCHANGED <<part, vars>>
  BY <1>4
<1>5. CASE part = "digest" /\ UNCHANGED <<part, vars>>
  BY <1>5
<1>6. CASE part = "removal" /\ Removal!Next /\ UNCHANGED <<part, vars>>
  BY <1>6
<1>7. CASE part = "compare" /\ Compare!Next /\ UNCHANGED <<part, vars>>
  BY <1>7
<1>8. CASE part = "epub" /\ Epub!Next /\ UNCHANGED <<part, vars>>
  BY <1>8
<1>9. CASE part = "stored" /\ Stored!Next /\ UNCHANGED <<part, vars>>
  BY <1>9
<1>10. CASE part = "inpx" /\ Inpx!Next /\ UNCHANGED <<part, vars>>
  BY <1>10
<1>11. QED
  BY <1>1, <1>2, <1>3, <1>4, <1>5, <1>6, <1>7, <1>8, <1>9, <1>10 DEF PartNext

LEMMA PartSteps == ASSUME PartInv, [PartNext]_partVars PROVE PartInv' /\ RemoveIsExact
<1>1. /\ part' = part /\ [Next]_vars
      /\ part = "hash"    => [Hash!Next]_hashVars
      /\ part = "stored"  => [Stored!Next]_storedVars
      /\ part = "inpx"    => [Inpx!Next]_inpxVars
      /\ part = "compare" => [Compare!Next]_compareVars
      /\ part = "epub"    => [Epub!Next]_epubVars
      /\ part = "removal" => [Removal!Next]_removalVars
  BY StepOfPart
<1>2. ArchiveInv' /\ ArchiveTyped' /\ RemoveIsExact
  BY <1>1, ArchiveStep, ArchiveTypesStep DEF PartInv
<1>3. part = "hash" => HashInv' /\ HashTyped'
  BY <1>1, HashStep, HashTypesStep DEF PartInv
<1>4. part = "removal" => RemovalInv'
  BY <1>1, RemovalStep DEF PartInv
<1>5. part = "compare" => CompareInv'
  BY <1>1, CompareStep DEF PartInv
<1>6. part = "epub" => EpubInv'
  BY <1>1, EpubStep DEF PartInv
<1>7. part = "stored" => StoredTyped'
  BY <1>1, StoredTypesStep DEF PartInv
<1>8. part = "inpx" => InpxTyped'
  BY <1>1, InpxTypesStep DEF PartInv
<1>9. QED
  BY <1>1, <1>2, <1>3, <1>4, <1>5, <1>6, <1>7, <1>8 DEF PartInv

\* What the proofs below rest on.
LEMMA PartInvAlways == PartSpec => []PartInv
<1>1. PartInv /\ [PartNext]_partVars => PartInv'
  BY PartSteps
<1>2. QED
  BY <1>1, PartBegins, PTL DEF PartSpec

\* util/bookhash and the parsers: the variables of each component have their types
\* whatever is read, hashed or compared. Fb2Parser and HashParserImpl are inside
\* exactly the sections that the document has open, and know when they are in a
\* picture or the annotation; Fb2InpxParser fills in an author only inside the
\* element of one.
THEOREM PartTypeCorrect == PartSpec => []PartTypeOK
<1>1. PartInv => PartTypeOK
  BY ArchiveTypeShown, HashTypeShown, StoredTypeShown, InpxTypeShown, CompareTypeShown, EpubShows
  DEF PartInv, PartTypeOK
<1>2. QED
  BY <1>1, PartInvAlways, PTL

\* util/bookhash/hashfb2.cpp, Fb2Parser: in the histogram of each open section,
\* and of the book, every text read inside it is counted once, but for one at
\* most after each picture without data, whatever sections and pictures there are.
THEOREM TextsCountedAlways == PartSpec => []TextsCounted
<1>1. PartInv => TextsCounted
  BY HashShows DEF PartInv, TextsCounted
<1>2. QED
  BY <1>1, PartInvAlways, PTL

\* zip/impl/archive.cpp, CreateFileList and Remove: the list of an object is that
\* of its archive after every step, each name read at its first entry, and
\* Remove() takes away nothing but what it was asked for, of any archive.
THEOREM ArchiveKeptAlways == PartSpec => ArchiveKept
<1>1. PartInv => ListIsTheArchive
  BY ArchiveShows DEF PartInv
<1>2. PartInv /\ [PartNext]_partVars => RemoveIsExact
  BY PartSteps
<1>3. QED
  BY <1>1, <1>2, PartInvAlways, PTL DEF PartSpec, ArchiveKept

\* util/BookUtil.cpp, RemoveFiles: whichever archives there are and
\* whichever books are wanted away, exactly they and their pictures go, unless
\* an archive fails; and then nothing else goes.
THEOREM RemovedExactlyAlways == PartSpec => []RemovedExactly
<1>1. PartInv => RemovedExactly
  BY RemovalShows DEF PartInv, RemovedExactly
<1>2. QED
  BY <1>1, PartInvAlways, PTL

\* util/bookhash/flihash.cpp, Compare: whatever pictures two books have, in
\* whatever order those of equal distance are paired, they are called the same
\* exactly if they look the same, and unless they are called different one of
\* them has, up to similarity, the pictures of the other.
THEOREM VerdictsMeanItAlways == PartSpec => []VerdictsMeanIt
<1>1. PartInv => VerdictsMeanIt
  BY SameShown, IncludesShown DEF PartInv, VerdictsMeanIt
<1>2. QED
  BY <1>1, PartInvAlways, PTL

\* util/EpubParser.cpp: whatever elements a package document has and whatever is in
\* the archive, the cover is the one that the document declares, and every other
\* file comes back once.
THEOREM EpubReadWholeAlways == PartSpec => []EpubReadWhole
<1>1. PartInv => EpubReadWhole
  BY EpubShows DEF PartInv, EpubReadWhole
<1>2. QED
  BY <1>1, PartInvAlways, PTL
=============================================================================
