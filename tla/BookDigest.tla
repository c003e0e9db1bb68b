------------------------------ MODULE BookDigest ------------------------------
(* util/bookhash: what GetHash() makes of an EPUB book and of the archives with   *)
(* covers and pictures next to its own (hashepub.cpp, hashbook.cpp), and how it is *)
(* stored as JSON and read back (flihash.cpp). A digest is what it is computed    *)
(* from; files of the book come in the order of a hash map, which is any.         *)
EXTENDS Integers, Sequences, SequencesExt, FiniteSetsExt, Functions

CONSTANTS
  Words, Length(_),   \* words as numbers, in their order, and how long they are
  TopWords,           \* how many words make the digest of a text: 10
  TextFiles,          \* files of a book that are texts
  Names,              \* names of pictures, all of them numbers
  Book, Other,        \* base names of two books in the archive
  MaxWords            \* bound: words of a file

VARIABLES
  bodies,       \* the book: words of its texts
  own,          \* the book: [cover, images], names of its pictures, 0: no cover
  coversZip,    \* the books that the archive of covers has one for
  imagesZip,    \* what the archive of pictures has, as pairs of a book and a name
  left,         \* the texts still to be read
  hist,         \* the histogram of the book
  md5,          \* what the digest of the whole text is computed from
  sections,     \* hashSections
  item          \* the BookHashItem, <<>> before

inputVars == <<bodies, own, coversZip, imagesZip>>
vars == <<inputVars, left, hist, md5, sections, item>>

NoFile   == 0
NoDigest == <<>>
Empty    == [w \in Words |-> 0]

-------------------------------------------------------------------------------
(* Texts *)

\* CollectHistogram()
Histogram(text) == [w \in Words |-> Cardinality({i \in DOMAIN text : text[i] = w})]

\* HistComparer: longer words first, up to eight letters, then more frequent ones.
Before(h, v, w) ==
  LET Rank(u) == <<Min({Length(u), 8}), h[u], u>>
      a == Rank(v)
      b == Rank(w)
  IN \E i \in 1 .. 3 : a[i] > b[i] /\ \A j \in 1 .. i - 1 : a[j] = b[j]

\* GetHashValues(): the words that come first, with their counts.
HashValues(h) ==
  LET used == {w \in Words : h[w] > 0}
      all  == SetToSortSeq(used, LAMBDA v, w : Before(h, v, w))
      top  == SubSeq(all, 1, Min({TopWords, Len(all)}))
  IN [i \in DOMAIN top |-> [word |-> top[i], count |-> h[top[i]]]]

WordsOf(values) == [i \in DOMAIN values |-> values[i].word]

\* CalculateHash(): it empties the histogram it is given.
CalculateHash(h) ==
  [hash |-> WordsOf(HashValues(h)), count |-> Cardinality({w \in Words : h[w] > 0}),
   size |-> FoldFunction(+, 0, [w \in Words |-> Length(w) * h[w]])]

\* A bug to try: the words are added to those of the book after CalculateHash().
AddCleared(section) == hist

AddTo(section) == [w \in Words |-> hist[w] + section[w]]

\* EpubParserImpl::GetResult(), one text after another.
ReadText(file) ==
  /\ file \in left /\ left' = left \ {file}
  /\ LET section == Histogram(bodies[file])
     IN hist' = AddTo(section) /\ sections' = Append(sections, CalculateHash(section))
  /\ md5' = md5 \o bodies[file]
  /\ UNCHANGED <<inputVars, item>>

-------------------------------------------------------------------------------
(* Pictures. One is named and has a body, which is its digest later on. *)

Picture(from, name) == [file |-> name, hash |-> <<from, name>>]
NoPicture == [file |-> NoFile, hash |-> NoDigest]

\* BookHashItemProvider::Get()
ArchivedCover(file) == IF file \in coversZip THEN Picture("archive", NoFile) ELSE NoPicture
ArchivedImages(file) == {Picture("archive", entry[2]) : entry \in {e \in imagesZip : e[1] = file}}

OwnCover == IF own.cover = NoFile THEN NoPicture ELSE Picture("book", own.cover)
OwnImages == {Picture("book", name) : name \in own.images}

\* By number, not by text.
Sorted(pictures) == SortSeq(pictures, LAMBDA p, q : p.file < q.file)

\* ParseBookHash(): a cover in the book, and pictures in it, stand for all the
\* archives have.
ParseBookHash ==
  /\ left = {} /\ item = <<>>
  /\ \E list \in SetToSeqs(IF OwnImages # {} THEN OwnImages ELSE ArchivedImages(Book)) :
       item' = [file |-> Book,
                cover |-> IF OwnCover # NoPicture THEN OwnCover ELSE ArchivedCover(Book),
                images |-> Sorted(list),
                id |-> md5, hashText |-> CalculateHash(hist).hash,
                hashValues |-> HashValues(hist),
                hashSections |-> <<CalculateHash(hist)>> \o sections]
  /\ UNCHANGED <<inputVars, left, hist, md5, sections>>

-------------------------------------------------------------------------------
(* Stored items. A key that is missing reads as nothing. *)

StoresCover(i) == i.cover.hash # NoDigest

Serialize(i) ==
  [file |-> i.file, id |-> i.id, hash |-> i.hashText, histogram |-> i.hashValues] @@
  (IF StoresCover(i) THEN [cover |-> i.cover.hash] ELSE <<>>) @@
  (IF i.images = <<>> THEN <<>> ELSE [images |-> i.images])

Deserialize(json) ==
  [file |-> json.file, id |-> json.id, hashText |-> json.hash, hashValues |-> json.histogram,
   cover |-> [file |-> NoFile, hash |-> IF "cover" \in DOMAIN json THEN json.cover ELSE NoDigest],
   images |-> IF "images" \in DOMAIN json THEN json.images ELSE <<>>]

-------------------------------------------------------------------------------

Init ==
  /\ bodies \in [TextFiles -> BoundedSeq(Words, MaxWords)]
  /\ own \in [cover : {NoFile} \cup Names, images : SUBSET Names]
  /\ own.cover \notin own.images
  /\ coversZip \in SUBSET {Book, Other}
  /\ imagesZip \in SUBSET ({Book, Other} \X Names)
  /\ left = TextFiles /\ hist = Empty /\ md5 = <<>> /\ sections = <<>> /\ item = <<>>

Next == ParseBookHash \/ \E file \in left : ReadText(file)

Spec == Init /\ [][Next]_vars

-------------------------------------------------------------------------------
(* Properties *)

\* Whatever the order of texts and pictures, the book's words, the digest of them
\* and its list of pictures are the same: the words of all texts together, and
\* pictures by number, all from the book or all from the archive, none of another
\* book. (Its id, the digest of the text in the order in which it was read, is not.)
OrderForgotten ==
  item # <<>> =>
    LET all == [w \in Words |-> FoldFunction(+, 0, [file \in TextFiles |-> Histogram(bodies[file])[w]])]
        names == IF own.images # {} THEN own.images ELSE {n \in Names : <<Book, n>> \in imagesZip}
    IN /\ item.hashValues = HashValues(all) /\ item.hashText = WordsOf(HashValues(all))
       /\ item.hashSections[1].count = Cardinality({w \in Words : all[w] > 0})
       /\ [i \in DOMAIN item.images |-> item.images[i].file] = SetToSortSeq(names, <)
       /\ \A p \in Range(item.images) : p.hash[1] = IF own.images # {} THEN "book" ELSE "archive"

\* What Compare() looks at is the same in an item that was stored and read back.
StoredAlike ==
  item # <<>> =>
    LET back == Deserialize(Serialize(item))
    IN /\ back.cover.hash = item.cover.hash /\ back.images = item.images
       /\ back.hashText = item.hashText /\ back.hashValues = item.hashValues
=============================================================================
