----------------------------- MODULE BookCompare -----------------------------
(***************************************************************************)
(* util/bookhash: Compare(), which decides whether two books are the same   *)
(* from the digest of their texts and from their pictures.  A picture has a *)
(* digest and a perceptual hash; pictures of different digest are compared  *)
(* by the Hamming distance of the latter, the closest first.  Equal         *)
(* distances are taken in the order of an unordered_multimap: in any order. *)
(*                                                                         *)
(* A digest is a number and fixes the perceptual hash of the picture, which *)
(* is represented by how many of its lowest bits are set: the distance of   *)
(* two such hashes is the difference of these numbers.  The file name of a  *)
(* picture is its place in the book: ParseBookHash() sorts by file names.   *)
(***************************************************************************)
EXTENDS Integers, Sequences, FiniteSets, FiniteSetsExt

CONSTANTS Digests,   \* digests of pictures: positive numbers
          PHash(_),  \* the perceptual hash of a digest
          Covers,    \* digests of covers
          MaxImages  \* bound: pictures of a book

VARIABLES left, right,  \* the books
          l, r,         \* the iterators of CompareImages()
          lIds, rIds,   \* pictures without an equal one, by place
          phase,        \* what is being compared
          flags         \* the bits of CompareResult

vars == <<left, right, l, r, lIds, rIds, phase, flags>>

NoCover == 0
All     == {"Left", "Right"}

Books == [text : {1, 2}, cover : Covers \cup {NoCover},
          images : UNION {[1 .. n -> Digests] : n \in 0 .. MaxImages}]

Distance(a, b) == IF PHash(a) < PHash(b) THEN PHash(b) - PHash(a) ELSE PHash(a) - PHash(b)

Threshold == 16

FromHammingDistance(d) ==
  CASE d = 0         -> {}
    [] d \in 1 .. Threshold -> {"Images"}
    [] OTHER         -> All

CompareTexts == IF left.text = right.text THEN {} ELSE All

CompareCovers ==
  IF left.cover = right.cover   THEN {}
  ELSE IF left.cover = NoCover  THEN {"Right"}
  ELSE IF right.cover = NoCover THEN {"Left"}
  ELSE FromHammingDistance(Distance(left.cover, right.cover))

-----------------------------------------------------------------------------
(* CompareImages(): a merge of the two lists by digest, as if sorted by it.  *)

Merging == phase = "merge" /\ l <= Len(left.images) /\ r <= Len(right.images)

SkipLeft ==
  /\ Merging /\ left.images[l] < right.images[r]
  /\ l' = l + 1 /\ lIds' = lIds \cup {l}
  /\ UNCHANGED <<left, right, r, rIds, phase, flags>>

SkipRight ==
  /\ Merging /\ left.images[l] > right.images[r]
  /\ r' = r + 1 /\ rIds' = rIds \cup {r}
  /\ UNCHANGED <<left, right, l, lIds, phase, flags>>

Equal ==
  /\ Merging /\ left.images[l] = right.images[r]
  /\ l' = l + 1 /\ r' = r + 1
  /\ UNCHANGED <<left, right, lIds, rIds, phase, flags>>

Rest(ids, it, images) == ids \cup it .. Len(images)

EndMerge ==
  /\ phase = "merge" /\ ~Merging
  /\ lIds' = Rest(lIds, l, left.images)
  /\ rIds' = Rest(rIds, r, right.images)
  /\ phase' = "pair"
  /\ UNCHANGED <<left, right, l, r, flags>>

-----------------------------------------------------------------------------
(* CompareImageHashes()                                                      *)

Between(x, y) == Distance(left.images[x], right.images[y])

Closest(x, y) == \A v \in lIds, w \in rIds : Between(x, y) <= Between(v, w)

Pair(x, y) ==
  /\ phase = "pair"
  /\ x \in lIds /\ y \in rIds
  /\ Closest(x, y)
  /\ lIds' = lIds \ {x} /\ rIds' = rIds \ {y}
  /\ flags' = flags \cup FromHammingDistance(Between(x, y))
  /\ UNCHANGED <<left, right, l, r, phase>>

NotFound ==
  /\ phase = "pair"
  /\ lIds = {} \/ rIds = {}
  /\ flags' = flags \cup (IF lIds # {} THEN {"Left"} ELSE {})
                    \cup (IF rIds # {} THEN {"Right"} ELSE {})
  /\ phase' = "done"
  /\ UNCHANGED <<left, right, l, r, lIds, rIds>>

\* Mutant: the bit of similar pictures is tested before those of different ones.
BitTests ==
  CASE flags = {}          -> "books are the same"
    [] "Images" \in flags -> "books are probably the same"
    [] All = flags        -> "books are different"
    [] OTHER              -> "left probably includes right"

\* The sentence that Compare() ends with; `compareResult | Left' is never zero.
Verdict ==
  CASE flags = {}       -> "books are the same"
    [] flags = {"Images"} -> "books are probably the same"
    [] All \subseteq flags -> "books are different"
    [] OTHER            -> "left probably includes right"

-----------------------------------------------------------------------------
Init ==
  /\ left \in {b \in Books : b.text = 1} /\ right \in Books
  /\ l = 1 /\ r = 1 /\ lIds = {} /\ rIds = {} /\ phase = "merge"
  /\ flags = CompareTexts \cup CompareCovers

Done == phase = "done" /\ UNCHANGED vars

Next ==
  \/ SkipLeft \/ SkipRight \/ Equal \/ EndMerge
  \/ \E x, y \in 1 .. MaxImages : Pair(x, y)
  \/ NotFound
  \/ Done

Spec == Init /\ [][Next]_vars

-----------------------------------------------------------------------------
(* Properties                                                                *)

\* Every variable has its type, and of the pictures that still look for a
\* counterpart in both books, equally many have found one.
TypeOK ==
  /\ left \in Books /\ right \in Books
  /\ l \in 1 .. Len(left.images) + 1 /\ r \in 1 .. Len(right.images) + 1
  /\ lIds \subseteq 1 .. Len(left.images) /\ rIds \subseteq 1 .. Len(right.images)
  /\ phase \in {"merge", "pair", "done"} /\ flags \subseteq All \cup {"Images"}
  /\ phase # "merge" =>
       Len(left.images) - Cardinality(lIds) = Len(right.images) - Cardinality(rIds)

\* How many pictures of a book look like p.
Count(book, p) == Cardinality({k \in DOMAIN book.images : PHash(book.images[k]) = p})

\* Two books are called the same if and only if their texts and covers are and
\* their pictures look the same in some order, although the lists are merged by
\* digest and sorted by name, and whatever the order of equal distances.
SameMeansSame ==
  phase = "done" =>
    (Verdict = "books are the same"
       <=> /\ left.text = right.text
           /\ \/ left.cover = right.cover
              \/ /\ NoCover \notin {left.cover, right.cover}
                 /\ Distance(left.cover, right.cover) = 0
           /\ \A p \in {PHash(d) : d \in Digests} : Count(left, p) = Count(right, p))

\* Every picture of the one book has a picture of its own in the other that
\* looks like it.
Similar(some, more) ==
  \E f \in [DOMAIN some.images -> DOMAIN more.images] :
    \A k, m \in DOMAIN some.images :
      /\ Distance(some.images[k], more.images[f[k]]) <= Threshold
      /\ k # m => f[k] # f[m]

\* Unless books are called different, the texts agree and one of them has all
\* the pictures of the other, or pictures that look like them; and as long as
\* the verdict is that they are the same, exactly these.
IncludesMeansIncludes ==
  phase = "done" /\ Verdict # "books are different" =>
    /\ left.text = right.text
    /\ Similar(left, right) \/ Similar(right, left)
    /\ Verdict # "left probably includes right" => Len(left.images) = Len(right.images)

\* The sentence says which book includes the other, and there is one for each.
IncluderHasMore ==
  phase = "done" /\ Verdict = "left probably includes right" =>
    Len(left.images) > Len(right.images) \/ right.cover = NoCover
=============================================================================
