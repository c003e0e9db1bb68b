------------------------------ MODULE Algorithms ------------------------------
(***************************************************************************)
(* fnd/algorithm.h: CreateRanges() and Intersect() on sorted sequences of    *)
(* integers, and FixSize() of a picture.  The initial states are the inputs; *)
(* the loops of CreateRanges() and Intersect() run side by side on two       *)
(* sequences, the first of which is made into ranges.                        *)
(***************************************************************************)
EXTENDS Integers, Sequences, SequencesExt

CONSTANTS MaxValue, MaxLength,   \* bounds: the elements and the length of the inputs
          MaxSide                \* bound: the sides of a picture

VARIABLES one, other,     \* the inputs
          begin, result,  \* of CreateRanges()
          first1, first2, \* of Intersect()
          answer,         \* what Intersect() returned
          size, max       \* a picture and the side it is to have at most

vars == <<one, other, begin, result, first1, first2, answer, size, max>>

Sorted == {s \in BoundedSeq(1 .. MaxValue, MaxLength) :
             \A i, j \in DOMAIN s : i < j => s[i] <= s[j]}

FollowsLast(v) == v = Last(result)[2]

\* The first element starts a range; a later one lengthens the last range or
\* starts the next.
CreateRange ==
  /\ begin <= Len(one)
  /\ result' = IF result # <<>> /\ FollowsLast(one[begin])
                 THEN [result EXCEPT ![Len(result)] = <<@[1], @[2] + 1>>]
                 ELSE Append(result, <<one[begin], one[begin] + 1>>)
  /\ begin' = begin + 1
  /\ UNCHANGED <<one, other, first1, first2, answer, size, max>>

Intersect ==
  /\ answer = "none"
  /\ IF first1 > Len(one) \/ first2 > Len(other)
       THEN answer' = "false" /\ UNCHANGED <<first1, first2>>
     ELSE IF one[first1] < other[first2]
       THEN first1' = first1 + 1 /\ UNCHANGED <<first2, answer>>
     ELSE IF other[first2] < one[first1]
       THEN first2' = first2 + 1 /\ UNCHANGED <<first1, answer>>
     ELSE answer' = "true" /\ UNCHANGED <<first1, first2>>
  /\ UNCHANGED <<one, other, begin, result, size, max>>

\* FixSize(): the longer side becomes max, in integers.
FixSize(w, h, m) ==
  IF w <= m /\ h <= m THEN <<w, h>>
  ELSE IF w > h THEN <<m, (h * m) \div w>>
  ELSE <<(w * m) \div h, m>>

Init ==
  /\ one \in Sorted /\ other \in Sorted
  /\ begin = 1 /\ result = <<>> /\ first1 = 1 /\ first2 = 1 /\ answer = "none"
  /\ \/ size = <<1, 1>> /\ max = 1
     \/ one = <<>> /\ other = <<>> /\ size \in (1 .. MaxSide) \X (1 .. MaxSide) /\ max \in 1 .. MaxSide

Next == CreateRange \/ Intersect

-----------------------------------------------------------------------------
(* Properties                                                                *)

\* The ranges cover the elements and nothing else, in order; without equal
\* elements no two ranges touch.  Intersect() finds a common element if there is
\* one.  A fixed picture fits, its longer side is as long as it may be, and its
\* shape is kept up to the rounding of one pixel.
AlgorithmsRight ==
  /\ begin > Len(one) =>
       /\ UNION {r[1] .. r[2] - 1 : r \in Range(result)} = Range(one)
       /\ \A i \in 1 .. Len(result) - 1 :
            IF IsInjective(one) THEN result[i][2] < result[i + 1][1] ELSE result[i][1] <= result[i + 1][1]
  /\ answer # "none" => (answer = "true") = (Range(one) \cap Range(other) # {})
  /\ LET w == size[1]  h == size[2]  fixed == FixSize(w, h, max) IN
       IF w <= max /\ h <= max THEN fixed = size
       ELSE /\ Max({fixed[1], fixed[2]}) = max
            /\ w >= h => fixed[2] * w <= h * max /\ h * max < (fixed[2] + 1) * w
            /\ h >= w => fixed[1] * h <= w * max /\ w * max < (fixed[1] + 1) * h
=============================================================================
