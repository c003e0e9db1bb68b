------------------------------- MODULE SortString -------------------------------
(* util/SortString.cpp: the order of titles and names under the locale of the     *)
(* program. The initial states are any three strings; SetLocale() may change the  *)
(* order under them. A string is empty, or has the kind and the script of its     *)
(* first character and a place among all strings, which is the collator's.        *)
EXTENDS Integers

CONSTANTS Keys,         \* the places of the collator
          MaxWeight     \* stands for std::numeric_limits<int>::max()

VARIABLES locale, lhs, rhs, third

vars == <<locale, lhs, rhs, third>>

Kinds   == {"letter", "number", "symbol", "punctuation", "other"}
Scripts == {"cyrillic", "latin"}
Locales == {"ru", "uk", "en"}
Empty   == [kind |-> "empty", script |-> "none", key |-> 0]
Strings == [kind : Kinds, script : Scripts, key : Keys] \cup {Empty}

\* Marks, letter numbers and separators count as letters; other is what controls,
\* formats and what has no category are.
CATEGORIES == [letter |-> 0, number |-> 2, symbol |-> 4, punctuation |-> 6, other |-> 8]

FixCategory(script) == IF locale \in {"ru", "uk"} /\ script = "cyrillic" THEN 0 ELSE 1

Category(s, emptyStringWeight) ==
  IF s = Empty THEN emptyStringWeight
  ELSE IF CATEGORIES[s.kind] # 0 THEN CATEGORIES[s.kind]
  ELSE FixCategory(s.script)

Compare(s, t, emptyStringWeight) ==
  LET left == Category(s, emptyStringWeight)  right == Category(t, emptyStringWeight) IN
  IF left # right THEN left < right ELSE s.key < t.key

Init == locale = "en" /\ lhs \in Strings /\ rhs \in Strings /\ third \in Strings

SetLocale == locale' \in Locales \ {locale} /\ UNCHANGED <<lhs, rhs, third>>

Next == SetLocale

-----------------------------------------------------------------------------
(* Properties                                                                *)

\* The order of strings is a strict weak order, which sorting needs, wherever
\* empty strings are to go; and words come before numbers, these before all that
\* begins otherwise, and empty strings last unless the caller says otherwise.
OrderIsWeak ==
  /\ \A weight \in 0 .. MaxWeight :
       LET Less(s, t) == Compare(s, t, weight)
           Same(s, t) == ~Less(s, t) /\ ~Less(t, s)
       IN /\ ~(Less(lhs, rhs) /\ Less(rhs, lhs))
          /\ Less(lhs, rhs) /\ Less(rhs, third) => Less(lhs, third)
          /\ Same(lhs, rhs) /\ Same(rhs, third) => Same(lhs, third)
  /\ Compare(lhs, rhs, MaxWeight) =>
       /\ rhs.kind = "letter" => lhs.kind = "letter"
       /\ rhs.kind = "number" => lhs.kind \in {"letter", "number"}
       /\ lhs # Empty
=============================================================================
