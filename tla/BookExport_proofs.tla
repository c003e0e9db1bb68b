-------------------------- MODULE BookExport_proofs --------------------------
(***************************************************************************)
(* What holds of the export of FB2 books for any pictures, any metadata and  *)
(* any settings: first of XmlWriter, whatever is written with it, then of    *)
(* SaxPrinter, in one step of the reader after the other; and of the export  *)
(* of EPUB books for any numbers, pictures and texts.                        *)
(***************************************************************************)
EXTENDS MCBookExport, FiniteSetTheorems, SequenceTheorems, WellFoundedInduction, TLAPS

-----------------------------------------------------------------------------
(* The inductive invariant                                                   *)

Edges   == {"block", "text", "break"}
Outs    == [open : Seq(Names), inTag : BOOLEAN, edge : Edges, sound : BOOLEAN, torn : BOOLEAN]
Writers == [elements : Seq(Names), tagOpened : BOOLEAN, characterDepth : Nat,
            unbreakableCount : Nat, indented : BOOLEAN, out : Outs]

UnbreakableAt(elements) == {i \in DOMAIN elements : elements[i] \in Unbreakable}

\* The members of a writer agree with each other: the counter counts the open
\* elements that must not be broken, the depth of text is that of one of them, and
\* a start tag that is open is that of the last.
WriterOK(w) ==
  /\ w \in Writers
  /\ w.unbreakableCount = Cardinality(UnbreakableAt(w.elements))
  /\ w.characterDepth <= Len(w.elements)
  /\ w.tagOpened => w.elements # <<>>

\* A reader of the output is inside the elements that the writer is inside of.
Tracks(out, elements, tagOpened) ==
  out.sound /\ out.inTag = tagOpened /\ out.open = elements

Faithful(w) == Tracks(w.out, w.elements, w.tagOpened)

\* An element that belongs inside text is inside the one of the depth of text.
TextAround(w) ==
  \A i \in DOMAIN w.elements : w.elements[i] \in Unbreakable => w.characterDepth \in 1 .. i - 1

\* Indentation has not touched text, and what comes next will not make it: a text
\* that has just been written is still in the element of the depth, and where a line
\* has just been broken no text can come.
Joined(w) ==
  /\ Faithful(w) /\ TextAround(w) /\ ~w.out.torn
  /\ w.out.edge = "text" => w.characterDepth # 0
  /\ w.out.edge = "break" => w.elements = <<>>

Images == [isCover : BOOLEAN, body : {"picture", "broken"}]

\* Pictures by name.
Covers == UNION {[names -> Images] : names \in SUBSET Ids}

Printers == [metadata : Metadata, imageProcessing : Processings, writer : Writers,
             covers : Covers, hasError : BOOLEAN, hasProgramUsed : BOOLEAN,
             specialNode : BOOLEAN, recoded : SUBSET Ids, copied : SUBSET Ids, again : BOOLEAN]

\* Binaries are children of the book and have none themselves.
BinaryAlone(path) == \A i \in DOMAIN path : path[i] = "binary" => i = 2 /\ Len(path) = 2

\* The document, which is read to its end if there is no error.
DocumentOK ==
  /\ stack \in Seq(Names) /\ characters \in {"none", "blank", "text"}
  /\ stopped = handler.hasError
  /\ phase \in {"before", "inside", "after", "done"}
  /\ phase \in {"before", "after"} \/ (phase = "done" /\ ~stopped) => stack = <<>>
  /\ phase = "inside" => stack # <<>> /\ stack[1] = "FictionBook"
  /\ BinaryAlone(stack)
  /\ book \in [textAt : Nat, marked : BOOLEAN, loose : BOOLEAN]

\* The pictures still to be written are those given that have not been written, and
\* a binary is copied only when there are none.
PicturesRight(p, known, coming) ==
  /\ DOMAIN p.covers \subseteq DOMAIN known
  /\ \A id \in DOMAIN p.covers : p.covers[id] = known[id]
  /\ p.recoded = {id \in DOMAIN known \ DOMAIN p.covers : Recodes(known[id], p.imageProcessing)}
  /\ p.copied # {} => DOMAIN p.covers = {}
  /\ coming \cap (p.recoded \cup p.copied) = {}
  /\ ~p.again

PicturesOK ==
  /\ given \in Covers /\ left \subseteq Ids
  /\ PicturesRight(handler, given, left)
  /\ phase = "after" \/ (phase = "done" /\ ~stopped) => DOMAIN handler.covers = {}

WriterInStep ==
  /\ WriterOK(handler.writer)
  /\ book.marked \/ Faithful(handler.writer)
  /\ book.marked \/ book.loose \/ Joined(handler.writer)

\* Unless characters are still to be given to it, the writer knows how deep the
\* outermost open element with text is, or that text is in what is left out.
TextOf(p, s, at) ==
  /\ at \in 0 .. Len(s)
  /\ p.writer.characterDepth # 0 => at = p.writer.characterDepth
  /\ p.writer.characterDepth = 0 /\ at # 0 => p.specialNode /\ Len(p.writer.elements) < at

TextKnown ==
  IF handler.specialNode \/ handler.writer.characterDepth # 0 \/ characters # "text"
  THEN TextOf(handler, stack, book.textAt) /\ (characters = "text" => book.textAt # 0)
  ELSE book.textAt = Len(stack) /\ book.textAt # 0

Inv == handler \in Printers /\ DocumentOK /\ PicturesOK /\ WriterInStep /\ InStep /\ TextKnown

-----------------------------------------------------------------------------
(* XmlWriter                                                                 *)

\* What taking the last element off a sequence leaves.
LEMMA PopProperties ==
  ASSUME NEW S, NEW s \in Seq(S), s # <<>>
  PROVE  /\ Len(s) \in Nat \ {0} /\ DOMAIN s = 1 .. Len(s)
         /\ Top(s) = s[Len(s)] /\ Top(s) \in S
         /\ Pop(s) \in Seq(S) /\ Len(Pop(s)) = Len(s) - 1
         /\ DOMAIN Pop(s) = 1 .. Len(s) - 1
         /\ \A i \in DOMAIN Pop(s) : Pop(s)[i] = s[i]
<1>1. Len(s) \in Nat /\ Len(s) # 0 /\ DOMAIN s = 1 .. Len(s)
  BY LenProperties, EmptySeq
<1>2. PICK n \in Nat : Len(s) = n + 1
  <2>1. Len(s) - 1 \in Nat /\ Len(s) = (Len(s) - 1) + 1
    BY <1>1
  <2> QED BY <2>1
<1>3. Pop(s) = SubSeq(s, 1, n) /\ Top(s) = s[n + 1]
  BY <1>1, <1>2 DEF Pop, Top
<1>4. \A i \in 1 .. n + 1 : s[i] \in S
  BY <1>1, <1>2, ElementOfSeq
<1>5. /\ SubSeq(s, 1, n) \in Seq(S)
      /\ Len(SubSeq(s, 1, n)) = IF 1 <= n THEN n - 1 + 1 ELSE 0
      /\ \A i \in 1 .. n - 1 + 1 : SubSeq(s, 1, n)[i] = s[1 + i - 1]
  BY <1>2, <1>4, SubSeqProperties
<1>6. Len(SubSeq(s, 1, n)) = n
  BY <1>2, <1>5
<1>7. DOMAIN SubSeq(s, 1, n) = 1 .. n
  BY <1>5, <1>6, LenProperties
<1>8. \A i \in 1 .. n : SubSeq(s, 1, n)[i] = s[i]
  BY <1>2, <1>5
<1>9. Len(s) - 1 = n /\ Len(s) \in Nat \ {0}
  BY <1>1, <1>2
<1> QED BY <1>1, <1>2, <1>3, <1>4, <1>5, <1>6, <1>7, <1>8, <1>9

\* A name of our own for Append(), whose properties are cited as they are stated
\* here: what it leaves and what it adds.
Push(s, e) == Append(s, e)

LEMMA PushTyped ==
  ASSUME NEW S, NEW s \in Seq(S), NEW e \in S
  PROVE  Push(s, e) \in Seq(S) /\ Push(s, e) # <<>>
BY AppendProperties DEF Push

LEMMA PushProperties ==
  ASSUME NEW S, NEW s \in Seq(S), NEW e \in S
  PROVE  /\ Len(s) \in Nat /\ DOMAIN s = 1 .. Len(s)
         /\ DOMAIN Push(s, e) = 1 .. Len(s) + 1 /\ Len(Push(s, e)) = Len(s) + 1
         /\ \A i \in DOMAIN s : Push(s, e)[i] = s[i]
         /\ Push(s, e)[Len(s) + 1] = e /\ Top(Push(s, e)) = e
         /\ Pop(Push(s, e)) = s
<1> DEFINE t == Push(s, e)
<1>1. Len(s) \in Nat /\ DOMAIN s = 1 .. Len(s)
  BY LenProperties
<1>2. /\ t \in Seq(S) /\ t # <<>> /\ Len(t) = Len(s) + 1
      /\ \A i \in 1 .. Len(s) : t[i] = s[i]
      /\ t[Len(s) + 1] = e
  BY AppendProperties DEF Push
<1> HIDE DEF t
<1>3. DOMAIN t = 1 .. Len(s) + 1
  BY <1>2, LenProperties
<1>4. /\ Pop(t) \in Seq(S) /\ Len(Pop(t)) = Len(t) - 1
      /\ DOMAIN Pop(t) = 1 .. Len(t) - 1
      /\ \A i \in DOMAIN Pop(t) : Pop(t)[i] = t[i]
  BY <1>2, PopProperties
<1>5. Len(Pop(t)) = Len(s)
  BY <1>1, <1>2, <1>4
<1>6. \A i \in 1 .. Len(s) : Pop(t)[i] = s[i]
  BY <1>1, <1>2, <1>4
<1>7. Pop(t) = s
  BY <1>1, <1>4, <1>5, <1>6, SeqEqual
<1>8. Top(t) = e
  BY <1>2 DEF Top
<1> QED BY <1>1, <1>2, <1>3, <1>7, <1>8 DEF t

\* A sequence is its last element after the others.
LEMMA PopThenPush ==
  ASSUME NEW S, NEW s \in Seq(S), s # <<>>
  PROVE  Pop(s) \in Seq(S) /\ Top(s) \in S /\ s = Push(Pop(s), Top(s))
<1>1. /\ Pop(s) \in Seq(S) /\ Top(s) \in S /\ Top(s) = s[Len(s)]
      /\ Len(s) \in Nat \ {0} /\ Len(Pop(s)) = Len(s) - 1
      /\ DOMAIN Pop(s) = 1 .. Len(s) - 1
      /\ \A i \in DOMAIN Pop(s) : Pop(s)[i] = s[i]
  BY PopProperties
<1> DEFINE t == Push(Pop(s), Top(s))
<1>3. /\ t \in Seq(S) /\ Len(t) = Len(Pop(s)) + 1
      /\ \A i \in DOMAIN Pop(s) : t[i] = Pop(s)[i]
      /\ t[Len(Pop(s)) + 1] = Top(s)
  <2>1. t \in Seq(S)
    BY <1>1, PushTyped
  <2> QED BY <1>1, <2>1, PushProperties
<1> HIDE DEF t
<1>4. Len(t) = Len(s) /\ Len(Pop(s)) + 1 = Len(s)
  BY <1>1, <1>3
<1>5. ASSUME NEW i \in 1 .. Len(s)
      PROVE  t[i] = s[i]
  <2>1. CASE i = Len(s)
    BY <1>1, <1>3, <1>4, <2>1
  <2>2. CASE i # Len(s)
    <3>1. i \in DOMAIN Pop(s)
      BY <1>1, <2>2
    <3> QED BY <1>1, <1>3, <3>1
  <2> QED BY <2>1, <2>2
<1>6. t = s
  BY <1>3, <1>4, <1>5, SeqEqual
<1> QED BY <1>1, <1>6 DEF t

\* What the counter of unbreakable elements counts, as elements open and close.
LEMMA UnbreakableCounted ==
  ASSUME NEW elements \in Seq(Names)
  PROVE  /\ Cardinality(UnbreakableAt(elements)) \in Nat
         /\ Cardinality(UnbreakableAt(elements)) = 0 => UnbreakableAt(elements) = {}
         /\ \A name \in Names :
              Cardinality(UnbreakableAt(Push(elements, name))) =
                Cardinality(UnbreakableAt(elements)) + One(name)
         /\ elements # <<>> =>
              Cardinality(UnbreakableAt(Pop(elements))) =
                Cardinality(UnbreakableAt(elements)) - One(Top(elements))
<1>1. ASSUME NEW s \in Seq(Names)
      PROVE  IsFiniteSet(UnbreakableAt(s)) /\ Cardinality(UnbreakableAt(s)) \in Nat
  <2>1. Len(s) \in Nat /\ DOMAIN s = 1 .. Len(s)
    BY LenProperties
  <2>2. IsFiniteSet(1 .. Len(s))
    BY <2>1, FS_Interval
  <2>3. UnbreakableAt(s) \subseteq 1 .. Len(s)
    BY <2>1 DEF UnbreakableAt
  <2>4. IsFiniteSet(UnbreakableAt(s))
    BY <2>2, <2>3, FS_Subset
  <2> QED BY <2>4, FS_CardinalityType
<1>2. Cardinality(UnbreakableAt(elements)) = 0 => UnbreakableAt(elements) = {}
  BY <1>1, FS_EmptySet
<1>3. ASSUME NEW s \in Seq(Names), NEW name \in Names
      PROVE  Cardinality(UnbreakableAt(Push(s, name))) = Cardinality(UnbreakableAt(s)) + One(name)
  <2> DEFINE longer == Push(s, name)
  <2>1. /\ Len(s) \in Nat /\ DOMAIN s = 1 .. Len(s)
        /\ DOMAIN longer = 1 .. Len(s) + 1
        /\ \A i \in DOMAIN s : longer[i] = s[i]
        /\ longer[Len(s) + 1] = name
    BY PushProperties
  <2> HIDE DEF longer
  <2>2. UnbreakableAt(s) \subseteq 1 .. Len(s) /\ Len(s) + 1 \notin UnbreakableAt(s)
    BY <2>1 DEF UnbreakableAt
  <2>3. CASE name \in Unbreakable
    <3>1. UnbreakableAt(longer) = UnbreakableAt(s) \cup {Len(s) + 1}
      BY <2>1, <2>3 DEF UnbreakableAt
    <3>2. Cardinality(UnbreakableAt(s) \cup {Len(s) + 1}) = Cardinality(UnbreakableAt(s)) + 1
      BY <1>1, <2>2, FS_AddElement
    <3> QED BY <2>3, <3>1, <3>2 DEF One, longer
  <2>4. CASE name \notin Unbreakable
    <3>1. UnbreakableAt(longer) = UnbreakableAt(s)
      BY <2>1, <2>4 DEF UnbreakableAt
    <3> QED BY <1>1, <2>4, <3>1 DEF One, longer
  <2> QED BY <2>3, <2>4
<1>4. ASSUME elements # <<>>
      PROVE  Cardinality(UnbreakableAt(Pop(elements))) =
               Cardinality(UnbreakableAt(elements)) - One(Top(elements))
  <2>1. /\ Pop(elements) \in Seq(Names) /\ Top(elements) \in Names
        /\ elements = Push(Pop(elements), Top(elements))
    BY <1>4, PopThenPush
  <2>2. Cardinality(UnbreakableAt(elements)) =
          Cardinality(UnbreakableAt(Pop(elements))) + One(Top(elements))
    BY <1>3, <2>1
  <2>3. Cardinality(UnbreakableAt(Pop(elements))) \in Nat /\ One(Top(elements)) \in Nat
    BY <1>1, <2>1 DEF One
  <2> QED BY <2>2, <2>3
<1> QED BY <1>1, <1>2, <1>3, <1>4

\* What a reader makes of a token is again a state of a reader.
LEMMA ReadsTyped ==
  ASSUME NEW out \in Outs, NEW token, NEW name, token = "start" => name \in Names
  PROVE  Reads(out, token, name) \in Outs
<1>1. /\ out.open \in Seq(Names) /\ out.inTag \in BOOLEAN /\ out.edge \in Edges
      /\ out.sound \in BOOLEAN /\ out.torn \in BOOLEAN
  BY DEF Outs
<1>2. Spoiled \in Outs
  <2>1. <<>> \in Seq(Names)
    BY EmptySeq
  <2> QED BY <2>1 DEF Spoiled, Nothing, Outs, Edges
<1>3. InTag(out.inTag, token) \in BOOLEAN
  BY <1>1 DEF InTag
<1>4. Opened(out.open, token, name) \in Seq(Names)
  <2>1. ASSUME token = "start"
        PROVE  Append(out.open, name) \in Seq(Names)
    BY <1>1, <2>1, AppendProperties
  <2>2. ASSUME out.open # <<>>
        PROVE  Pop(out.open) \in Seq(Names)
    BY <1>1, <2>2, PopProperties
  <2> QED BY <1>1, <2>1, <2>2 DEF Opened
<1>5. Edge(out, token, name) \in Edges
  BY <1>1 DEF Edge, Edges
<1>6. (out.torn \/ Tears(out.edge, token)) \in BOOLEAN
  OBVIOUS
<1> QED BY <1>2, <1>3, <1>4, <1>5, <1>6 DEF Reads, Outs

-----------------------------------------------------------------------------
(* One token more, as a reader of sound output sees it.                      *)

\* The tokens of a start tag.
LEMMA TagTokens ==
  ASSUME NEW out, NEW elements, Tracks(out, elements, TRUE), NEW token \in {">", "attr"}
  PROVE  LET read == Reads(out, token, Unnamed)
         IN  /\ Tracks(read, elements, token = "attr")
             /\ read.edge = out.edge /\ (read.torn <=> out.torn)
BY DEF Tracks, Reads, Legal, Opened, InTag, Edge, Tears

\* Indentation, an instruction and text, which open and close nothing.
LEMMA LooseTokens ==
  ASSUME NEW out, NEW elements, Tracks(out, elements, FALSE), NEW token \in {"break", "pi", "text"}
  PROVE  LET read == Reads(out, token, Unnamed)
         IN  /\ Tracks(read, elements, FALSE)
             /\ read.edge = IF token = "pi" THEN out.edge ELSE token
             /\ read.torn <=> out.torn \/ Tears(out.edge, token)
BY DEF Tracks, Reads, Legal, Opened, InTag, Edge

\* An element more.
LEMMA StartToken ==
  ASSUME NEW out, NEW elements, NEW name, Tracks(out, elements, FALSE)
  PROVE  LET read == Reads(out, "start", name)
         IN  /\ Tracks(read, Push(elements, name), TRUE)
             /\ read.edge = IF name \in Unbreakable THEN out.edge ELSE "block"
             /\ read.torn <=> out.torn
BY DEF Tracks, Reads, Legal, Opened, InTag, Edge, Tears, Push

\* The last element ends.
LEMMA EndTokens ==
  ASSUME NEW out, NEW elements, elements # <<>>, NEW tagOpened, Tracks(out, elements, tagOpened),
         NEW token, NEW name,
         (tagOpened = TRUE /\ token = "/>") \/ (tagOpened = FALSE /\ token = "end" /\ name = Top(elements))
  PROVE  LET read == Reads(out, token, name)
         IN  /\ Tracks(read, Pop(elements), FALSE)
             /\ read.edge = IF Top(elements) \in Unbreakable THEN out.edge ELSE "block"
             /\ read.torn <=> out.torn
<1>1. CASE tagOpened = TRUE /\ token = "/>"
  BY <1>1 DEF Tracks, Reads, Legal, Opened, InTag, Edge, Tears
<1>2. CASE tagOpened = FALSE /\ token = "end" /\ name = Top(elements)
  BY <1>2 DEF Tracks, Reads, Legal, Opened, InTag, Edge, Tears
<1> QED BY <1>1, <1>2

-----------------------------------------------------------------------------
(* The operations of the writer.                                             *)

\* What the operations have in common: a writer whose members agree comes out, and
\* its output is faithful if it was before.
Goes(w, v) == WriterOK(v) /\ (Faithful(w) => Faithful(v))

\* And, with conditions for two of them, its text stays joined.
Joins(w, v) == Joined(w) => Joined(v)

\* The writer may just have broken the line.
AtBreak(w) ==
  /\ Faithful(w) /\ TextAround(w) /\ ~w.out.torn
  /\ w.out.edge = "text" => w.characterDepth # 0
  /\ w.out.edge = "break" => w.characterDepth = 0 /\ UnbreakableAt(w.elements) = {}

LEMMA JoinedAtBreak ==
  ASSUME NEW w, WriterOK(w), Joined(w)
  PROVE  AtBreak(w)
<1>1. ASSUME w.out.edge = "break"
      PROVE  w.characterDepth = 0 /\ UnbreakableAt(w.elements) = {}
  <2>1. w.elements = <<>> /\ w.characterDepth \in Nat /\ w.elements \in Seq(Names)
        /\ w.characterDepth <= Len(w.elements)
    BY <1>1 DEF Joined, WriterOK, Writers
  <2>2. Len(w.elements) = 0
    BY <2>1, EmptySeq
  <2>3. w.characterDepth = 0
    BY <2>1, <2>2
  <2> QED BY <2>1, <2>3 DEF UnbreakableAt
<1> QED BY <1>1 DEF Joined, AtBreak

\* A token changes the output and nothing else.
LEMMA PutChanges ==
  ASSUME NEW w \in Writers, NEW token, NEW name, token = "start" => name \in Names
  PROVE  /\ Put(w, token, name) \in Writers
         /\ Put(w, token, name) = [w EXCEPT !.out = Reads(w.out, token, name)]
         /\ Put(w, token, name).out = Reads(w.out, token, name)
         /\ Put(w, token, name).elements = w.elements
         /\ Put(w, token, name).tagOpened = w.tagOpened
         /\ Put(w, token, name).characterDepth = w.characterDepth
         /\ Put(w, token, name).unbreakableCount = w.unbreakableCount
<1>1. Reads(w.out, token, name) \in Outs
  BY ReadsTyped DEF Writers
<1> QED BY <1>1 DEF Put, Writers

\* The tokens whose name, if they have one, nobody keeps.
LEMMA PutOther ==
  ASSUME NEW w \in Writers, NEW name, NEW token \in {">", "/>", "end", "attr", "text", "break", "pi"}
  PROVE  /\ Put(w, token, name) \in Writers
         /\ Put(w, token, name).out = Reads(w.out, token, name)
         /\ Put(w, token, name).elements = w.elements
         /\ Put(w, token, name).tagOpened = w.tagOpened
         /\ Put(w, token, name).characterDepth = w.characterDepth
         /\ Put(w, token, name).unbreakableCount = w.unbreakableCount
<1>1. token # "start"
  OBVIOUS
<1> QED BY <1>1, PutChanges

LEMMA CloseTagGoes ==
  ASSUME NEW w, WriterOK(w)
  PROVE  /\ Goes(w, CloseTag(w)) /\ Joins(w, CloseTag(w))
         /\ CloseTag(w).elements = w.elements /\ ~CloseTag(w).tagOpened
         /\ CloseTag(w).characterDepth = w.characterDepth
         /\ CloseTag(w).unbreakableCount = w.unbreakableCount
<1> DEFINE u == Put(w, ">", Unnamed)
<1>1. w \in Writers
  BY DEF WriterOK
<1>2. CASE ~w.tagOpened
  BY <1>1, <1>2 DEF CloseTag, Goes, Joins
<1>3. CASE w.tagOpened
  <2>1. /\ u \in Writers /\ u.out = Reads(w.out, ">", Unnamed) /\ u.elements = w.elements
        /\ u.characterDepth = w.characterDepth /\ u.unbreakableCount = w.unbreakableCount
    BY <1>1, PutOther
  <2>2. CloseTag(w) = [u EXCEPT !.tagOpened = FALSE]
    BY <1>3 DEF CloseTag
  <2> HIDE DEF u
  <2>3. /\ CloseTag(w) \in Writers /\ CloseTag(w).out = Reads(w.out, ">", Unnamed)
        /\ CloseTag(w).elements = w.elements /\ CloseTag(w).tagOpened = FALSE
        /\ CloseTag(w).characterDepth = w.characterDepth
        /\ CloseTag(w).unbreakableCount = w.unbreakableCount
    BY <2>1, <2>2 DEF Writers
  <2>4. WriterOK(CloseTag(w))
    BY <2>3 DEF WriterOK
  <2>5. ASSUME Faithful(w)
        PROVE  /\ Faithful(CloseTag(w))
               /\ CloseTag(w).out.edge = w.out.edge /\ (CloseTag(w).out.torn <=> w.out.torn)
    <3>1. Tracks(w.out, w.elements, TRUE)
      BY <1>1, <1>3, <2>5 DEF Faithful, Writers
    <3>2. LET read == Reads(w.out, ">", Unnamed)
          IN  Tracks(read, w.elements, FALSE) /\ read.edge = w.out.edge /\ (read.torn <=> w.out.torn)
      BY <3>1, TagTokens
    <3> QED BY <2>3, <3>2 DEF Faithful
  <2>6. Joins(w, CloseTag(w))
    BY <2>3, <2>5 DEF Joins, Joined, TextAround
  <2> QED BY <2>3, <2>4, <2>5, <2>6 DEF Goes
<1> QED BY <1>1, <1>2, <1>3 DEF Writers

LEMMA BreakLineGoes ==
  ASSUME NEW w, WriterOK(w), ~w.tagOpened
  PROVE  /\ Goes(w, BreakLine(w)) /\ (Joined(w) => AtBreak(BreakLine(w)))
         /\ BreakLine(w).elements = w.elements /\ ~BreakLine(w).tagOpened
         /\ BreakLine(w).characterDepth = w.characterDepth
         /\ BreakLine(w).unbreakableCount = w.unbreakableCount
<1> DEFINE v == Put(w, "break", Unnamed)
<1>1. w \in Writers
  BY DEF WriterOK
<1>2. CASE BreakLine(w) = w
  BY <1>2, JoinedAtBreak DEF Goes
<1>3. CASE w.characterDepth = 0 /\ w.unbreakableCount = 0 /\ BreakLine(w) = v
  <2>1. /\ v \in Writers /\ v.out = Reads(w.out, "break", Unnamed) /\ v.elements = w.elements
        /\ v.tagOpened = w.tagOpened
        /\ v.characterDepth = w.characterDepth /\ v.unbreakableCount = w.unbreakableCount
    BY <1>1, PutOther
  <2> HIDE DEF v
  <2>2. WriterOK(v)
    BY <2>1 DEF WriterOK
  <2>3. ASSUME Faithful(w)
        PROVE  Faithful(v) /\ v.out.edge = "break" /\ (v.out.torn <=> w.out.torn \/ w.out.edge = "text")
    <3>1. w.tagOpened = FALSE
      BY <1>1 DEF Writers
    <3>2. Tracks(w.out, w.elements, FALSE)
      BY <2>3, <3>1 DEF Faithful
    <3>3. LET read == Reads(w.out, "break", Unnamed)
          IN  /\ Tracks(read, w.elements, FALSE) /\ read.edge = "break"
              /\ read.torn <=> w.out.torn \/ w.out.edge = "text"
      BY <3>2, LooseTokens DEF Tears
    <3> QED BY <2>1, <3>1, <3>3 DEF Faithful
  <2>4. UnbreakableAt(w.elements) = {}
    BY <1>1, <1>3, UnbreakableCounted DEF WriterOK, Writers
  <2>5. Joined(w) => AtBreak(v)
    BY <1>3, <2>1, <2>3, <2>4 DEF Joined, AtBreak, TextAround
  <2> QED BY <1>3, <2>1, <2>2, <2>3, <2>5 DEF Goes
<1> QED BY <1>1, <1>2, <1>3 DEF BreakLine

\* What belongs inside text stays joined if there is text around it.
LEMMA StartGoes ==
  ASSUME NEW w, WriterOK(w), NEW name \in Names
  PROVE  /\ Goes(w, WriteStartElement(w, name))
         /\ name \notin Unbreakable \/ w.characterDepth # 0 => Joins(w, WriteStartElement(w, name))
         /\ WriteStartElement(w, name).elements = Push(w.elements, name)
         /\ WriteStartElement(w, name).tagOpened
         /\ WriteStartElement(w, name).characterDepth = w.characterDepth
<1> DEFINE c == CloseTag(w)
           b == BreakLine(c)
           u == Put(b, "start", name)
           v == WriteStartElement(w, name)
           longer == Push(w.elements, name)
<1>1. /\ Goes(w, c) /\ Joins(w, c) /\ c.elements = w.elements /\ ~c.tagOpened
      /\ c.characterDepth = w.characterDepth /\ c.unbreakableCount = w.unbreakableCount
  BY CloseTagGoes
<1> HIDE DEF c
<1>2. /\ Goes(c, b) /\ (Joined(c) => AtBreak(b)) /\ b.elements = w.elements /\ ~b.tagOpened
      /\ b.characterDepth = w.characterDepth /\ b.unbreakableCount = w.unbreakableCount
  BY <1>1, BreakLineGoes DEF Goes
<1> HIDE DEF b
<1>3. /\ w \in Writers /\ b \in Writers /\ w.elements \in Seq(Names)
      /\ w.unbreakableCount = Cardinality(UnbreakableAt(w.elements))
      /\ w.characterDepth \in Nat /\ w.characterDepth <= Len(w.elements)
  BY <1>2 DEF Goes, WriterOK, Writers
<1>4. /\ u \in Writers /\ u.out = Reads(b.out, "start", name) /\ u.elements = w.elements
      /\ u.characterDepth = w.characterDepth /\ u.unbreakableCount = w.unbreakableCount
  BY <1>2, <1>3, PutChanges
<1>5. v = [u EXCEPT !.elements = longer, !.tagOpened = TRUE,
                    !.unbreakableCount = w.unbreakableCount + One(name)]
  BY <1>4 DEF WriteStartElement, c, b, Push, Writers
<1> HIDE DEF u, v
<1>6. /\ longer \in Seq(Names) /\ longer # <<>>
      /\ Len(longer) = Len(w.elements) + 1 /\ Len(w.elements) \in Nat
      /\ DOMAIN longer = 1 .. Len(w.elements) + 1 /\ DOMAIN w.elements = 1 .. Len(w.elements)
      /\ \A i \in DOMAIN w.elements : longer[i] = w.elements[i]
      /\ longer[Len(w.elements) + 1] = name
  <2>1. longer \in Seq(Names) /\ longer # <<>>
    BY <1>3, PushTyped
  <2> QED BY <1>3, <2>1, PushProperties
<1>7. /\ w.unbreakableCount + One(name) = Cardinality(UnbreakableAt(longer))
      /\ w.unbreakableCount + One(name) \in Nat
  BY <1>3, <1>6, UnbreakableCounted
<1> HIDE DEF longer
<1>8. /\ v \in Writers /\ v.out = u.out /\ v.elements = longer /\ v.tagOpened = TRUE
      /\ v.characterDepth = w.characterDepth
      /\ v.unbreakableCount = w.unbreakableCount + One(name)
  BY <1>4, <1>5, <1>6, <1>7 DEF Writers
<1>9. WriterOK(v)
  BY <1>3, <1>6, <1>7, <1>8 DEF WriterOK
<1>10. ASSUME Faithful(b)
       PROVE  /\ Faithful(v) /\ (v.out.torn <=> b.out.torn)
              /\ v.out.edge = IF name \in Unbreakable THEN b.out.edge ELSE "block"
  <2>1. Tracks(b.out, w.elements, FALSE)
    <3>1. b.tagOpened = FALSE
      BY <1>2, <1>3 DEF Writers
    <3> QED BY <1>2, <1>10, <3>1 DEF Faithful
  <2>2. LET read == Reads(b.out, "start", name)
        IN  /\ Tracks(read, longer, TRUE) /\ (read.torn <=> b.out.torn)
            /\ read.edge = IF name \in Unbreakable THEN b.out.edge ELSE "block"
    BY <2>1, StartToken DEF longer
  <2> QED BY <1>4, <1>8, <2>2 DEF Faithful
<1>11. Goes(w, v)
  BY <1>1, <1>2, <1>9, <1>10 DEF Goes
<1>12. ASSUME name \notin Unbreakable \/ w.characterDepth # 0, Joined(w)
       PROVE  Joined(v)
  <2>1. AtBreak(b)
    BY <1>1, <1>2, <1>12 DEF Joins
  <2>2. Faithful(v) /\ ~v.out.torn
    BY <1>10, <2>1 DEF AtBreak
  <2>3. TextAround(v)
    <3>1. ASSUME NEW i \in 1 .. Len(w.elements) + 1, longer[i] \in Unbreakable
          PROVE  w.characterDepth \in 1 .. i - 1
      <4>1. CASE i \in DOMAIN w.elements
        <5>1. w.elements[i] \in Unbreakable
          BY <1>6, <3>1, <4>1
        <5> QED BY <1>2, <2>1, <4>1, <5>1 DEF AtBreak, TextAround
      <4>2. CASE i = Len(w.elements) + 1
        BY <1>3, <1>6, <1>12, <3>1, <4>2
      <4> QED BY <1>6, <4>1, <4>2
    <3> QED BY <1>6, <1>8, <3>1 DEF TextAround
  <2>4. /\ v.out.edge = "text" => v.characterDepth # 0
        /\ v.out.edge = "break" => FALSE
    BY <1>2, <1>8, <1>10, <1>12, <2>1 DEF AtBreak
  <2> QED BY <2>2, <2>3, <2>4 DEF Joined
<1> QED BY <1>8, <1>11, <1>12 DEF v, longer, Joins

LEMMA AttributeGoes ==
  ASSUME NEW w, WriterOK(w), w.tagOpened
  PROVE  /\ Goes(w, WriteAttribute(w)) /\ Joins(w, WriteAttribute(w))
         /\ WriteAttribute(w).elements = w.elements /\ WriteAttribute(w).tagOpened
         /\ WriteAttribute(w).characterDepth = w.characterDepth
<1> DEFINE v == WriteAttribute(w)
<1>1. /\ v \in Writers /\ v.out = Reads(w.out, "attr", Unnamed) /\ v.elements = w.elements
      /\ v.tagOpened = w.tagOpened
      /\ v.characterDepth = w.characterDepth /\ v.unbreakableCount = w.unbreakableCount
  <2>1. w \in Writers /\ v = Put(w, "attr", Unnamed)
    BY DEF WriterOK, WriteAttribute
  <2> HIDE DEF v
  <2> QED BY <2>1, PutOther
<1> HIDE DEF v
<1>2. WriterOK(v)
  BY <1>1 DEF WriterOK
<1>3. ASSUME Faithful(w)
      PROVE  Faithful(v) /\ v.out.edge = w.out.edge /\ (v.out.torn <=> w.out.torn)
  <2>1. w.tagOpened = TRUE
    BY DEF WriterOK, Writers
  <2>2. Tracks(w.out, w.elements, TRUE)
    BY <1>3, <2>1 DEF Faithful
  <2>3. LET read == Reads(w.out, "attr", Unnamed)
        IN  Tracks(read, w.elements, TRUE) /\ read.edge = w.out.edge /\ (read.torn <=> w.out.torn)
    BY <2>2, TagTokens
  <2> QED BY <1>1, <2>1, <2>3 DEF Faithful
<1>4. Joins(w, v)
  BY <1>1, <1>3 DEF Joins, Joined, TextAround
<1> QED BY <1>1, <1>2, <1>3, <1>4 DEF Goes, v

\* Text stays joined inside an element.
LEMMA CharactersGoes ==
  ASSUME NEW w, WriterOK(w)
  PROVE  /\ Goes(w, WriteCharacters(w))
         /\ w.elements # <<>> => Joins(w, WriteCharacters(w))
         /\ WriteCharacters(w).elements = w.elements /\ ~WriteCharacters(w).tagOpened
         /\ WriteCharacters(w).characterDepth =
              IF w.characterDepth = 0 THEN Len(w.elements) ELSE w.characterDepth
<1> DEFINE c == CloseTag(w)
           u == Put(c, "text", Unnamed)
           d == IF w.characterDepth = 0 THEN Len(w.elements) ELSE w.characterDepth
           v == WriteCharacters(w)
<1>1. /\ Goes(w, c) /\ Joins(w, c) /\ c.elements = w.elements /\ ~c.tagOpened
      /\ c.characterDepth = w.characterDepth /\ c.unbreakableCount = w.unbreakableCount
  BY CloseTagGoes
<1> HIDE DEF c
<1>2. /\ c \in Writers /\ c.tagOpened = FALSE /\ w.elements \in Seq(Names) /\ Len(w.elements) \in Nat
      /\ w.unbreakableCount = Cardinality(UnbreakableAt(w.elements))
      /\ w.characterDepth \in Nat /\ w.characterDepth <= Len(w.elements)
  BY <1>1, LenProperties DEF Goes, WriterOK, Writers
<1>3. /\ u \in Writers /\ u.out = Reads(c.out, "text", Unnamed) /\ u.elements = w.elements
      /\ u.tagOpened = FALSE
      /\ u.characterDepth = w.characterDepth /\ u.unbreakableCount = w.unbreakableCount
  BY <1>1, <1>2, PutOther
<1>4. v = [u EXCEPT !.characterDepth = d]
  BY <1>3 DEF WriteCharacters, c, Writers
<1>5. d \in Nat /\ d <= Len(w.elements) /\ (w.characterDepth # 0 => d = w.characterDepth)
  BY <1>2
<1>6. w.elements # <<>> => d # 0
  BY <1>2, EmptySeq
<1> HIDE DEF u, v, d
<1>7. /\ v \in Writers /\ v.out = u.out /\ v.elements = w.elements /\ v.tagOpened = FALSE
      /\ v.characterDepth = d /\ v.unbreakableCount = w.unbreakableCount
  BY <1>3, <1>4, <1>5 DEF Writers
<1>8. WriterOK(v)
  BY <1>2, <1>5, <1>7 DEF WriterOK
<1>9. ASSUME Faithful(c)
      PROVE  Faithful(v) /\ v.out.edge = "text" /\ (v.out.torn <=> c.out.torn \/ c.out.edge = "break")
  <2>1. Tracks(c.out, w.elements, FALSE)
    BY <1>1, <1>2, <1>9 DEF Faithful
  <2>2. LET read == Reads(c.out, "text", Unnamed)
        IN  /\ Tracks(read, w.elements, FALSE) /\ read.edge = "text"
            /\ read.torn <=> c.out.torn \/ c.out.edge = "break"
    BY <2>1, LooseTokens DEF Tears
  <2> QED BY <1>3, <1>7, <2>2 DEF Faithful
<1>10. Goes(w, v)
  BY <1>1, <1>8, <1>9 DEF Goes
<1>11. ASSUME w.elements # <<>>, Joined(w)
       PROVE  Joined(v)
  <2>1. Joined(c) /\ c.out.edge # "break"
    BY <1>1, <1>11 DEF Joins, Joined
  <2>2. TextAround(v)
    <3>1. \A i \in DOMAIN w.elements : w.elements[i] \in Unbreakable => w.characterDepth \in 1 .. i - 1
      BY <1>11 DEF Joined, TextAround
    <3>2. \A i \in DOMAIN w.elements : w.elements[i] \in Unbreakable => d \in 1 .. i - 1
      BY <1>5, <3>1
    <3> QED BY <1>7, <3>2 DEF TextAround
  <2> QED BY <1>6, <1>7, <1>9, <1>11, <2>1, <2>2 DEF Joined
<1> QED BY <1>7, <1>10, <1>11 DEF v, d, Joins

LEMMA EndGoes ==
  ASSUME NEW w, WriterOK(w), w.elements # <<>>
  PROVE  /\ Goes(w, WriteEndElement(w)) /\ Joins(w, WriteEndElement(w))
         /\ WriteEndElement(w).elements = Pop(w.elements) /\ ~WriteEndElement(w).tagOpened
         /\ WriteEndElement(w).characterDepth = DepthAfterEnd(w)
<1> DEFINE name == Top(w.elements)
           e == EndTag(w, name)
           v == WriteEndElement(w)
           shorter == Pop(w.elements)
           d == DepthAfterEnd(w)
<1>1. /\ w \in Writers /\ w.elements \in Seq(Names) /\ w.tagOpened \in BOOLEAN
      /\ w.unbreakableCount = Cardinality(UnbreakableAt(w.elements))
      /\ w.characterDepth \in Nat /\ w.characterDepth <= Len(w.elements)
  BY DEF WriterOK, Writers
<1>2. PICK b : /\ e \in Writers /\ e.tagOpened = FALSE /\ e.elements = w.elements
               /\ e.characterDepth = w.characterDepth /\ e.unbreakableCount = w.unbreakableCount
               /\ Joined(w) => AtBreak(b)
               /\ b.elements = w.elements /\ b.characterDepth = w.characterDepth
               /\ Faithful(w) =>
                    /\ Tracks(e.out, shorter, FALSE) /\ (e.out.torn <=> b.out.torn)
                    /\ e.out.edge = IF name \in Unbreakable THEN b.out.edge ELSE "block"
  <2>1. CASE w.tagOpened
    <3> DEFINE u == Put(w, "/>", Unnamed)
    <3>1. /\ u \in Writers /\ u.out = Reads(w.out, "/>", Unnamed) /\ u.elements = w.elements
          /\ u.characterDepth = w.characterDepth /\ u.unbreakableCount = w.unbreakableCount
      BY <1>1, PutOther
    <3>2. e = [u EXCEPT !.tagOpened = FALSE]
      BY <2>1 DEF EndTag
    <3> HIDE DEF u, e
    <3>3. /\ e \in Writers /\ e.tagOpened = FALSE /\ e.elements = w.elements /\ e.out = u.out
          /\ e.characterDepth = w.characterDepth /\ e.unbreakableCount = w.unbreakableCount
      BY <3>1, <3>2 DEF Writers
    <3>4. ASSUME Faithful(w)
          PROVE  LET read == Reads(w.out, "/>", Unnamed)
                 IN  /\ Tracks(read, shorter, FALSE) /\ (read.torn <=> w.out.torn)
                     /\ read.edge = IF name \in Unbreakable THEN w.out.edge ELSE "block"
      <4>1. w.tagOpened = TRUE /\ Tracks(w.out, w.elements, w.tagOpened)
        BY <1>1, <2>1, <3>4 DEF Faithful
      <4> QED BY <4>1, EndTokens
    <3>5. Joined(w) => AtBreak(w)
      BY JoinedAtBreak
    <3> HIDE DEF name, shorter
    <3> QED BY <3>1, <3>3, <3>4, <3>5
  <2>2. CASE ~w.tagOpened
    <3> DEFINE b == BreakLine(w)
    <3>1. /\ Goes(w, b) /\ (Joined(w) => AtBreak(b)) /\ b.elements = w.elements /\ ~b.tagOpened
          /\ b.characterDepth = w.characterDepth /\ b.unbreakableCount = w.unbreakableCount
      BY <2>2, BreakLineGoes
    <3> HIDE DEF b
    <3>2. b \in Writers /\ b.tagOpened = FALSE
      BY <3>1 DEF Goes, WriterOK, Writers
    <3>3. e = Put(b, "end", name)
      BY <2>2 DEF EndTag, b
    <3> HIDE DEF e
    <3>4. /\ e \in Writers /\ e.tagOpened = FALSE /\ e.elements = w.elements
          /\ e.out = Reads(b.out, "end", name)
          /\ e.characterDepth = w.characterDepth /\ e.unbreakableCount = w.unbreakableCount
      BY <3>1, <3>2, <3>3, PutOther
    <3>5. ASSUME Faithful(w)
          PROVE  LET read == Reads(b.out, "end", name)
                 IN  /\ Tracks(read, shorter, FALSE) /\ (read.torn <=> b.out.torn)
                     /\ read.edge = IF name \in Unbreakable THEN b.out.edge ELSE "block"
      <4>1. Tracks(b.out, w.elements, b.tagOpened)
        BY <3>1, <3>2, <3>5 DEF Goes, Faithful
      <4> QED BY <3>2, <4>1, EndTokens
    <3> HIDE DEF name, shorter
    <3> QED BY <3>1, <3>4, <3>5
  <2> QED BY <1>1, <2>1, <2>2
<1>3. v = [e EXCEPT !.elements = shorter, !.characterDepth = d,
                    !.unbreakableCount = w.unbreakableCount - One(name)]
  BY <1>2 DEF WriteEndElement, Writers
<1>4. /\ shorter \in Seq(Names) /\ Len(shorter) = Len(w.elements) - 1 /\ Len(w.elements) \in Nat \ {0}
      /\ DOMAIN shorter = 1 .. Len(w.elements) - 1 /\ DOMAIN w.elements = 1 .. Len(w.elements)
      /\ \A i \in DOMAIN shorter : shorter[i] = w.elements[i]
      /\ name = w.elements[Len(w.elements)]
  <2>1. shorter \in Seq(Names)
    BY <1>1, PopProperties
  <2> QED BY <1>1, <2>1, PopProperties
<1>5. /\ w.unbreakableCount - One(name) = Cardinality(UnbreakableAt(shorter))
      /\ w.unbreakableCount - One(name) \in Nat
  <2>1. Cardinality(UnbreakableAt(shorter)) \in Nat
    BY <1>4, UnbreakableCounted
  <2>2. Cardinality(UnbreakableAt(shorter)) = w.unbreakableCount - One(name)
    BY <1>1, UnbreakableCounted
  <2> QED BY <2>1, <2>2
<1>6. /\ d \in Nat /\ d <= Len(shorter)
      /\ d = IF w.characterDepth = Len(w.elements) THEN 0 ELSE w.characterDepth
  BY <1>1, <1>4 DEF DepthAfterEnd
<1> HIDE DEF name, shorter, d, e, v
<1>7. /\ v \in Writers /\ v.out = e.out /\ v.elements = shorter /\ v.tagOpened = FALSE
      /\ v.characterDepth = d /\ v.unbreakableCount = w.unbreakableCount - One(name)
  BY <1>2, <1>3, <1>4, <1>5, <1>6 DEF Writers
<1>8. WriterOK(v)
  BY <1>5, <1>6, <1>7 DEF WriterOK
<1>9. Faithful(w) => Faithful(v)
  BY <1>2, <1>7 DEF Faithful
<1>10. ASSUME Joined(w)
       PROVE  Joined(v)
  <2>1. AtBreak(b) /\ Faithful(w)
    BY <1>2, <1>10 DEF Joined
  <2>2. \A i \in DOMAIN w.elements : w.elements[i] \in Unbreakable => w.characterDepth \in 1 .. i - 1
    BY <1>10 DEF Joined, TextAround
  <2>3. TextAround(v)
    <3>1. ASSUME NEW i \in DOMAIN shorter, shorter[i] \in Unbreakable
          PROVE  d \in 1 .. i - 1
      <4>1. i \in 1 .. Len(w.elements) - 1 /\ w.characterDepth \in 1 .. i - 1
        BY <1>4, <2>2, <3>1
      <4>2. d = w.characterDepth
        BY <1>4, <1>6, <4>1
      <4> QED BY <4>1, <4>2
    <3> QED BY <1>7, <3>1 DEF TextAround
  <2>4. CASE name \in Unbreakable
    <3>1. Len(w.elements) \in UnbreakableAt(w.elements)
          /\ w.characterDepth \in 1 .. Len(w.elements) - 1
      BY <1>4, <2>2, <2>4 DEF UnbreakableAt
    <3>2. d # 0
      BY <1>4, <1>6, <3>1
    <3>3. v.out.edge # "break"
      BY <1>2, <1>7, <2>1, <2>4, <3>1 DEF AtBreak
    <3> QED BY <1>2, <1>7, <1>9, <2>1, <2>3, <3>2, <3>3 DEF Joined, AtBreak
  <2>5. CASE name \notin Unbreakable
    <3>1. v.out.edge = "block"
      BY <1>2, <1>7, <2>1, <2>5
    <3> QED BY <1>2, <1>7, <1>9, <2>1, <2>3, <3>1 DEF Joined, AtBreak
  <2> QED BY <2>4, <2>5
<1> QED BY <1>7, <1>8, <1>9, <1>10 DEF Goes, Joins, v, shorter, d

\* An instruction where no element is open.
LEMMA InstructionGoes ==
  ASSUME NEW w, WriterOK(w)
  PROVE  /\ WriterOK(WriteProcessingInstruction(w))
         /\ WriteProcessingInstruction(w).elements = w.elements
         /\ WriteProcessingInstruction(w).tagOpened = w.tagOpened
         /\ WriteProcessingInstruction(w).characterDepth = w.characterDepth
         /\ w.elements = <<>> => /\ Faithful(w) => Faithful(WriteProcessingInstruction(w))
                                 /\ Joins(w, WriteProcessingInstruction(w))
<1> DEFINE b == Put(w, "break", Unnamed)
           v == WriteProcessingInstruction(w)
<1>1. w \in Writers
  BY DEF WriterOK
<1>2. /\ b \in Writers /\ b.out = Reads(w.out, "break", Unnamed) /\ b.elements = w.elements
      /\ b.tagOpened = w.tagOpened
      /\ b.characterDepth = w.characterDepth /\ b.unbreakableCount = w.unbreakableCount
  BY <1>1, PutOther
<1>3. v = Put(b, "pi", Unnamed)
  BY DEF WriteProcessingInstruction
<1> HIDE DEF b, v
<1>4. /\ v \in Writers /\ v.out = Reads(b.out, "pi", Unnamed) /\ v.elements = w.elements
      /\ v.tagOpened = w.tagOpened
      /\ v.characterDepth = w.characterDepth /\ v.unbreakableCount = w.unbreakableCount
  BY <1>2, <1>3, PutOther
<1>5. WriterOK(v)
  BY <1>4 DEF WriterOK
<1>6. ASSUME w.elements = <<>>, Faithful(w)
      PROVE  Faithful(v) /\ v.out.edge = "break" /\ (v.out.torn <=> w.out.torn \/ w.out.edge = "text")
  <2>1. w.tagOpened = FALSE
    BY <1>1, <1>6 DEF WriterOK, Writers
  <2>2. /\ Tracks(b.out, w.elements, FALSE) /\ b.out.edge = "break"
        /\ b.out.torn <=> w.out.torn \/ w.out.edge = "text"
    <3>1. Tracks(w.out, w.elements, FALSE)
      BY <1>6, <2>1 DEF Faithful
    <3>2. LET read == Reads(w.out, "break", Unnamed)
          IN  /\ Tracks(read, w.elements, FALSE) /\ read.edge = "break"
              /\ read.torn <=> w.out.torn \/ w.out.edge = "text"
      BY <3>1, LooseTokens DEF Tears
    <3> QED BY <1>2, <3>2
  <2>3. Tracks(v.out, w.elements, FALSE) /\ v.out.edge = "break" /\ (v.out.torn <=> b.out.torn)
    <3>1. LET read == Reads(b.out, "pi", Unnamed)
          IN  /\ Tracks(read, w.elements, FALSE) /\ read.edge = b.out.edge
              /\ read.torn <=> b.out.torn
      BY <2>2, LooseTokens DEF Tears
    <3> QED BY <1>4, <2>2, <3>1
  <2> QED BY <1>4, <2>1, <2>2, <2>3 DEF Faithful
<1>7. ASSUME w.elements = <<>>, Joined(w)
      PROVE  Joined(v)
  <2>1. w.out.edge # "text"
    <3>1. w.characterDepth = 0
      BY <1>7, JoinedAtBreak, EmptySeq DEF WriterOK, Writers
    <3> QED BY <1>7, <3>1 DEF Joined
  <2> QED BY <1>4, <1>6, <1>7, <2>1 DEF Joined, TextAround
<1> QED BY <1>4, <1>5, <1>6, <1>7 DEF v, Joins

-----------------------------------------------------------------------------
(* Whole elements, after which the writer is inside the same ones as before.  *)

\* Text may have come in between.
Balanced(w, v) ==
  /\ Goes(w, v) /\ Joins(w, v) /\ v.elements = w.elements
  /\ v.characterDepth = w.characterDepth
       \/ (w.characterDepth = 0 /\ v.characterDepth = Len(w.elements))

\* Text has come in whole elements only.
Whole(w, v) == Balanced(w, v) /\ v.characterDepth = w.characterDepth

\* An element with what is inside it.
LEMMA ElementBalanced ==
  ASSUME NEW w, WriterOK(w), NEW name \in Names \ Unbreakable, NEW v,
         Balanced(WriteStartElement(w, name), v)
  PROVE  Whole(w, WriteEndElement(v))
<1> DEFINE s == WriteStartElement(w, name)
<1>1. /\ Goes(w, s) /\ Joins(w, s) /\ s.elements = Push(w.elements, name)
      /\ s.characterDepth = w.characterDepth
  BY StartGoes
<1> HIDE DEF s
<1>2. /\ Goes(s, v) /\ Joins(s, v) /\ v.elements = Push(w.elements, name)
      /\ v.characterDepth = s.characterDepth
           \/ (s.characterDepth = 0 /\ v.characterDepth = Len(s.elements))
  BY <1>1 DEF Balanced, s
<1>3. w.elements \in Seq(Names) /\ w.characterDepth \in Nat /\ w.characterDepth <= Len(w.elements)
  BY DEF WriterOK, Writers
<1>4. v.elements # <<>>
  BY <1>2, <1>3, PushTyped
<1>5. /\ Goes(v, WriteEndElement(v)) /\ Joins(v, WriteEndElement(v))
      /\ WriteEndElement(v).elements = Pop(v.elements)
      /\ WriteEndElement(v).characterDepth = DepthAfterEnd(v)
  BY <1>2, <1>4, EndGoes DEF Goes
<1>6. Pop(Push(w.elements, name)) = w.elements
  BY <1>3, PushProperties
<1>7. DepthAfterEnd(v) = w.characterDepth
  <2>1. Len(v.elements) = Len(w.elements) + 1 /\ Len(w.elements) \in Nat
    BY <1>2, <1>3, PushProperties
  <2> QED BY <1>1, <1>2, <1>3, <2>1 DEF DepthAfterEnd
<1> QED BY <1>1, <1>2, <1>5, <1>6, <1>7 DEF Whole, Balanced, Goes, Joins

LEMMA NodeBalanced ==
  ASSUME NEW w, WriterOK(w), NEW name \in Names \ Unbreakable, NEW empty \in BOOLEAN
  PROVE  Whole(w, WriteNode(w, name, empty)) /\ WriterOK(WriteNode(w, name, empty))
<1> DEFINE s == WriteStartElement(w, name)
           v == IF empty THEN s ELSE WriteCharacters(s)
<1>1. WriterOK(s) /\ s.elements # <<>>
  <2>1. w.elements \in Seq(Names)
    BY DEF WriterOK, Writers
  <2>2. WriterOK(s) /\ s.elements = Push(w.elements, name)
    BY StartGoes DEF Goes
  <2> HIDE DEF s
  <2> QED BY <2>1, <2>2, PushTyped
<1> HIDE DEF s
<1>2. Balanced(s, v)
  BY <1>1, CharactersGoes DEF Balanced, Goes, Joins
<1>3. WriteNode(w, name, empty) = WriteEndElement(v)
  BY DEF WriteNode, s
<1> HIDE DEF v
<1>4. Whole(w, WriteEndElement(v))
  BY <1>2, ElementBalanced DEF s
<1> QED BY <1>3, <1>4 DEF Whole, Balanced, Goes

LEMMA SomeNames ==
  /\ "author" \in Names \ Unbreakable /\ "first-name" \in Names \ Unbreakable
  /\ "middle-name" \in Names \ Unbreakable /\ "last-name" \in Names \ Unbreakable
  /\ "book-title" \in Names \ Unbreakable /\ "sequence" \in Names \ Unbreakable
  /\ "binary" \in Names \ Unbreakable /\ "program-used" \in Names \ Unbreakable
  /\ "document-info" \in Names \ Unbreakable /\ "FictionBook" \in Names \ Unbreakable
BY DEF Names, Unbreakable

LEMMA WholeChain ==
  ASSUME NEW u, NEW v, NEW w, Whole(u, v), Whole(v, w)
  PROVE  Whole(u, w)
BY DEF Whole, Balanced, Goes, Joins

\* The metadata of a book.
LEMMA MetadataBalanced ==
  ASSUME NEW w, WriterOK(w), NEW metadata
  PROVE  Whole(w, WriteSeries(WriteTitle(WriteAuthor(w)), metadata))
<1>1. ASSUME NEW u, WriterOK(u)
      PROVE  Whole(u, WriteAuthor(u)) /\ WriterOK(WriteAuthor(u))
  <2> DEFINE s == WriteStartElement(u, "author")
             a == WriteNode(s, "first-name", FALSE)
             b == WriteNode(a, "middle-name", TRUE)
             c == WriteNode(b, "last-name", FALSE)
  <2>1. WriterOK(s)
    BY <1>1, StartGoes, SomeNames DEF Goes
  <2> HIDE DEF s
  <2>2. Whole(s, a) /\ WriterOK(a)
    BY <2>1, NodeBalanced, SomeNames
  <2> HIDE DEF a
  <2>3. Whole(a, b) /\ WriterOK(b)
    BY <2>2, NodeBalanced, SomeNames
  <2> HIDE DEF b
  <2>4. Whole(b, c)
    BY <2>3, NodeBalanced, SomeNames
  <2> HIDE DEF c
  <2>5. Balanced(s, c)
    BY <2>2, <2>3, <2>4, WholeChain DEF Whole
  <2>6. WriteAuthor(u) = WriteEndElement(c)
    BY DEF WriteAuthor, s, a, b, c
  <2>7. Whole(u, WriteEndElement(c))
    BY <1>1, <2>5, ElementBalanced, SomeNames DEF s
  <2> QED BY <2>6, <2>7 DEF Whole, Balanced, Goes
<1>2. ASSUME NEW u, WriterOK(u)
      PROVE  Whole(u, WriteTitle(u)) /\ WriterOK(WriteTitle(u))
  BY <1>2, NodeBalanced, SomeNames DEF WriteTitle
<1>3. ASSUME NEW u, WriterOK(u)
      PROVE  Whole(u, WriteSeries(u, metadata))
  <2>1. CASE metadata # "series"
    BY <1>3, <2>1 DEF WriteSeries, Whole, Balanced, Goes, Joins
  <2>2. CASE metadata = "series"
    <3> DEFINE s == WriteStartElement(u, "sequence")
               a == WriteAttribute(s)
               b == WriteAttribute(a)
    <3>1. WriterOK(s) /\ s.tagOpened
      BY <1>3, StartGoes, SomeNames DEF Goes
    <3> HIDE DEF s
    <3>2. Whole(s, a) /\ WriterOK(a) /\ a.tagOpened
      BY <3>1, AttributeGoes DEF Whole, Balanced, Goes
    <3> HIDE DEF a
    <3>3. Whole(a, b)
      BY <3>2, AttributeGoes DEF Whole, Balanced
    <3> HIDE DEF b
    <3>4. Balanced(s, b)
      BY <3>2, <3>3, WholeChain DEF Whole
    <3>5. WriteSeries(u, metadata) = WriteEndElement(b)
      BY <2>2 DEF WriteSeries, s, a, b
    <3> QED BY <1>3, <3>4, <3>5, ElementBalanced, SomeNames DEF s
  <2> QED BY <2>1, <2>2
<1> DEFINE a == WriteAuthor(w)
           b == WriteTitle(a)
<1>4. Whole(w, a) /\ WriterOK(a)
  BY <1>1
<1> HIDE DEF a
<1>5. Whole(a, b) /\ WriterOK(b)
  BY <1>2, <1>4
<1> HIDE DEF b
<1>6. Whole(b, WriteSeries(b, metadata))
  BY <1>3, <1>5
<1>7. Whole(w, WriteSeries(b, metadata))
  BY <1>4, <1>5, <1>6, WholeChain
<1> QED BY <1>7 DEF a, b

\* A picture.
LEMMA BinaryBalanced ==
  ASSUME NEW w, WriterOK(w)
  PROVE  Whole(w, WriteBinary(w))
<1> DEFINE s == WriteStartElement(w, "binary")
           a == WriteAttribute(s)
           b == WriteAttribute(a)
           c == WriteCharacters(b)
<1>1. WriterOK(s) /\ s.tagOpened /\ s.elements # <<>>
  <2>1. w.elements \in Seq(Names)
    BY DEF WriterOK, Writers
  <2>2. WriterOK(s) /\ s.tagOpened /\ s.elements = Push(w.elements, "binary")
    BY StartGoes, SomeNames DEF Goes
  <2> HIDE DEF s
  <2> QED BY <2>1, <2>2, PushTyped, SomeNames
<1> HIDE DEF s
<1>2. Whole(s, a) /\ WriterOK(a) /\ a.tagOpened
  BY <1>1, AttributeGoes DEF Whole, Balanced, Goes
<1> HIDE DEF a
<1>3. Whole(a, b) /\ WriterOK(b)
  BY <1>2, AttributeGoes DEF Whole, Balanced, Goes
<1> HIDE DEF b
<1>4. Whole(s, b) /\ b.elements = s.elements
  BY <1>2, <1>3, WholeChain DEF Whole, Balanced
<1>5. Balanced(b, c)
  BY <1>1, <1>3, <1>4, CharactersGoes DEF Balanced
<1> HIDE DEF c
<1>6. Balanced(s, c)
  BY <1>4, <1>5 DEF Whole, Balanced, Goes, Joins
<1>7. WriteBinary(w) = WriteEndElement(c)
  BY DEF WriteBinary, s, a, b, c
<1> QED BY <1>6, <1>7, ElementBalanced, SomeNames DEF s

\* The name of the program, alone and in an element of its own.
LEMMA ProgramUsedBalanced ==
  ASSUME NEW w, WriterOK(w)
  PROVE  /\ Whole(w, WriteProgramUsed(w))
         /\ Whole(w, WriteEndElement(WriteProgramUsed(WriteStartElement(w, "document-info"))))
<1>1. ASSUME NEW u, WriterOK(u)
      PROVE  Whole(u, WriteProgramUsed(u))
  BY <1>1, NodeBalanced, SomeNames DEF WriteProgramUsed
<1> DEFINE s == WriteStartElement(w, "document-info")
           v == WriteProgramUsed(s)
<1>2. WriterOK(s)
  BY StartGoes, SomeNames DEF Goes
<1>3. Balanced(s, v)
  BY <1>1, <1>2 DEF Whole
<1> HIDE DEF v
<1>4. Whole(w, WriteEndElement(v))
  BY <1>3, ElementBalanced, SomeNames
<1> QED BY <1>1, <1>4 DEF v

-----------------------------------------------------------------------------
(* SaxPrinter, one call of it after the other.                               *)

\* What every call leaves alone, and what it leaves in order.
Kept(p, q) ==
  /\ q \in Printers
  /\ WriterOK(q.writer) /\ (Faithful(p.writer) => Faithful(q.writer))
  /\ q.metadata = p.metadata /\ q.imageProcessing = p.imageProcessing
  /\ q.hasError = p.hasError

\* Text stays joined, and what it is in.
Undisturbed(p, q) ==
  Joins(p.writer, q.writer) /\ q.writer.characterDepth = p.writer.characterDepth

SamePictures(p, q) ==
  q.covers = p.covers /\ q.recoded = p.recoded /\ q.copied = p.copied /\ q.again = p.again

\* The pictures "ids" have been written.
Written(p, q, ids) ==
  LET encoded == {id \in ids : Recodes(p.covers[id], p.imageProcessing)}
  IN /\ DOMAIN q.covers = DOMAIN p.covers \ ids
     /\ \A id \in DOMAIN q.covers : q.covers[id] = p.covers[id]
     /\ q.recoded = p.recoded \cup encoded /\ q.copied = p.copied
     /\ q.again = (p.again \/ encoded \cap (p.recoded \cup p.copied) # {})

\* A printer and its members.
LEMMA PrinterMembers ==
  ASSUME NEW p
  PROVE  /\ p \in Printers =>
              /\ p.metadata \in Metadata /\ p.imageProcessing \in Processings
              /\ p.writer \in Writers /\ p.covers \in Covers
              /\ p.hasError \in BOOLEAN /\ p.hasProgramUsed \in BOOLEAN /\ p.specialNode \in BOOLEAN
              /\ p.recoded \subseteq Ids /\ p.copied \subseteq Ids /\ p.again \in BOOLEAN
         /\ p \in Printers => p = [metadata |-> p.metadata, imageProcessing |-> p.imageProcessing,
              writer |-> p.writer, covers |-> p.covers, hasError |-> p.hasError,
              hasProgramUsed |-> p.hasProgramUsed, specialNode |-> p.specialNode,
              recoded |-> p.recoded, copied |-> p.copied, again |-> p.again]
BY DEF Printers

LEMMA CoversProperties ==
  /\ \A c \in Covers : DOMAIN c \subseteq Ids /\ \A id \in DOMAIN c : c[id] \in Images
  /\ \A c \in Covers : DOMAIN c = {} <=> c = [i \in {} |-> 0]
  /\ [i \in {} |-> 0] \in Covers
  /\ \A c \in Covers, id \in Ids : Without(c, id) \in Covers
<1>1. ASSUME NEW c \in Covers
      PROVE  DOMAIN c \subseteq Ids /\ \A id \in DOMAIN c : c[id] \in Images
  <2>1. PICK names \in SUBSET Ids : c \in [names -> Images]
    BY DEF Covers
  <2> HIDE DEF Images
  <2> QED BY <2>1
<1>2. ASSUME NEW c \in Covers, DOMAIN c = {}
      PROVE  c = [i \in {} |-> 0]
  <2>1. PICK names \in SUBSET Ids : c \in [names -> Images]
    BY DEF Covers
  <2>2. names = {}
    BY <1>2, <2>1
  <2>3. c \in [{} -> Images]
    BY <2>1, <2>2
  <2>4. c = [i \in {} |-> c[i]]
    BY <2>3
  <2> QED BY <2>4
<1>3. [i \in {} |-> 0] \in Covers
  <2>1. [i \in {} |-> 0] \in [{} -> Images]
    OBVIOUS
  <2> QED BY <2>1 DEF Covers
<1>4. ASSUME NEW c \in Covers, NEW id \in Ids
      PROVE  Without(c, id) \in Covers
  <2>1. DOMAIN c \ {id} \in SUBSET Ids /\ \A i \in DOMAIN c \ {id} : c[i] \in Images
    BY <1>1
  <2>2. Without(c, id) \in [DOMAIN c \ {id} -> Images]
    BY <2>1 DEF Without
  <2> QED BY <2>1, <2>2 DEF Covers
<1> QED BY <1>1, <1>2, <1>3, <1>4

\* A printer whose writer goes on.
LEMMA WriterReplaced ==
  ASSUME NEW p \in Printers, WriterOK(p.writer), NEW v, Goes(p.writer, v)
  PROVE  LET q == [p EXCEPT !.writer = v]
         IN  /\ Kept(p, q) /\ SamePictures(p, q) /\ q.writer = v
             /\ q.specialNode = p.specialNode /\ q.hasProgramUsed = p.hasProgramUsed
<1>1. v \in Writers
  BY DEF Goes, WriterOK
<1> QED BY <1>1 DEF Goes, Kept, SamePictures, Printers

LEMMA PrinterCharactersGoes ==
  ASSUME NEW p \in Printers, WriterOK(p.writer), NEW path
  PROVE  LET q == PrinterCharacters(p, path).self
         IN  /\ PrinterCharacters(p, path).go
             /\ Kept(p, q) /\ SamePictures(p, q)
             /\ q.specialNode = p.specialNode /\ q.writer.elements = p.writer.elements
             /\ p.specialNode => q.writer = p.writer
             /\ ~p.specialNode =>
                  /\ q.writer.characterDepth = IF p.writer.characterDepth = 0
                                               THEN Len(p.writer.elements) ELSE p.writer.characterDepth
                  /\ p.writer.elements # <<>> => Joins(p.writer, q.writer)
<1> DEFINE q == PrinterCharacters(p, path).self
           v == WriteCharacters(p.writer)
<1>1. PrinterCharacters(p, path).go
  BY DEF PrinterCharacters, True
<1>2. CASE p.specialNode
  BY <1>1, <1>2 DEF PrinterCharacters, True, Kept, SamePictures
<1>3. CASE ~p.specialNode
  <2>1. /\ Goes(p.writer, v) /\ v.elements = p.writer.elements /\ v \in Writers
        /\ p.writer.elements # <<>> => Joins(p.writer, v)
        /\ v.characterDepth = IF p.writer.characterDepth = 0
                              THEN Len(p.writer.elements) ELSE p.writer.characterDepth
    BY CharactersGoes DEF Goes, WriterOK
  <2>2. q = [p EXCEPT !.writer = v, !.hasProgramUsed = @ \/ path = ProgramUsed]
    BY <1>3 DEF PrinterCharacters, True
  <2> HIDE DEF q, v
  <2>3. /\ q \in Printers /\ q.writer = v /\ q.metadata = p.metadata
        /\ q.imageProcessing = p.imageProcessing /\ q.hasError = p.hasError
        /\ q.specialNode = p.specialNode /\ SamePictures(p, q)
    BY <2>1, <2>2 DEF Printers, SamePictures
  <2>4. Kept(p, q) /\ q.writer.elements = p.writer.elements
    BY <2>1, <2>3 DEF Kept, Goes
  <2> QED BY <1>1, <1>3, <2>1, <2>3, <2>4 DEF q
<1> QED BY <1>2, <1>3

LEMMA PrinterInstructionGoes ==
  ASSUME NEW p \in Printers, WriterOK(p.writer)
  PROVE  LET q == PrinterProcessingInstruction(p).self
         IN  /\ PrinterProcessingInstruction(p).go
             /\ q \in Printers /\ WriterOK(q.writer)
             /\ q.writer.characterDepth = p.writer.characterDepth
             /\ p.writer.elements = <<>> => /\ Faithful(p.writer) => Faithful(q.writer)
                                            /\ Joins(p.writer, q.writer)
             /\ q.metadata = p.metadata /\ q.imageProcessing = p.imageProcessing
             /\ q.hasError = p.hasError /\ SamePictures(p, q)
             /\ q.specialNode = p.specialNode /\ q.writer.elements = p.writer.elements
<1> DEFINE q == PrinterProcessingInstruction(p).self
           v == WriteProcessingInstruction(p.writer)
<1>1. PrinterProcessingInstruction(p).go /\ q = [p EXCEPT !.writer = v]
  BY DEF PrinterProcessingInstruction, True
<1>2. /\ WriterOK(v) /\ v.elements = p.writer.elements /\ v \in Writers
      /\ v.characterDepth = p.writer.characterDepth
      /\ p.writer.elements = <<>> => (Faithful(p.writer) => Faithful(v)) /\ Joins(p.writer, v)
  BY InstructionGoes DEF WriterOK
<1> HIDE DEF q, v
<1>3. /\ q \in Printers /\ q.writer = v /\ q.metadata = p.metadata
      /\ q.imageProcessing = p.imageProcessing /\ q.hasError = p.hasError
      /\ q.specialNode = p.specialNode /\ SamePictures(p, q)
  BY <1>1, <1>2 DEF Printers, SamePictures
<1> QED BY <1>1, <1>2, <1>3 DEF q

\* A picture is written where the document has a binary of its name.
LEMMA WriteImageGoes ==
  ASSUME NEW p \in Printers, WriterOK(p.writer), NEW id \in Ids
  PROVE  LET q == WriteImage(p, id)
         IN  /\ Kept(p, q) /\ Written(p, q, DOMAIN p.covers \cap {id}) /\ Undisturbed(p, q)
             /\ q.specialNode /\ q.writer.elements = p.writer.elements
<1> DEFINE q == WriteImage(p, id)
           v == WriteBinary(p.writer)
           c == Without(p.covers, id)
<1>1. /\ Goes(p.writer, v) /\ v.elements = p.writer.elements /\ v \in Writers
      /\ Joins(p.writer, v) /\ v.characterDepth = p.writer.characterDepth
  BY BinaryBalanced DEF Whole, Balanced, Goes, WriterOK
<1>2. p.covers \in Covers /\ c \in Covers /\ p.writer \in Writers
  BY CoversProperties, PrinterMembers
<1> HIDE DEF v
<1>3. CASE id \notin DOMAIN p.covers
  <2>1. q = [p EXCEPT !.specialNode = TRUE]
    BY <1>3 DEF WriteImage
  <2> HIDE DEF q
  <2>2. /\ q \in Printers /\ q.writer = p.writer /\ q.metadata = p.metadata
        /\ q.imageProcessing = p.imageProcessing /\ q.hasError = p.hasError
        /\ q.specialNode = TRUE /\ SamePictures(p, q)
    BY <2>1 DEF Printers, SamePictures
  <2>3. Kept(p, q) /\ Undisturbed(p, q)
    BY <2>2 DEF Kept, Undisturbed, Joins
  <2>4. DOMAIN p.covers \cap {id} = {}
    BY <1>3
  <2>5. p.again \in BOOLEAN
    BY PrinterMembers
  <2>6. Written(p, q, {})
    BY <2>2, <2>5 DEF Written, SamePictures
  <2> QED BY <2>2, <2>3, <2>4, <2>6 DEF q
<1>4. CASE id \in DOMAIN p.covers /\ ~Recodes(p.covers[id], p.imageProcessing)
  <2>1. q = [p EXCEPT !.specialNode = TRUE, !.covers = c]
    BY <1>4 DEF WriteImage, WriteRecoded
  <2> HIDE DEF q
  <2>2. /\ q \in Printers /\ q.writer = p.writer /\ q.metadata = p.metadata
        /\ q.imageProcessing = p.imageProcessing /\ q.hasError = p.hasError
        /\ q.specialNode = TRUE /\ q.covers = c
        /\ q.recoded = p.recoded /\ q.copied = p.copied /\ q.again = p.again
    BY <1>2, <2>1 DEF Printers
  <2>3. Kept(p, q) /\ Undisturbed(p, q)
    BY <2>2 DEF Kept, Undisturbed, Joins
  <2>4. DOMAIN p.covers \cap {id} = {id}
    BY <1>4
  <2>5. p.again \in BOOLEAN
    BY PrinterMembers
  <2>6. DOMAIN c = DOMAIN p.covers \ {id} /\ \A i \in DOMAIN c : c[i] = p.covers[i]
    BY DEF Without
  <2>7. {i \in {id} : Recodes(p.covers[i], p.imageProcessing)} = {}
    BY <1>4
  <2>8. Written(p, q, {id})
    BY <2>2, <2>5, <2>6, <2>7 DEF Written
  <2> QED BY <2>2, <2>3, <2>4, <2>8 DEF q
<1>5. CASE id \in DOMAIN p.covers /\ Recodes(p.covers[id], p.imageProcessing)
  <2>1. q = [p EXCEPT !.writer = v, !.recoded = @ \cup {id},
                      !.again = @ \/ id \in p.recoded \cup p.copied,
                      !.specialNode = TRUE, !.covers = c]
    BY <1>5 DEF WriteImage, WriteRecoded, v
  <2> HIDE DEF q
  <2>2. /\ q \in Printers /\ q.writer = v /\ q.metadata = p.metadata
        /\ q.imageProcessing = p.imageProcessing /\ q.hasError = p.hasError
        /\ q.specialNode = TRUE /\ q.covers = c
        /\ q.recoded = p.recoded \cup {id} /\ q.copied = p.copied
        /\ q.again = (p.again \/ id \in p.recoded \cup p.copied)
    BY <1>1, <1>2, <2>1 DEF Printers
  <2>3. Kept(p, q) /\ Undisturbed(p, q)
    BY <1>1, <2>2 DEF Kept, Goes, Undisturbed
  <2>4. DOMAIN p.covers \cap {id} = {id}
    BY <1>5
  <2>6. DOMAIN c = DOMAIN p.covers \ {id} /\ \A i \in DOMAIN c : c[i] = p.covers[i]
    BY DEF Without
  <2>7. {i \in {id} : Recodes(p.covers[i], p.imageProcessing)} = {id}
    BY <1>5
  <2>8. {id} \cap (p.recoded \cup p.copied) # {} <=> id \in p.recoded \cup p.copied
    OBVIOUS
  <2>9. Written(p, q, {id})
    BY <2>2, <2>6, <2>7, <2>8 DEF Written
  <2> QED BY <1>1, <2>2, <2>3, <2>4, <2>9 DEF q
<1> QED BY <1>3, <1>4, <1>5

\* The others are written at the end.
LEMMA WriteImagesGoes ==
  ASSUME NEW p \in Printers, WriterOK(p.writer)
  PROVE  LET q == WriteImages(p)
         IN  /\ Kept(p, q) /\ Written(p, q, DOMAIN p.covers) /\ Undisturbed(p, q)
             /\ q.specialNode = p.specialNode /\ q.writer.elements = p.writer.elements
<1> DEFINE q == WriteImages(p)
           known == {id \in DOMAIN p.covers : Recodes(p.covers[id], p.imageProcessing)}
           v == IF known = {} THEN p.writer ELSE WriteBinary(p.writer)
           c == [i \in {} |-> 0]
<1>1. Goes(p.writer, v) /\ v.elements = p.writer.elements /\ v \in Writers
  <2>1. p.writer \in Writers
    BY DEF WriterOK
  <2> QED BY <2>1, BinaryBalanced DEF Whole, Balanced, Goes, WriterOK
<1>5. Joins(p.writer, v) /\ v.characterDepth = p.writer.characterDepth
  BY BinaryBalanced DEF Whole, Balanced, Joins
<1>2. p.covers \in Covers /\ c \in Covers /\ DOMAIN p.covers \subseteq Ids
  BY CoversProperties, PrinterMembers
<1>3. q = [p EXCEPT !.writer = v, !.recoded = @ \cup known,
                    !.again = @ \/ known \cap (p.recoded \cup p.copied) # {}, !.covers = c]
  BY DEF WriteImages
<1>4. known \subseteq Ids /\ DOMAIN c = DOMAIN p.covers \ DOMAIN p.covers
      /\ \A id \in DOMAIN c : c[id] = p.covers[id]
  BY <1>2
<1> HIDE DEF q, v, c
<1>6. known = {id \in DOMAIN p.covers : Recodes(p.covers[id], p.imageProcessing)}
  OBVIOUS
<1> HIDE DEF known
<1>7. /\ q \in Printers /\ q.writer = v /\ q.metadata = p.metadata
      /\ q.imageProcessing = p.imageProcessing /\ q.hasError = p.hasError
      /\ q.specialNode = p.specialNode /\ q.covers = c
      /\ q.recoded = p.recoded \cup known /\ q.copied = p.copied
      /\ q.again = (p.again \/ known \cap (p.recoded \cup p.copied) # {})
  <2> DEFINE again == p.again \/ known \cap (p.recoded \cup p.copied) # {}
  <2>1. again \in BOOLEAN
    BY PrinterMembers
  <2>2. q = [p EXCEPT !.writer = v, !.recoded = @ \cup known, !.again = again, !.covers = c]
    BY <1>3
  <2>3. again = (p.again \/ known \cap (p.recoded \cup p.copied) # {})
    OBVIOUS
  <2> HIDE DEF again
  <2>4. v \in Writers /\ c \in Covers /\ known \subseteq Ids
    BY <1>1, <1>2, <1>4
  <2>5. q = [metadata |-> p.metadata, imageProcessing |-> p.imageProcessing, writer |-> v, covers |-> c,
             hasError |-> p.hasError, hasProgramUsed |-> p.hasProgramUsed,
             specialNode |-> p.specialNode, recoded |-> p.recoded \cup known,
             copied |-> p.copied, again |-> again]
    BY <2>2 DEF Printers
  <2>6. q \in Printers
    BY <2>1, <2>4, <2>5, PrinterMembers DEF Printers
  <2>7. /\ q.writer = v /\ q.metadata = p.metadata
        /\ q.imageProcessing = p.imageProcessing /\ q.hasError = p.hasError
        /\ q.specialNode = p.specialNode /\ q.covers = c
        /\ q.recoded = p.recoded \cup known /\ q.copied = p.copied /\ q.again = again
    BY <2>5
  <2> QED BY <2>3, <2>6, <2>7
<1>8. Kept(p, q) /\ Undisturbed(p, q)
  BY <1>1, <1>5, <1>7 DEF Kept, Goes, Undisturbed
<1>9. Written(p, q, DOMAIN p.covers)
  BY <1>4, <1>6, <1>7 DEF Written
<1> QED BY <1>1, <1>7, <1>8, <1>9 DEF q

\* A node of the document is copied, and the metadata put into title-info.
LEMMA CopyGoes ==
  ASSUME NEW p \in Printers, WriterOK(p.writer), NEW name \in Names, NEW path, NEW id,
         name = "binary" => id \in Ids
  PROVE  LET q == AddMetadata(CopyStart(p, name, id), path)
         IN  /\ Kept(p, q) /\ q.specialNode = p.specialNode
             /\ q.writer.characterDepth = p.writer.characterDepth
             /\ name \notin Unbreakable \/ p.writer.characterDepth # 0 => Joins(p.writer, q.writer)
             /\ q.writer.elements = Push(p.writer.elements, name)
             /\ q.covers = p.covers /\ q.recoded = p.recoded
             /\ name # "binary" => q.copied = p.copied /\ q.again = p.again
             /\ name = "binary" =>
                  /\ q.copied = p.copied \cup {id}
                  /\ q.again = (p.again \/ id \in p.recoded \cup p.copied)
<1> DEFINE s == WriteStartElement(p.writer, name)
           a == WriteAttribute(s)
           r == CopyStart(p, name, id)
           v == r.writer
           m == WriteSeries(WriteTitle(WriteAuthor(v)), r.metadata)
           q == AddMetadata(r, path)
<1>1. /\ Goes(p.writer, s) /\ s.elements = Push(p.writer.elements, name) /\ s.tagOpened /\ WriterOK(s)
      /\ s.characterDepth = p.writer.characterDepth
      /\ name \notin Unbreakable \/ p.writer.characterDepth # 0 => Joins(p.writer, s)
  BY StartGoes DEF Goes
<1> HIDE DEF s
<1>2. Goes(s, a) /\ a.elements = s.elements /\ Joins(s, a) /\ a.characterDepth = s.characterDepth
  BY <1>1, AttributeGoes
<1>3. /\ Goes(p.writer, a) /\ a.elements = Push(p.writer.elements, name)
      /\ a.characterDepth = p.writer.characterDepth
      /\ name \notin Unbreakable \/ p.writer.characterDepth # 0 => Joins(p.writer, a)
  BY <1>1, <1>2 DEF Goes, Joins
<1> HIDE DEF a
<1>4. /\ Kept(p, r) /\ r.specialNode = p.specialNode
      /\ r.writer.elements = Push(p.writer.elements, name)
      /\ r.writer.characterDepth = p.writer.characterDepth
      /\ name \notin Unbreakable \/ p.writer.characterDepth # 0 => Joins(p.writer, r.writer)
      /\ r.covers = p.covers /\ r.recoded = p.recoded
      /\ name # "binary" => r.copied = p.copied /\ r.again = p.again
      /\ name = "binary" =>
           /\ r.copied = p.copied \cup {id}
           /\ r.again = (p.again \/ id \in p.recoded \cup p.copied)
  <2>1. CASE name # "binary"
    <3>1. r = [p EXCEPT !.writer = s]
      BY <2>1 DEF CopyStart, s
    <3> HIDE DEF r
    <3>2. Kept(p, r) /\ SamePictures(p, r) /\ r.writer = s /\ r.specialNode = p.specialNode
      BY <1>1, <3>1, WriterReplaced
    <3> QED BY <1>1, <2>1, <3>2 DEF SamePictures
  <2>2. CASE name = "binary"
    <3>1. r = [p EXCEPT !.writer = a, !.copied = @ \cup {id},
                        !.again = @ \/ id \in p.recoded \cup p.copied]
      BY <2>2 DEF CopyStart, s, a
    <3> HIDE DEF r
    <3>2. a \in Writers
      BY <1>3 DEF Goes, WriterOK
    <3>3. /\ r \in Printers /\ r.writer = a /\ r.metadata = p.metadata
          /\ r.imageProcessing = p.imageProcessing /\ r.hasError = p.hasError
          /\ r.specialNode = p.specialNode /\ r.covers = p.covers /\ r.recoded = p.recoded
          /\ r.copied = p.copied \cup {id}
          /\ r.again = (p.again \/ id \in p.recoded \cup p.copied)
      BY <2>2, <3>1, <3>2 DEF Printers
    <3>4. Kept(p, r)
      BY <1>3, <3>3 DEF Kept, Goes
    <3> QED BY <1>3, <2>2, <3>3, <3>4
  <2> QED BY <2>1, <2>2
<1> HIDE DEF r
<1>5. CASE path # TitleInfo \/ r.metadata = "none"
  <2>1. q = r
    BY <1>5 DEF AddMetadata
  <2> QED BY <1>4, <2>1 DEF r
<1>6. CASE ~(path # TitleInfo \/ r.metadata = "none")
  <2>1. r \in Printers /\ WriterOK(v)
    BY <1>4 DEF Kept
  <2>2. Goes(v, m) /\ m.elements = v.elements /\ Joins(v, m) /\ m.characterDepth = v.characterDepth
    BY <2>1, MetadataBalanced DEF Whole, Balanced
  <2>3. q = [r EXCEPT !.writer = m]
    BY <1>6 DEF AddMetadata
  <2> HIDE DEF q, m
  <2>4. Kept(r, q) /\ SamePictures(r, q) /\ q.writer = m /\ q.specialNode = r.specialNode
    BY <2>1, <2>2, <2>3, WriterReplaced
  <2>5. Kept(p, q)
    BY <1>4, <2>4 DEF Kept
  <2>6. /\ q.writer.elements = Push(p.writer.elements, name)
        /\ q.writer.characterDepth = p.writer.characterDepth
        /\ name \notin Unbreakable \/ p.writer.characterDepth # 0 => Joins(p.writer, q.writer)
    BY <1>4, <2>2, <2>4 DEF Joins
  <2> QED BY <1>4, <2>4, <2>5, <2>6 DEF SamePictures, q, r
<1> QED BY <1>5, <1>6

\* A node is left out inside of one that is, and when it is to be replaced.
Skips(p, path) == p.specialNode \/ (p.metadata # "none" /\ path \in Replaced)

\* What the start of a node does: it is left out, taken for a picture, or copied.
StartDone(p, q, name, path, id) ==
  /\ Kept(p, q) /\ q.writer.characterDepth = p.writer.characterDepth
  /\ Skips(p, path) \/ name \notin Unbreakable \/ p.writer.characterDepth # 0 =>
       Joins(p.writer, q.writer)
  /\ Skips(p, path) =>
       /\ SamePictures(p, q) /\ q.specialNode
       /\ q.writer.elements = p.writer.elements
  /\ ~Skips(p, path) /\ name = "binary" /\ DOMAIN p.covers # {} =>
       /\ Written(p, q, DOMAIN p.covers \cap {id}) /\ q.specialNode
       /\ q.writer.elements = p.writer.elements
  /\ ~Skips(p, path) /\ name = "binary" /\ DOMAIN p.covers = {} =>
       /\ ~q.specialNode /\ q.writer.elements = Push(p.writer.elements, name)
       /\ q.covers = p.covers /\ q.recoded = p.recoded
       /\ q.copied = p.copied \cup {id}
       /\ q.again = (p.again \/ id \in p.recoded \cup p.copied)
  /\ ~Skips(p, path) /\ name # "binary" =>
       /\ ~q.specialNode /\ q.writer.elements = Push(p.writer.elements, name)
       /\ SamePictures(p, q)

LEMMA PrinterStartGoes ==
  ASSUME NEW p \in Printers, WriterOK(p.writer), NEW name \in Names, NEW path, NEW id,
         name = "binary" => id \in Ids
  PROVE  /\ PrinterStartElement(p, name, path, id).go
         /\ StartDone(p, PrinterStartElement(p, name, path, id).self, name, path, id)
<1> DEFINE q == PrinterStartElement(p, name, path, id).self
<1>1. PrinterStartElement(p, name, path, id).go
  BY DEF PrinterStartElement, True, Skips
<1>2. TakesOver(p, name, id) <=> name = "binary" /\ DOMAIN p.covers # {}
  BY PrinterMembers, CoversProperties DEF TakesOver
<1>3. CASE Skips(p, path)
  <2>1. q = [p EXCEPT !.specialNode = TRUE]
    BY <1>3 DEF PrinterStartElement, True, Skips
  <2> HIDE DEF q
  <2>2. /\ q \in Printers /\ q.writer = p.writer /\ q.metadata = p.metadata
        /\ q.imageProcessing = p.imageProcessing /\ q.hasError = p.hasError
        /\ q.specialNode = TRUE /\ SamePictures(p, q)
    BY <2>1 DEF Printers, SamePictures
  <2>3. Kept(p, q) /\ Undisturbed(p, q)
    BY <2>2 DEF Kept, Undisturbed, Joins
  <2> QED BY <1>1, <1>3, <2>2, <2>3 DEF q, StartDone, Undisturbed
<1>4. CASE ~Skips(p, path) /\ TakesOver(p, name, id)
  <2>1. q = WriteImage(p, id) /\ id \in Ids
    BY <1>2, <1>4 DEF PrinterStartElement, True, Skips
  <2> HIDE DEF q
  <2>2. /\ Kept(p, q) /\ Written(p, q, DOMAIN p.covers \cap {id})
        /\ q.specialNode /\ q.writer.elements = p.writer.elements /\ Undisturbed(p, q)
    BY <2>1, WriteImageGoes
  <2> QED BY <1>1, <1>2, <1>4, <2>2 DEF q, StartDone, Undisturbed
<1>5. CASE ~Skips(p, path) /\ ~TakesOver(p, name, id)
  <2>1. q = AddMetadata(CopyStart(p, name, id), path)
    BY <1>5 DEF PrinterStartElement, True, Skips
  <2> HIDE DEF q
  <2>2. /\ Kept(p, q) /\ q.specialNode = p.specialNode
        /\ q.writer.elements = Push(p.writer.elements, name)
        /\ q.writer.characterDepth = p.writer.characterDepth
        /\ name \notin Unbreakable \/ p.writer.characterDepth # 0 => Joins(p.writer, q.writer)
        /\ q.covers = p.covers /\ q.recoded = p.recoded
        /\ name # "binary" => q.copied = p.copied /\ q.again = p.again
        /\ name = "binary" =>
             /\ q.copied = p.copied \cup {id}
             /\ q.again = (p.again \/ id \in p.recoded \cup p.copied)
    BY <2>1, CopyGoes
  <2>3. ~q.specialNode
    BY <1>5, <2>2 DEF Skips
  <2>4. CASE name = "binary"
    BY <1>1, <1>2, <1>5, <2>2, <2>3, <2>4 DEF q, StartDone
  <2>5. CASE name # "binary"
    <3>1. SamePictures(p, q)
      BY <2>2, <2>5 DEF SamePictures
    <3> QED BY <1>1, <1>5, <2>2, <2>3, <2>5, <3>1 DEF q, StartDone
  <2> QED BY <2>4, <2>5
<1> QED BY <1>3, <1>4, <1>5

\* The end of a node: it ends what was left out, or the last element.
LEMMA PrinterEndGoes ==
  ASSUME NEW p \in Printers, WriterOK(p.writer), NEW name, NEW path,
         ~p.specialNode => p.writer.elements # <<>>
  PROVE  LET q == PrinterEndElement(p, name, path).self
         IN  /\ PrinterEndElement(p, name, path).go /\ Kept(p, q) /\ Joins(p.writer, q.writer)
             /\ p.specialNode =>
                  /\ SamePictures(p, q) /\ q.writer = p.writer
                  /\ q.specialNode = StaysSpecial(p, name, path)
             /\ ~p.specialNode =>
                  /\ q.writer.elements = Pop(p.writer.elements) /\ ~q.specialNode
                  /\ q.writer.characterDepth = DepthAfterEnd(p.writer)
                  /\ path = FictionBook => Written(p, q, DOMAIN p.covers)
                  /\ path # FictionBook => SamePictures(p, q)
<1> DEFINE q == PrinterEndElement(p, name, path).self
           s == Stamp(p, path)
           f == IF path = FictionBook THEN WriteImages(s) ELSE s
           v == WriteEndElement(f.writer)
<1>1. PrinterEndElement(p, name, path).go
  BY DEF PrinterEndElement, True
<1>2. CASE p.specialNode
  <2> DEFINE stays == StaysSpecial(p, name, path)
  <2>1. q = [p EXCEPT !.specialNode = stays]
    BY <1>2 DEF PrinterEndElement, True
  <2>2. stays \in BOOLEAN
    BY DEF StaysSpecial
  <2> HIDE DEF q, stays
  <2>3. /\ q \in Printers /\ q.writer = p.writer /\ q.metadata = p.metadata
        /\ q.imageProcessing = p.imageProcessing /\ q.hasError = p.hasError
        /\ q.specialNode = stays /\ SamePictures(p, q)
    BY <2>1, <2>2 DEF Printers, SamePictures
  <2>4. Kept(p, q) /\ Joins(p.writer, q.writer)
    BY <2>3 DEF Kept, Joins
  <2> QED BY <1>1, <1>2, <2>3, <2>4 DEF q, stays
<1>3. CASE ~p.specialNode
  <2>1. /\ Kept(p, s) /\ SamePictures(p, s) /\ ~s.specialNode /\ s.writer.elements = p.writer.elements
        /\ Undisturbed(p, s)
    <3> DEFINE a == WriteProgramUsed(p.writer)
               b == WriteEndElement(WriteProgramUsed(WriteStartElement(p.writer, "document-info")))
    <3>1. /\ Whole(p.writer, a) /\ Goes(p.writer, a) /\ a.elements = p.writer.elements /\ a \in Writers
          /\ Whole(p.writer, b) /\ Goes(p.writer, b) /\ b.elements = p.writer.elements /\ b \in Writers
      BY ProgramUsedBalanced DEF Whole, Balanced, Goes, WriterOK
    <3>2. s = p \/ s = [p EXCEPT !.writer = a, !.hasProgramUsed = TRUE]
                \/ s = [p EXCEPT !.writer = b, !.hasProgramUsed = TRUE]
      BY DEF Stamp
    <3> HIDE DEF a, b, s
    <3>3. CASE s = p
      BY <1>3, <3>3 DEF Kept, SamePictures, Undisturbed, Joins
    <3>4. ASSUME NEW u \in {a, b}, s = [p EXCEPT !.writer = u, !.hasProgramUsed = TRUE]
          PROVE  Kept(p, s) /\ SamePictures(p, s) /\ ~s.specialNode
                 /\ s.writer.elements = p.writer.elements /\ Undisturbed(p, s)
      <4>1. Whole(p.writer, u) /\ Goes(p.writer, u) /\ u.elements = p.writer.elements /\ u \in Writers
        BY <3>1
      <4>2. /\ s \in Printers /\ s.writer = u /\ s.metadata = p.metadata
            /\ s.imageProcessing = p.imageProcessing /\ s.hasError = p.hasError
            /\ s.specialNode = p.specialNode /\ SamePictures(p, s)
        BY <3>4, <4>1 DEF Printers, SamePictures
      <4>3. Kept(p, s)
        BY <4>1, <4>2 DEF Kept, Goes
      <4>4. Undisturbed(p, s)
        BY <4>1, <4>2 DEF Undisturbed, Whole, Balanced
      <4> QED BY <1>3, <4>1, <4>2, <4>3, <4>4
    <3> QED BY <3>2, <3>3, <3>4
  <2>2. q = [f EXCEPT !.writer = v]
    BY <1>3 DEF PrinterEndElement, True
  <2> HIDE DEF s
  <2>3. /\ Kept(s, f) /\ Undisturbed(s, f) /\ f.specialNode = s.specialNode /\ f.writer.elements = s.writer.elements
        /\ path = FictionBook => Written(s, f, DOMAIN s.covers)
        /\ path # FictionBook => SamePictures(s, f)
    <3>1. s \in Printers /\ WriterOK(s.writer)
      BY <2>1 DEF Kept
    <3>2. CASE path = FictionBook
      BY <3>1, <3>2, WriteImagesGoes
    <3>3. CASE path # FictionBook
      BY <3>1, <3>3 DEF Kept, SamePictures, Undisturbed, Joins
    <3> QED BY <3>2, <3>3
  <2> HIDE DEF f, q
  <2>4. f \in Printers /\ WriterOK(f.writer) /\ f.writer.elements = p.writer.elements
        /\ Kept(p, f) /\ Undisturbed(p, f)
    BY <2>1, <2>3 DEF Kept, Undisturbed, Joins
  <2>5. /\ Goes(f.writer, v) /\ v.elements = Pop(p.writer.elements)
        /\ Joins(f.writer, v) /\ v.characterDepth = DepthAfterEnd(f.writer)
    BY <1>3, <2>4, EndGoes
  <2> HIDE DEF v
  <2>6. Kept(f, q) /\ SamePictures(f, q) /\ q.writer = v /\ q.specialNode = f.specialNode
    BY <2>2, <2>4, <2>5, WriterReplaced
  <2>7. Kept(p, q) /\ ~q.specialNode /\ q.writer.elements = Pop(p.writer.elements)
    BY <2>1, <2>3, <2>4, <2>5, <2>6 DEF Kept
  <2>8. ASSUME path = FictionBook
        PROVE  Written(p, q, DOMAIN p.covers)
    BY <2>1, <2>3, <2>6, <2>8 DEF Written, SamePictures, Kept
  <2>9. ASSUME path # FictionBook
        PROVE  SamePictures(p, q)
    BY <2>1, <2>3, <2>6, <2>9 DEF SamePictures
  <2>10. Joins(p.writer, q.writer) /\ q.writer.characterDepth = DepthAfterEnd(p.writer)
    BY <2>4, <2>5, <2>6 DEF Undisturbed, Joins, DepthAfterEnd
  <2> QED BY <1>1, <1>3, <2>7, <2>8, <2>9, <2>10 DEF q
<1> QED BY <1>2, <1>3

-----------------------------------------------------------------------------
(* The paths of the nodes that are left out.                                 *)

MetadataNames == {"author", "book-title", "sequence"}

\* The node at depth k of the path s is one of them.
LeftOutAt(s, k) ==
  \/ k = 2 /\ s[1] = "FictionBook" /\ s[2] = "binary"
  \/ /\ k = 4 /\ s[1] = "FictionBook" /\ s[2] = "description" /\ s[3] = "title-info"
     /\ s[4] \in MetadataNames

\* The elements lead to the one of the path s that is left out.
LeadsOut(elements, s) ==
  /\ Len(elements) < Len(s)
  /\ \A i \in 1 .. Len(elements) : elements[i] = s[i]
  /\ LeftOutAt(s, Len(elements) + 1)

LEMMA KnownPaths ==
  /\ FictionBook = <<"FictionBook">>
  /\ Append(FictionBook, "binary") = <<"FictionBook", "binary">>
  /\ Replaced = {<<"FictionBook", "description", "title-info", name>> : name \in MetadataNames}
<1>1. ASSUME NEW s \in Seq(Names), NEW e \in Names, NEW t \in Seq(Names),
             Len(t) = Len(s) + 1, \A i \in 1 .. Len(s) : t[i] = s[i], t[Len(s) + 1] = e
      PROVE  Append(s, e) = t
  <2> DEFINE u == Push(s, e)
  <2>1. u \in Seq(Names)
    BY PushTyped
  <2>2. /\ Len(s) \in Nat /\ DOMAIN s = 1 .. Len(s) /\ Len(u) = Len(s) + 1
        /\ \A i \in DOMAIN s : u[i] = s[i]
        /\ u[Len(s) + 1] = e
    BY PushProperties
  <2> HIDE DEF u
  <2>3. \A i \in 1 .. Len(u) : u[i] = t[i]
    <3>1. \A i \in 1 .. Len(u) : i \in DOMAIN s \/ i = Len(s) + 1
      BY <2>2
    <3> QED BY <1>1, <2>2, <3>1
  <2>4. u = t
    BY <1>1, <2>1, <2>2, <2>3, SeqEqual
  <2> QED BY <2>4 DEF u, Push
<1>2. /\ "title-info" \in Names /\ "description" \in Names /\ "FictionBook" \in Names
      /\ "binary" \in Names /\ MetadataNames \subseteq Names
  BY DEF Names, MetadataNames
<1> DEFINE one == <<"FictionBook">>
           two == <<"FictionBook", "description">>
           three == <<"FictionBook", "description", "title-info">>
           picture == <<"FictionBook", "binary">>
           four(name) == <<"FictionBook", "description", "title-info", name>>
<1>3. /\ one \in Seq(Names) /\ two \in Seq(Names) /\ three \in Seq(Names)
      /\ picture \in Seq(Names) /\ \A name \in MetadataNames : four(name) \in Seq(Names)
  BY <1>2
<1>4. /\ Len(two) = Len(one) + 1 /\ \A i \in 1 .. Len(one) : two[i] = one[i]
      /\ two[Len(one) + 1] = "description"
  OBVIOUS
<1>5. /\ Len(picture) = Len(one) + 1 /\ \A i \in 1 .. Len(one) : picture[i] = one[i]
      /\ picture[Len(one) + 1] = "binary"
  OBVIOUS
<1>6. /\ Len(three) = Len(two) + 1 /\ \A i \in 1 .. Len(two) : three[i] = two[i]
      /\ three[Len(two) + 1] = "title-info"
  OBVIOUS
<1>7. ASSUME NEW name \in MetadataNames
      PROVE  /\ Len(four(name)) = Len(three) + 1
             /\ \A i \in 1 .. Len(three) : four(name)[i] = three[i]
             /\ four(name)[Len(three) + 1] = name
  OBVIOUS
<1> HIDE DEF one, two, three, picture, four
<1>8. /\ Append(one, "binary") = picture /\ Append(one, "description") = two
      /\ Append(two, "title-info") = three
      /\ \A name \in MetadataNames : Append(three, name) = four(name)
  BY <1>1, <1>2, <1>3, <1>4, <1>5, <1>6, <1>7
<1>9. FictionBook = one /\ Description = two /\ TitleInfo = three
  <2>1. FictionBook = one
    BY DEF FictionBook, one
  <2>2. Description = two
    BY <1>8, <2>1 DEF Description
  <2>3. TitleInfo = three
    BY <1>8, <2>2 DEF TitleInfo
  <2> QED BY <2>1, <2>2, <2>3
<1>10. Replaced = {four(name) : name \in MetadataNames}
  BY <1>8, <1>9 DEF Replaced, MetadataNames
<1> QED BY <1>8, <1>9, <1>10 DEF one, picture, four

\* A path is known by its names.
LEMMA PathsByName ==
  ASSUME NEW t \in Seq(Names)
  PROVE  /\ t = FictionBook <=> Len(t) = 1 /\ t[1] = "FictionBook"
         /\ t \in Replaced \cup {Append(FictionBook, "binary")} <=> LeftOutAt(t, Len(t))
         /\ t \in Replaced <=> Len(t) = 4 /\ LeftOutAt(t, 4)
<1>1. t = FictionBook <=> Len(t) = 1 /\ t[1] = "FictionBook"
  <2>1. ASSUME Len(t) = 1, t[1] = "FictionBook"
        PROVE  t = <<"FictionBook">>
    <3>1. <<"FictionBook">> \in Seq(Names)
      BY SomeNames
    <3>2. \A i \in 1 .. Len(t) : t[i] = <<"FictionBook">>[i]
      BY <2>1
    <3> QED BY <2>1, <3>1, <3>2, SeqEqual
  <2> QED BY <2>1, KnownPaths
<1>2. t = <<"FictionBook", "binary">> <=> Len(t) = 2 /\ t[1] = "FictionBook" /\ t[2] = "binary"
  <2>1. ASSUME Len(t) = 2, t[1] = "FictionBook", t[2] = "binary"
        PROVE  t = <<"FictionBook", "binary">>
    <3>1. <<"FictionBook", "binary">> \in Seq(Names)
      BY SomeNames
    <3>2. \A i \in 1 .. Len(t) : t[i] = <<"FictionBook", "binary">>[i]
      BY <2>1
    <3> QED BY <2>1, <3>1, <3>2, SeqEqual
  <2> QED BY <2>1
<1>3. ASSUME NEW name \in MetadataNames
      PROVE  t = <<"FictionBook", "description", "title-info", name>> <=>
               /\ Len(t) = 4 /\ t[1] = "FictionBook" /\ t[2] = "description" /\ t[3] = "title-info"
               /\ t[4] = name
  <2>1. ASSUME Len(t) = 4, t[1] = "FictionBook", t[2] = "description", t[3] = "title-info",
               t[4] = name
        PROVE  t = <<"FictionBook", "description", "title-info", name>>
    <3>1. <<"FictionBook", "description", "title-info", name>> \in Seq(Names)
      BY DEF Names, MetadataNames
    <3>2. \A i \in 1 .. Len(t) : t[i] = <<"FictionBook", "description", "title-info", name>>[i]
      BY <2>1
    <3> QED BY <2>1, <3>1, <3>2, SeqEqual
  <2> QED BY <2>1
<1>4. t \in Replaced <=> Len(t) = 4 /\ LeftOutAt(t, 4)
  <2>1. t \in Replaced <=>
          \E name \in MetadataNames : t = <<"FictionBook", "description", "title-info", name>>
    BY KnownPaths
  <2>2. Len(t) = 4 /\ LeftOutAt(t, 4) <=>
          \E name \in MetadataNames :
            /\ Len(t) = 4 /\ t[1] = "FictionBook" /\ t[2] = "description" /\ t[3] = "title-info"
            /\ t[4] = name
    BY DEF LeftOutAt
  <2> QED BY <1>3, <2>1, <2>2
<1>5. t \in Replaced \cup {Append(FictionBook, "binary")} <=> LeftOutAt(t, Len(t))
  <2>1. t = Append(FictionBook, "binary") <=> Len(t) = 2 /\ LeftOutAt(t, 2)
    BY <1>2, KnownPaths DEF LeftOutAt
  <2>2. LeftOutAt(t, Len(t)) <=> (Len(t) = 2 /\ LeftOutAt(t, 2)) \/ (Len(t) = 4 /\ LeftOutAt(t, 4))
    BY DEF LeftOutAt
  <2> QED BY <1>4, <2>1, <2>2
<1> QED BY <1>1, <1>4, <1>5

\* How a writer is in step, name by name.
LEMMA InStepByName ==
  ASSUME NEW s \in Seq(Names), NEW elements \in Seq(Names)
  PROVE  LeadsOut(elements, s) <=>
           \E n \in 0 .. Len(s) - 1 :
             /\ elements = SubSeq(s, 1, n)
             /\ SubSeq(s, 1, n + 1) \in Replaced \cup {Append(FictionBook, "binary")}
<1>1. Len(s) \in Nat /\ Len(elements) \in Nat
  BY LenProperties
<1>2. ASSUME NEW n \in 0 .. Len(s)
      PROVE  /\ SubSeq(s, 1, n) \in Seq(Names) /\ Len(SubSeq(s, 1, n)) = n
             /\ \A i \in 1 .. n : SubSeq(s, 1, n)[i] = s[i]
  <2>1. \A i \in 1 .. n : s[i] \in Names
    BY <1>1, ElementOfSeq
  <2>2. /\ SubSeq(s, 1, n) \in Seq(Names)
        /\ Len(SubSeq(s, 1, n)) = IF 1 <= n THEN n - 1 + 1 ELSE 0
        /\ \A i \in 1 .. n - 1 + 1 : SubSeq(s, 1, n)[i] = s[1 + i - 1]
    BY <1>1, <2>1, SubSeqProperties
  <2> QED BY <1>1, <2>2
<1>3. ASSUME NEW n \in 0 .. Len(s) - 1
      PROVE  /\ elements = SubSeq(s, 1, n) <=>
                  Len(elements) = n /\ \A i \in 1 .. n : elements[i] = s[i]
             /\ SubSeq(s, 1, n + 1) \in Replaced \cup {Append(FictionBook, "binary")} <=>
                  LeftOutAt(s, n + 1)
  <2> DEFINE t == SubSeq(s, 1, n)
             u == SubSeq(s, 1, n + 1)
  <2>1. n \in 0 .. Len(s) /\ n + 1 \in 0 .. Len(s)
    BY <1>1
  <2>2. t \in Seq(Names) /\ Len(t) = n /\ \A i \in 1 .. n : t[i] = s[i]
    BY <1>2, <2>1
  <2>3. u \in Seq(Names) /\ Len(u) = n + 1 /\ \A i \in 1 .. n + 1 : u[i] = s[i]
    BY <1>2, <2>1
  <2> HIDE DEF t, u
  <2>4. elements = t <=> Len(elements) = n /\ \A i \in 1 .. n : elements[i] = s[i]
    <3>1. ASSUME Len(elements) = n, \A i \in 1 .. n : elements[i] = s[i]
          PROVE  elements = t
      BY <2>2, <3>1, SeqEqual
    <3> QED BY <2>2, <3>1
  <2>5. u \in Replaced \cup {Append(FictionBook, "binary")} <=> LeftOutAt(u, n + 1)
    BY <2>3, PathsByName
  <2>6. LeftOutAt(u, n + 1) <=> LeftOutAt(s, n + 1)
    BY <2>3 DEF LeftOutAt
  <2> QED BY <2>4, <2>5, <2>6 DEF t, u
<1>4. ASSUME LeadsOut(elements, s)
      PROVE  \E n \in 0 .. Len(s) - 1 :
               Len(elements) = n /\ (\A i \in 1 .. n : elements[i] = s[i]) /\ LeftOutAt(s, n + 1)
  <2>1. Len(elements) \in 0 .. Len(s) - 1
    BY <1>1, <1>4 DEF LeadsOut
  <2> QED BY <1>4, <2>1 DEF LeadsOut
<1>5. ASSUME NEW n \in 0 .. Len(s) - 1, Len(elements) = n, \A i \in 1 .. n : elements[i] = s[i],
             LeftOutAt(s, n + 1)
      PROVE  LeadsOut(elements, s)
  BY <1>1, <1>5 DEF LeadsOut
<1> QED BY <1>3, <1>4, <1>5

-----------------------------------------------------------------------------
(* Every call keeps the writer in step and the pictures right.               *)

InStepOf(p, s) ==
  IF p.specialNode THEN LeadsOut(p.writer.elements, s) ELSE p.writer.elements = s

LEMMA StartInStep ==
  ASSUME NEW p \in Printers, WriterOK(p.writer), NEW s \in Seq(Names), NEW name \in Names, NEW id,
         name = "binary" => id \in Ids /\ s = FictionBook,
         InStepOf(p, s)
  PROVE  InStepOf(PrinterStartElement(p, name, Push(s, name), id).self, Push(s, name))
<1> DEFINE path == Push(s, name)
           q == PrinterStartElement(p, name, path, id).self
           elements == p.writer.elements
<1>1. /\ Skips(p, path) \/ (name = "binary" /\ DOMAIN p.covers # {}) =>
           q.specialNode /\ q.writer.elements = elements
      /\ ~Skips(p, path) /\ ~(name = "binary" /\ DOMAIN p.covers # {}) =>
           ~q.specialNode /\ q.writer.elements = path
  <2>1. ~Skips(p, path) => elements = s
    BY DEF InStepOf, Skips
  <2>2. name = "binary" => id \in Ids
    OBVIOUS
  <2>3. /\ Skips(p, path) => q.specialNode /\ q.writer.elements = elements
        /\ ~Skips(p, path) /\ name = "binary" /\ DOMAIN p.covers # {} =>
             q.specialNode /\ q.writer.elements = elements
        /\ ~Skips(p, path) /\ name = "binary" /\ DOMAIN p.covers = {} =>
             ~q.specialNode /\ q.writer.elements = Push(elements, name)
        /\ ~Skips(p, path) /\ name # "binary" =>
             ~q.specialNode /\ q.writer.elements = Push(elements, name)
    <3>1. StartDone(p, q, name, path, id)
      BY <2>2, PrinterStartGoes
    <3> HIDE DEF q, path
    <3> QED BY <3>1 DEF StartDone
  <2> HIDE DEF q
  <2>4. ~Skips(p, path) => Push(elements, name) = path
    BY <2>1 DEF path
  <2> HIDE DEF elements
  <2> QED BY <2>3, <2>4
<1>2. path \in Seq(Names)
  BY PushTyped
<1>3. /\ Len(s) \in Nat /\ DOMAIN s = 1 .. Len(s) /\ Len(path) = Len(s) + 1
      /\ \A i \in DOMAIN s : path[i] = s[i]
      /\ path[Len(s) + 1] = name
  BY PushProperties
<1> HIDE DEF q, path
<1>4. Len(elements) \in Nat
  BY LenProperties DEF WriterOK, Writers
<1>5. CASE p.specialNode
  <2>1. LeadsOut(elements, s)
    BY <1>5 DEF InStepOf
  <2>2. LeadsOut(elements, path)
    <3>1. Len(elements) < Len(s) /\ Len(elements) < Len(path)
      BY <1>3, <1>4, <2>1 DEF LeadsOut
    <3>2. \A i \in 1 .. Len(elements) + 1 : path[i] = s[i]
      BY <1>3, <1>4, <3>1
    <3>3. \A i \in 1 .. Len(elements) : elements[i] = path[i]
      BY <1>4, <2>1, <3>2 DEF LeadsOut
    <3>4. LeftOutAt(path, Len(elements) + 1)
      <4>1. LeftOutAt(s, Len(elements) + 1)
        BY <2>1 DEF LeadsOut
      <4> HIDE DEF elements
      <4> QED BY <3>2, <4>1 DEF LeftOutAt
    <3> QED BY <3>1, <3>3, <3>4 DEF LeadsOut
  <2> QED BY <1>1, <1>5, <2>2 DEF InStepOf, path, q, Skips
<1>6. CASE ~p.specialNode /\ (Skips(p, path) \/ (name = "binary" /\ DOMAIN p.covers # {}))
  <2>1. elements = s
    BY <1>6 DEF InStepOf
  <2>2. path \in Replaced \cup {Append(FictionBook, "binary")}
    BY <1>6 DEF path, Push, Skips
  <2>3. LeftOutAt(path, Len(path))
    BY <1>2, <2>2, PathsByName
  <2>4. LeadsOut(elements, path)
    BY <1>3, <2>1, <2>3 DEF LeadsOut
  <2> QED BY <1>1, <1>6, <2>4 DEF InStepOf, path, q
<1>7. CASE ~p.specialNode /\ ~(Skips(p, path) \/ (name = "binary" /\ DOMAIN p.covers # {}))
  BY <1>1, <1>7 DEF InStepOf, path, q, Skips
<1> QED BY <1>5, <1>6, <1>7

LEMMA EndInStep ==
  ASSUME NEW p \in Printers, WriterOK(p.writer), NEW s \in Seq(Names), s # <<>>,
         BinaryAlone(s), InStepOf(p, s)
  PROVE  InStepOf(PrinterEndElement(p, Top(s), s).self, Pop(s))
<1> DEFINE name == Top(s)
           q == PrinterEndElement(p, name, s).self
           elements == p.writer.elements
           rest == Pop(s)
<1>1. /\ Len(s) \in Nat \ {0} /\ DOMAIN s = 1 .. Len(s) /\ name = s[Len(s)]
      /\ Len(rest) = Len(s) - 1
      /\ DOMAIN rest = 1 .. Len(s) - 1 /\ \A i \in DOMAIN rest : rest[i] = s[i]
  BY PopProperties
<1>2. rest \in Seq(Names) /\ elements \in Seq(Names) /\ Len(elements) \in Nat
  <2>1. rest \in Seq(Names)
    BY PopProperties
  <2>2. elements \in Seq(Names)
    BY DEF WriterOK, Writers
  <2> QED BY <2>1, <2>2, LenProperties
<1>3. /\ p.specialNode => q.writer.elements = elements /\ q.specialNode = StaysSpecial(p, name, s)
      /\ ~p.specialNode => q.writer.elements = Pop(elements) /\ ~q.specialNode
  <2>1. ~p.specialNode => p.writer.elements # <<>>
    BY DEF InStepOf
  <2> HIDE DEF name
  <2> QED BY <2>1, PrinterEndGoes
<1> HIDE DEF q, rest, name
<1>4. CASE ~p.specialNode
  <2>1. elements = s /\ q.writer.elements = Pop(elements) /\ ~q.specialNode
    BY <1>3, <1>4 DEF InStepOf
  <2> QED BY <2>1 DEF InStepOf, q, rest, name
<1> DEFINE n == Len(elements)
           m == Len(s)
<1>5. /\ n \in Nat /\ m \in Nat \ {0} /\ m \in DOMAIN s /\ DOMAIN s = 1 .. m /\ name = s[m]
      /\ Len(rest) = m - 1 /\ DOMAIN rest = 1 .. m - 1 /\ \A i \in 1 .. m - 1 : rest[i] = s[i]
  <2>1. Len(s) \in 1 .. Len(s)
    BY <1>1
  <2> QED BY <1>1, <1>2, <2>1
<1>6. Len(elements) = n /\ Len(s) = m
  OBVIOUS
<1> HIDE DEF n, m, elements
<1>7. CASE p.specialNode
  <2>1. LeadsOut(elements, s) /\ q.writer.elements = elements /\ q.specialNode = StaysSpecial(p, name, s)
    BY <1>3, <1>7 DEF InStepOf, elements
  <2>2. LeftOutAt(s, n + 1) /\ n < m /\ \A i \in 1 .. n : elements[i] = s[i]
    BY <1>6, <2>1 DEF LeadsOut
  <2>3. CASE n + 1 = m
    <3>1. name = "binary" \/ s \in Replaced
      <4>1. LeftOutAt(s, m)
        BY <2>2, <2>3
      <4>2. CASE m = 2
        BY <1>5, <4>1, <4>2 DEF LeftOutAt
      <4>3. CASE m = 4
        BY <1>6, <4>1, <4>3, PathsByName
      <4> QED BY <4>1, <4>2, <4>3 DEF LeftOutAt
    <3>2. ~q.specialNode
      BY <2>1, <3>1 DEF StaysSpecial
    <3>3. elements = rest
      <4>1. n = Len(rest)
        BY <1>5, <2>3
      <4>2. \A i \in 1 .. n : elements[i] = rest[i]
        BY <1>5, <2>2, <2>3
      <4> QED BY <1>2, <1>6, <4>1, <4>2, SeqEqual
    <3> QED BY <2>1, <3>2, <3>3 DEF InStepOf, q, rest, name
  <2>4. CASE n + 1 # m
    <3>1. n + 1 < m
      BY <1>5, <2>2, <2>4
    <3>2. \A i \in 1 .. m : s[i] = "binary" => i = 2 /\ m = 2
      BY <1>5, <1>6 DEF BinaryAlone
    <3>3. n + 1 = 4
      <4>1. n + 1 # 2 \/ s[2] # "binary"
        BY <1>5, <3>1, <3>2
      <4> QED BY <2>2, <4>1 DEF LeftOutAt
    <3>4. name # "binary"
      BY <1>5, <3>1, <3>2, <3>3
    <3>5. s \notin Replaced
      <4>1. m # 4
        BY <3>1, <3>3
      <4> QED BY <1>6, <4>1, PathsByName
    <3>6. q.specialNode = TRUE
      BY <2>1, <3>4, <3>5 DEF StaysSpecial
    <3>7. LeadsOut(elements, rest)
      <4>1. n < m - 1
        BY <1>5, <3>1
      <4>2. \A i \in 1 .. n + 1 : rest[i] = s[i]
        BY <1>5, <4>1
      <4>3. \A i \in 1 .. n : elements[i] = rest[i]
        BY <1>5, <2>2, <4>2
      <4>4. LeftOutAt(rest, n + 1)
        BY <2>2, <3>3, <4>2 DEF LeftOutAt
      <4> QED BY <1>5, <1>6, <4>1, <4>3, <4>4 DEF LeadsOut
    <3> QED BY <2>1, <3>6, <3>7 DEF InStepOf, q, rest, name
  <2> QED BY <2>3, <2>4
<1> QED BY <1>4, <1>7

LEMMA PicturesAlone ==
  ASSUME NEW p, NEW q, SamePictures(p, q), q.imageProcessing = p.imageProcessing,
         NEW known, NEW coming, NEW rest \in SUBSET coming, PicturesRight(p, known, coming)
  PROVE  PicturesRight(q, known, rest)
BY DEF SamePictures, PicturesRight

LEMMA PicturesWritten ==
  ASSUME NEW p, NEW q, NEW ids \in SUBSET DOMAIN p.covers, Written(p, q, ids),
         q.imageProcessing = p.imageProcessing,
         NEW known, NEW coming, NEW rest \in SUBSET coming, rest \cap ids = {},
         PicturesRight(p, known, coming)
  PROVE  PicturesRight(q, known, rest)
<1> DEFINE encoded == {id \in ids : Recodes(p.covers[id], p.imageProcessing)}
<1>1. /\ DOMAIN p.covers \subseteq DOMAIN known
      /\ \A id \in DOMAIN p.covers : p.covers[id] = known[id]
      /\ p.recoded = {id \in DOMAIN known \ DOMAIN p.covers : Recodes(known[id], p.imageProcessing)}
      /\ p.copied # {} => DOMAIN p.covers = {}
      /\ coming \cap (p.recoded \cup p.copied) = {} /\ ~p.again
  BY DEF PicturesRight
<1>2. /\ DOMAIN q.covers = DOMAIN p.covers \ ids
      /\ \A id \in DOMAIN q.covers : q.covers[id] = p.covers[id]
      /\ q.recoded = p.recoded \cup encoded /\ q.copied = p.copied
      /\ q.again = (p.again \/ encoded \cap (p.recoded \cup p.copied) # {})
  BY DEF Written
<1>3. encoded = {id \in ids : Recodes(known[id], p.imageProcessing)}
  BY <1>1
<1>4. encoded \cap p.recoded = {} /\ encoded \cap p.copied = {} /\ encoded \subseteq ids
  BY <1>1
<1> HIDE DEF encoded
<1>5. ~q.again
  BY <1>1, <1>2, <1>4
<1>6. q.recoded = {id \in DOMAIN known \ DOMAIN q.covers : Recodes(known[id], q.imageProcessing)}
  BY <1>1, <1>2, <1>3
<1>7. rest \cap (q.recoded \cup q.copied) = {}
  BY <1>1, <1>2, <1>4
<1>8. /\ DOMAIN q.covers \subseteq DOMAIN known
      /\ \A id \in DOMAIN q.covers : q.covers[id] = known[id]
      /\ q.copied # {} => DOMAIN q.covers = {}
  BY <1>1, <1>2
<1> QED BY <1>5, <1>6, <1>7, <1>8 DEF PicturesRight

LEMMA PicturesCopied ==
  ASSUME NEW p, NEW q, NEW known, NEW coming, NEW id \in coming,
         PicturesRight(p, known, coming), DOMAIN p.covers = {},
         q.imageProcessing = p.imageProcessing, q.covers = p.covers, q.recoded = p.recoded,
         q.copied = p.copied \cup {id}, q.again = (p.again \/ id \in p.recoded \cup p.copied)
  PROVE  PicturesRight(q, known, coming \ {id})
BY DEF PicturesRight

-----------------------------------------------------------------------------
(* The events of the reader.                                                 *)

LEMMA InStepNow ==
  ASSUME stack \in Seq(Names), handler.writer.elements \in Seq(Names)
  PROVE  InStep <=> InStepOf(handler, stack)
BY InStepByName DEF InStep, InStepOf

LEMMA InStepNext ==
  ASSUME stack' \in Seq(Names), handler'.writer.elements \in Seq(Names)
  PROVE  InStep' <=> InStepOf(handler', stack')
BY InStepByName DEF InStep, InStepOf

\* The characters that an event gives the printer first.
LEMMA FlushedGoes ==
  ASSUME handler \in Printers, WriterOK(handler.writer)
  PROVE  LET f == Reader!Flushed.self
         IN  /\ Reader!Flushed.go
             /\ Kept(handler, f) /\ SamePictures(handler, f)
             /\ f.specialNode = handler.specialNode
             /\ f.writer.elements = handler.writer.elements
             /\ handler.specialNode \/ characters # "text" => f.writer = handler.writer
             /\ ~handler.specialNode /\ characters = "text" =>
                  /\ f.writer.characterDepth = IF handler.writer.characterDepth = 0
                                               THEN Len(handler.writer.elements)
                                               ELSE handler.writer.characterDepth
                  /\ handler.writer.elements # <<>> => Joins(handler.writer, f.writer)
<1>1. CASE characters = "text"
  BY <1>1, PrinterCharactersGoes DEF Reader!Flushed
<1>2. CASE characters # "text"
  <2>1. Reader!Flushed = [self |-> handler, go |-> TRUE]
    BY <1>2 DEF Reader!Flushed
  <2>2. Reader!Flushed.self = handler /\ Reader!Flushed.go
    BY <2>1
  <2> QED BY <1>2, <2>2 DEF Kept, SamePictures
<1> QED BY <1>1, <1>2

\* What the invariant says of the printer that an event finds.
LEMMA BeforeEvent ==
  ASSUME Inv, Reader!Going
  PROVE  LET f == Reader!Flushed.self
         IN  /\ Reader!Flushed.go /\ Kept(handler, f) /\ f \in Printers /\ WriterOK(f.writer)
             /\ f.specialNode = handler.specialNode /\ f.writer.elements = handler.writer.elements
             /\ InStepOf(f, stack) /\ PicturesRight(f, given, left)
             /\ f.covers = handler.covers
             /\ book.marked \/ Faithful(f.writer)
             /\ book.marked \/ book.loose \/ Joined(f.writer)
             /\ TextOf(f, stack, book.textAt)
             /\ f.hasError = FALSE /\ stack \in Seq(Names)
<1> DEFINE f == Reader!Flushed.self
<1>1. handler \in Printers /\ WriterOK(handler.writer) /\ stack \in Seq(Names) /\ InStep
  BY DEF Inv, WriterInStep, DocumentOK
<1>2. /\ Reader!Flushed.go /\ Kept(handler, f) /\ SamePictures(handler, f)
      /\ f.specialNode = handler.specialNode /\ f.writer.elements = handler.writer.elements
      /\ handler.specialNode \/ characters # "text" => f.writer = handler.writer
      /\ ~handler.specialNode /\ characters = "text" =>
           /\ f.writer.characterDepth = IF handler.writer.characterDepth = 0
                                        THEN Len(handler.writer.elements)
                                        ELSE handler.writer.characterDepth
           /\ handler.writer.elements # <<>> => Joins(handler.writer, f.writer)
  BY <1>1, FlushedGoes
<1> HIDE DEF f
<1>3. InStepOf(f, stack)
  <2>1. handler.writer.elements \in Seq(Names)
    BY <1>1 DEF WriterOK, Writers
  <2>2. InStepOf(handler, stack)
    BY <1>1, <2>1, InStepNow
  <2> QED BY <1>2, <2>2 DEF InStepOf
<1>4. PicturesRight(f, given, left)
  <2>1. PicturesRight(handler, given, left)
    BY DEF Inv, PicturesOK
  <2> QED BY <1>2, <2>1, PicturesAlone DEF Kept
<1>5. book.marked \/ Faithful(f.writer)
  BY <1>2 DEF Kept, Inv, WriterInStep
<1>6. f.hasError = FALSE
  <2>1. handler.hasError \in BOOLEAN
    BY <1>1, PrinterMembers
  <2> QED BY <1>2, <2>1 DEF Kept, Inv, DocumentOK, Reader!Going
<1>7. ~handler.specialNode => handler.writer.elements = stack
  BY <1>2, <1>3 DEF InStepOf
<1>8. TextKnown /\ Len(stack) \in Nat
  BY <1>1, LenProperties DEF Inv
<1>9. TextOf(f, stack, book.textAt) /\ (book.marked \/ book.loose \/ Joined(f.writer))
  <2>1. book.marked \/ book.loose \/ Joined(handler.writer)
    BY DEF Inv, WriterInStep
  <2>2. CASE handler.specialNode \/ characters # "text"
    BY <1>2, <1>8, <2>1, <2>2 DEF TextKnown, TextOf
  <2>3. CASE ~handler.specialNode /\ characters = "text"
    <3>1. book.textAt \in 1 .. Len(stack)
      BY <1>8, <2>3 DEF TextKnown, TextOf
    <3>2. handler.writer.elements # <<>>
      BY <1>1, <1>7, <2>3, <3>1, EmptySeq
    <3>3. f.writer.characterDepth = book.textAt
      BY <1>2, <1>7, <1>8, <2>3, <3>1 DEF TextKnown, TextOf
    <3> QED BY <1>2, <1>8, <2>1, <2>3, <3>1, <3>2, <3>3 DEF TextOf, Joins
  <2> QED BY <2>2, <2>3
<1> QED BY <1>1, <1>2, <1>3, <1>4, <1>5, <1>6, <1>9 DEF f, Kept, SamePictures

LEMMA StartKeeps ==
  ASSUME Inv, NEW name \in Names, NEW id,
         name = "binary" => id \in left /\ stack = FictionBook,
         Reader!StartElement(name, id),
         book'.marked = book.marked, book'.textAt = book.textAt,
         book'.loose = (book.loose \/ (name \in Unbreakable /\ book.textAt = 0)),
         given' = given, left' = IF name = "binary" THEN left \ {id} ELSE left
  PROVE  /\ stack' = Push(stack, name) /\ stack' \in Seq(Names) /\ characters' = "none"
         /\ ~stopped' /\ stopped' = handler'.hasError /\ handler' \in Printers
         /\ PicturesRight(handler', given', left') /\ WriterInStep' /\ InStep'
         /\ TextKnown'
<1> DEFINE f == Reader!Flushed.self
           r == PrinterStartElement(f, name, Push(stack, name), id)
           q == r.self
<1>1. /\ Reader!Flushed.go /\ Kept(handler, f) /\ f \in Printers /\ WriterOK(f.writer)
      /\ InStepOf(f, stack) /\ PicturesRight(f, given, left) /\ f.covers = handler.covers
      /\ book.marked \/ Faithful(f.writer)
      /\ book.marked \/ book.loose \/ Joined(f.writer)
      /\ TextOf(f, stack, book.textAt)
      /\ f.hasError = FALSE /\ stack \in Seq(Names)
  BY BeforeEvent DEF Reader!StartElement
<1>2. handler' = q /\ stopped' = FALSE /\ stack' = Push(stack, name) /\ characters' = "none"
  <2>1. r = [self |-> q, go |-> TRUE]
    BY DEF PrinterStartElement, True
  <2>2. Reader!Told(r) /\ stack' = Push(stack, name) /\ characters' = "none"
    BY <1>1 DEF Reader!StartElement, Push
  <2> HIDE DEF q, r
  <2> QED BY <2>1, <2>2 DEF Reader!Told
<1>3. name = "binary" => id \in Ids
  BY DEF Inv, PicturesOK
<1> HIDE DEF f
<1>4. r.go /\ StartDone(f, q, name, Push(stack, name), id)
  BY <1>1, <1>3, PrinterStartGoes
<1>5. InStepOf(q, Push(stack, name))
  BY <1>1, <1>3, StartInStep
<1>6. Push(stack, name) \in Seq(Names)
  BY <1>1, PushTyped
<1> HIDE DEF r, q
<1>7. Kept(f, q) /\ q \in Printers /\ WriterOK(q.writer) /\ (Faithful(f.writer) => Faithful(q.writer))
      /\ q.imageProcessing = f.imageProcessing /\ q.hasError = f.hasError
  BY <1>4 DEF StartDone, Kept
<1>8. PicturesRight(q, given, left')
  <2> DEFINE path == Push(stack, name)
  <2>1. CASE SamePictures(f, q)
    <3>1. left' \subseteq left
      OBVIOUS
    <3> QED BY <1>1, <1>7, <2>1, <3>1, PicturesAlone
  <2>2. CASE name = "binary" /\ Written(f, q, DOMAIN f.covers \cap {id})
    <3>1. DOMAIN f.covers \cap {id} \subseteq DOMAIN f.covers /\ left' \subseteq left
          /\ left' \cap (DOMAIN f.covers \cap {id}) = {}
      BY <2>2
    <3> QED BY <1>1, <1>7, <2>2, <3>1, PicturesWritten
  <2>3. CASE /\ name = "binary" /\ DOMAIN f.covers = {}
             /\ q.covers = f.covers /\ q.recoded = f.recoded
             /\ q.copied = f.copied \cup {id}
             /\ q.again = (f.again \/ id \in f.recoded \cup f.copied)
    BY <1>1, <1>7, <2>3, PicturesCopied
  <2> HIDE DEF path
  <2> QED BY <1>4, <2>1, <2>2, <2>3 DEF StartDone
<1>9. WriterInStep'
  <2>1. ASSUME ~book'.marked, ~book'.loose
        PROVE  Joined(q.writer)
    <3>1. name \notin Unbreakable \/ book.textAt # 0
      BY <2>1
    <3>2. book.textAt # 0 => f.specialNode \/ f.writer.characterDepth # 0
      BY <1>1 DEF TextOf
    <3>3. Joins(f.writer, q.writer)
      BY <1>4, <3>1, <3>2 DEF StartDone, Skips
    <3>4. Joined(f.writer)
      BY <1>1, <2>1
    <3> QED BY <3>3, <3>4 DEF Joins
  <2> QED BY <1>1, <1>2, <1>7, <2>1 DEF WriterInStep
<1>10. InStep'
  <2>1. q.writer.elements \in Seq(Names)
    BY <1>7 DEF WriterOK, Writers
  <2> QED BY <1>2, <1>5, <1>6, <2>1, InStepNext
<1>11. q.hasError = FALSE
  BY <1>1, <1>7
<1>12. TextKnown'
  <2>1. /\ q.writer.characterDepth = f.writer.characterDepth
        /\ f.specialNode => q.specialNode /\ q.writer.elements = f.writer.elements
    BY <1>4 DEF StartDone, Skips
  <2>2. Len(stack) \in Nat /\ Len(Push(stack, name)) = Len(stack) + 1
    BY <1>1, PushProperties
  <2>3. TextOf(q, Push(stack, name), book.textAt)
    BY <1>1, <2>1, <2>2 DEF TextOf
  <2> QED BY <1>2, <2>3 DEF TextKnown
<1> QED BY <1>2, <1>6, <1>7, <1>8, <1>9, <1>10, <1>11, <1>12

LEMMA EndKeeps ==
  ASSUME Inv, Reader!EndElement, stack = FictionBook => left = {},
         book'.marked = book.marked, book'.loose = book.loose,
         book'.textAt = IF book.textAt = Len(stack) THEN 0 ELSE book.textAt,
         given' = given, left' = left
  PROVE  /\ stack' = Pop(stack) /\ stack' \in Seq(Names) /\ characters' = "none"
         /\ ~stopped' /\ stopped' = handler'.hasError /\ handler' \in Printers
         /\ PicturesRight(handler', given', left') /\ WriterInStep' /\ InStep'
         /\ TextKnown'
         /\ stack = FictionBook => DOMAIN handler'.covers = {}
<1> DEFINE f == Reader!Flushed.self
           r == PrinterEndElement(f, Top(stack), stack)
           q == r.self
<1>1. /\ Reader!Flushed.go /\ Kept(handler, f) /\ f \in Printers /\ WriterOK(f.writer)
      /\ InStepOf(f, stack) /\ PicturesRight(f, given, left) /\ f.covers = handler.covers
      /\ book.marked \/ Faithful(f.writer)
      /\ book.marked \/ book.loose \/ Joined(f.writer)
      /\ TextOf(f, stack, book.textAt)
      /\ f.hasError = FALSE /\ stack \in Seq(Names)
  BY BeforeEvent DEF Reader!EndElement
<1>2. stack # <<>>
  BY DEF Reader!EndElement
<1>3. r = [self |-> q, go |-> TRUE]
  BY DEF PrinterEndElement, True
<1>4. handler' = q /\ stopped' = FALSE /\ stack' = Pop(stack) /\ characters' = "none"
  <2>1. Reader!Tag(stack) = Top(stack)
    BY DEF Reader!Tag, Top
  <2>2. Reader!Told([r EXCEPT !.go = @ /\ Reader!Flushed.go])
    BY <2>1 DEF Reader!EndElement
  <2> HIDE DEF q, r
  <2>3. handler' = q /\ stopped' = FALSE
    BY <1>1, <1>3, <2>2 DEF Reader!Told
  <2> QED BY <2>3 DEF Reader!EndElement, Pop
<1>5. ~f.specialNode => f.writer.elements # <<>>
  BY <1>1, <1>2 DEF InStepOf
<1> HIDE DEF f
<1>6. /\ Kept(f, q) /\ Joins(f.writer, q.writer)
      /\ f.specialNode => SamePictures(f, q) /\ q.writer = f.writer
      /\ ~f.specialNode => /\ q.writer.characterDepth = DepthAfterEnd(f.writer) /\ ~q.specialNode
                           /\ stack = FictionBook => Written(f, q, DOMAIN f.covers)
                           /\ stack # FictionBook => SamePictures(f, q)
  BY <1>1, <1>5, PrinterEndGoes
<1>7. InStepOf(q, Pop(stack))
  BY <1>1, <1>2, EndInStep DEF Inv, DocumentOK
<1>8. Pop(stack) \in Seq(Names)
  BY <1>1, <1>2, PopProperties
<1> HIDE DEF r, q
<1>9. /\ q \in Printers /\ WriterOK(q.writer) /\ (Faithful(f.writer) => Faithful(q.writer))
      /\ q.imageProcessing = f.imageProcessing /\ q.hasError = f.hasError
  BY <1>6 DEF Kept
<1>10. PicturesRight(q, given, left) /\ (stack = FictionBook => DOMAIN q.covers = {})
  <2>1. CASE stack = FictionBook
    <3>1. ~f.specialNode
      <4>1. Len(stack) = 1
        BY <1>1, <2>1, PathsByName
      <4>2. ~LeadsOut(f.writer.elements, stack)
        <5>1. Len(f.writer.elements) \in Nat
          BY <1>1, LenProperties DEF WriterOK, Writers
        <5> QED BY <4>1, <5>1 DEF LeadsOut, LeftOutAt
      <4> QED BY <1>1, <4>2 DEF InStepOf
    <3>2. Written(f, q, DOMAIN f.covers)
      BY <1>6, <2>1, <3>1
    <3>3. PicturesRight(q, given, left)
      <4>1. left \cap DOMAIN f.covers = {} /\ left \subseteq left
        BY <2>1
      <4> QED BY <1>1, <1>9, <3>2, <4>1, PicturesWritten
    <3>4. DOMAIN q.covers = {}
      BY <3>2 DEF Written
    <3> QED BY <3>3, <3>4
  <2>2. CASE stack # FictionBook
    <3>1. SamePictures(f, q)
      BY <1>6, <2>2
    <3>2. PicturesRight(q, given, left)
      BY <1>1, <1>9, <3>1, PicturesAlone
    <3> QED BY <2>2, <3>2
  <2> QED BY <2>1, <2>2
<1>11. WriterInStep'
  BY <1>1, <1>4, <1>6, <1>9 DEF WriterInStep, Joins
<1>12. InStep'
  <2>1. q.writer.elements \in Seq(Names)
    BY <1>9 DEF WriterOK, Writers
  <2> QED BY <1>4, <1>7, <1>8, <2>1, InStepNext
<1>13. q.hasError = FALSE
  BY <1>1, <1>9
<1>14. TextKnown'
  <2> DEFINE n == Len(f.writer.elements)
             m == Len(stack)
             at == IF book.textAt = m THEN 0 ELSE book.textAt
  <2>1. /\ f.writer.elements \in Seq(Names) /\ q.writer.elements \in Seq(Names)
        /\ f.writer.characterDepth \in Nat /\ f.writer.characterDepth <= n
    BY <1>1, <1>9 DEF WriterOK, Writers
  <2>2. n \in Nat /\ m \in Nat \ {0} /\ Len(Pop(stack)) = m - 1
    BY <1>1, <1>2, <2>1, LenProperties, PopProperties
  <2>3. /\ book.textAt \in 0 .. m
        /\ f.writer.characterDepth # 0 => book.textAt = f.writer.characterDepth
        /\ f.writer.characterDepth = 0 /\ book.textAt # 0 => f.specialNode /\ n < book.textAt
    BY <1>1 DEF TextOf
  <2>4. ASSUME ~f.specialNode PROVE TextOf(q, Pop(stack), at)
    <3>1. n = m /\ q.writer.characterDepth = at
      BY <1>1, <1>6, <2>1, <2>2, <2>3, <2>4 DEF InStepOf, DepthAfterEnd
    <3>2. at \in 0 .. Len(Pop(stack))
      BY <2>2, <2>3
    <3> HIDE DEF at
    <3> QED BY <3>1, <3>2 DEF TextOf
  <2>5. ASSUME f.specialNode PROVE TextOf(q, Pop(stack), at)
    <3>1. n < m /\ q.writer = f.writer
      BY <1>1, <1>6, <2>5 DEF InStepOf, LeadsOut
    <3>2. ~q.specialNode => n = m - 1
      BY <1>7, <2>2, <3>1 DEF InStepOf
    <3> HIDE DEF n, m
    <3>3. at \in 0 .. m - 1
      BY <2>2, <2>3
    <3>4. f.writer.characterDepth # 0 => at = f.writer.characterDepth
      BY <2>1, <2>2, <2>3, <3>1
    <3>5. f.writer.characterDepth = 0 /\ at # 0 => q.specialNode /\ n < at
      BY <2>2, <2>3, <3>2, <3>3
    <3> HIDE DEF at
    <3>6. at \in 0 .. Len(Pop(stack))
      BY <2>2, <3>3
    <3>7. q.writer.characterDepth = f.writer.characterDepth /\ n = Len(q.writer.elements)
      BY <3>1 DEF n
    <3> QED BY <3>4, <3>5, <3>6, <3>7 DEF TextOf
  <2>6. TextOf(q, Pop(stack), at)
    BY <2>4, <2>5
  <2>7. /\ handler' = q /\ stack' = Pop(stack) /\ characters' = "none" /\ book'.textAt = at
    BY <1>4
  <2> HIDE DEF at, m, n
  <2> QED BY <2>6, <2>7 DEF TextKnown
<1> QED BY <1>4, <1>8, <1>9, <1>10, <1>11, <1>12, <1>13, <1>14

-----------------------------------------------------------------------------
(* The steps.                                                                *)

\* The children of the nodes of a book are neither books nor binaries.
LEMMA ChildrenProperties ==
  /\ \A name : Children(name) \subseteq Names \ {"FictionBook", "binary"}
  /\ Children("binary") = {}
BY DEF Children, Names

\* A binary keeps its place as nodes start and end.
LEMMA AloneWhilePushed ==
  ASSUME NEW s \in Seq(Names), NEW name \in Names, BinaryAlone(s),
         name = "binary" => Len(s) = 1, s # <<>> => Top(s) # "binary"
  PROVE  BinaryAlone(Push(s, name))
<1> DEFINE t == Push(s, name)
           m == Len(s)
<1>1. /\ m \in Nat /\ DOMAIN s = 1 .. m /\ DOMAIN t = 1 .. m + 1 /\ Len(t) = m + 1
      /\ \A i \in DOMAIN s : t[i] = s[i]
      /\ t[m + 1] = name
  BY PushProperties
<1>2. \A i \in DOMAIN s : s[i] = "binary" => i = 2 /\ m = 2
  BY DEF BinaryAlone
<1>3. m = 2 => s[2] # "binary"
  <2>1. m = 2 => s # <<>>
    BY EmptySeq
  <2>2. Top(s) = s[m]
    BY DEF Top
  <2> HIDE DEF m
  <2> QED BY <2>1, <2>2
<1>4. name = "binary" => m = 1
  OBVIOUS
<1> HIDE DEF t, m
<1>5. ASSUME NEW i \in 1 .. m + 1, t[i] = "binary"
      PROVE  i = 2 /\ m + 1 = 2
  <2>1. i \in 1 .. m \/ i = m + 1
    BY <1>1
  <2>2. ASSUME i \in 1 .. m
        PROVE  FALSE
    <3>1. s[i] = "binary"
      BY <1>1, <1>5, <2>2
    <3> QED BY <1>1, <1>2, <1>3, <2>2, <3>1
  <2> QED BY <1>1, <1>4, <1>5, <2>1, <2>2
<1> QED BY <1>1, <1>5 DEF BinaryAlone, t

LEMMA AloneWhilePopped ==
  ASSUME NEW s \in Seq(Names), s # <<>>, BinaryAlone(s)
  PROVE  BinaryAlone(Pop(s))
<1> DEFINE t == Pop(s)
           m == Len(s)
<1>1. /\ m \in Nat \ {0} /\ DOMAIN s = 1 .. m
      /\ DOMAIN t = 1 .. m - 1 /\ Len(t) = m - 1
      /\ \A i \in DOMAIN t : t[i] = s[i]
  BY PopProperties
<1>2. \A i \in DOMAIN s : s[i] = "binary" => i = 2 /\ m = 2
  BY DEF BinaryAlone
<1> HIDE DEF t, m
<1>3. ASSUME NEW i \in 1 .. m - 1
      PROVE  t[i] # "binary"
  <2>1. i \in DOMAIN s /\ t[i] = s[i] /\ i < m
    BY <1>1
  <2> QED BY <1>1, <1>2, <2>1
<1> QED BY <1>1, <1>3 DEF BinaryAlone, t

LEMMA InitHolds == Init => Inv
<1> SUFFICES ASSUME Init
             PROVE  Inv
  OBVIOUS
<1> DEFINE Bodies == {"picture", "broken"}
           AllBodies == {"picture", "broken", "empty"}
<1>1. PICK binaries \in UNION {[names -> {"picture", "broken", "empty"}] : names \in SUBSET Ids},
           cover \in Ids, offered_1 \in {"none", "picture", "broken"},
           pictures \in UNION {[names -> {"picture", "broken"}] : names \in SUBSET Ids},
           metadata \in Metadata, processing_1 \in Processings :
        LET offers == FromArchives(offered_1, pictures, processing_1)
            covers == IF processing_1 = {} /\ metadata = "none" THEN offers
                      ELSE BinaryParser(offers, binaries, cover, processing_1)
        IN /\ DOMAIN covers # {} \/ processing_1 # {} \/ metadata # "none"
           /\ book = [textAt |-> 0, marked |-> FALSE, loose |-> FALSE]
           /\ given = covers /\ left = DOMAIN binaries /\ phase = "before"
           /\ Reader!Init(SaxPrinter(covers, metadata, processing_1))
  BY ZenonT(30) DEF Init
<1> DEFINE offers == FromArchives(offered_1, pictures, processing_1)
           mixed  == BinaryParser(offers, binaries, cover, processing_1)
<1>2. /\ DOMAIN binaries \subseteq Ids /\ \A id \in DOMAIN binaries : binaries[id] \in AllBodies
      /\ DOMAIN pictures \subseteq Ids /\ \A id \in DOMAIN pictures : pictures[id] \in Bodies
  <2>1. PICK some \in SUBSET Ids : binaries \in [some -> AllBodies]
    OBVIOUS
  <2>2. PICK others \in SUBSET Ids : pictures \in [others -> Bodies]
    OBVIOUS
  <2> HIDE DEF Bodies, AllBodies
  <2> QED BY <2>1, <2>2
<1>3. offers \in Covers
  <2> DEFINE covers == IF offered_1 = "none" \/ ToBeRemoved(TRUE, processing_1) THEN {} ELSE {CoverName}
             images_1 == IF ToBeRemoved(FALSE, processing_1) THEN {} ELSE DOMAIN pictures
             value(id) == IF id \in covers THEN [isCover |-> TRUE, body |-> offered_1]
                                           ELSE [isCover |-> FALSE, body |-> pictures[id]]
  <2>1. covers \cup images_1 \in SUBSET Ids
    BY <1>2, CoverAssumption
  <2>2. \A id \in covers \cup images_1 : value(id) \in Images
    BY <1>2 DEF Images
  <2>3. offers = [id \in covers \cup images_1 |-> value(id)]
    BY DEF FromArchives
  <2> HIDE DEF offers, covers, images_1, value
  <2>4. offers \in [covers \cup images_1 -> Images]
    BY <2>2, <2>3
  <2> QED BY <2>1, <2>4 DEF Covers
<1>4. DOMAIN offers \subseteq Ids /\ \A id \in DOMAIN offers : offers[id] \in Images
  BY <1>3, CoversProperties
<1> HIDE DEF offers
<1>5. mixed \in Covers
  <2> DEFINE found == {id \in DOMAIN binaries : binaries[id] # "empty"
                                                /\ ~ToBeRemoved(id = cover, processing_1)}
             value(id) == IF id \in DOMAIN offers THEN offers[id]
                          ELSE [isCover |-> id = cover, body |-> binaries[id]]
  <2>1. DOMAIN offers \cup found \in SUBSET Ids
    BY <1>2, <1>4
  <2>2. \A id \in DOMAIN offers \cup found : value(id) \in Images
    BY <1>2, <1>4 DEF Images
  <2>3. mixed = [id \in DOMAIN offers \cup found |-> value(id)]
    BY DEF BinaryParser
  <2> HIDE DEF mixed, found, value
  <2>4. mixed \in [DOMAIN offers \cup found -> Images]
    BY <2>2, <2>3
  <2> QED BY <2>1, <2>4 DEF Covers
<1> HIDE DEF mixed
<1>6. /\ given \in Covers /\ left \subseteq Ids /\ phase = "before"
      /\ stack = <<>> /\ characters = "none" /\ stopped = FALSE
      /\ handler = SaxPrinter(given, metadata, processing_1)
  <2>1. given = offers \/ given = mixed
    BY <1>1 DEF offers, mixed
  <2>2. /\ handler = SaxPrinter(given, metadata, processing_1)
        /\ stack = <<>> /\ characters = "none" /\ stopped = FALSE
    BY <1>1 DEF Reader!Init
  <2> QED BY <1>1, <1>2, <1>3, <1>5, <2>1, <2>2
<1>7. /\ book = [textAt |-> 0, marked |-> FALSE, loose |-> FALSE]
      /\ book.textAt = 0 /\ book.marked = FALSE /\ book.loose = FALSE
  BY <1>1
<1> HIDE DEF Bodies, AllBodies
<1>8. <<>> \in Seq(Names) /\ Len(<<>>) = 0 /\ DOMAIN <<>> = {}
  BY EmptySeq
<1> DEFINE w == Writer(TRUE)
<1>9. /\ w = [elements |-> <<>>, tagOpened |-> FALSE, characterDepth |-> 0, unbreakableCount |-> 0,
              indented |-> TRUE, out |-> Nothing]
      /\ Nothing = [open |-> <<>>, inTag |-> FALSE, edge |-> "block", sound |-> TRUE, torn |-> FALSE]
  BY DEF Writer, Nothing
<1> HIDE DEF w
<1>10. /\ w.elements = <<>> /\ w.tagOpened = FALSE /\ w.characterDepth = 0
       /\ w.unbreakableCount = 0 /\ w.out = Nothing
       /\ Nothing.open = <<>> /\ Nothing.inTag = FALSE /\ Nothing.sound = TRUE
       /\ Nothing.edge = "block" /\ Nothing.torn = FALSE
  BY <1>9
<1>11. w \in Writers /\ WriterOK(w) /\ Faithful(w) /\ Joined(w)
  <2>1. Nothing \in Outs
    BY <1>8, <1>9 DEF Outs, Edges
  <2> DEFINE none == <<>>
  <2>2. /\ none \in Seq(Names) /\ Len(none) = 0 /\ DOMAIN none = {}
        /\ w = [elements |-> none, tagOpened |-> FALSE, characterDepth |-> 0,
                unbreakableCount |-> 0, indented |-> TRUE, out |-> Nothing]
        /\ w.elements = none /\ Nothing.open = none
    BY <1>8, <1>9, <1>10
  <2> HIDE DEF none
  <2>3. w \in Writers
    BY <2>1, <2>2 DEF Writers
  <2>4. UnbreakableAt(w.elements) = {}
    BY <2>2 DEF UnbreakableAt
  <2>5. Cardinality({}) = 0
    BY FS_EmptySet
  <2>6. /\ w.tagOpened = FALSE /\ w.characterDepth = 0 /\ w.unbreakableCount = 0
        /\ w.out = Nothing /\ Nothing.inTag = FALSE /\ Nothing.sound = TRUE
    BY <1>10
  <2>7. w.elements = none /\ Nothing.open = none /\ Len(none) = 0
    BY <2>2
  <2>8. WriterOK(w)
    BY <2>3, <2>4, <2>5, <2>6, <2>7 DEF WriterOK
  <2>9. Faithful(w)
    BY <2>6, <2>7 DEF Faithful, Tracks
  <2>10. Joined(w)
    <3>1. DOMAIN w.elements = {}
      BY <2>2
    <3>2. TextAround(w)
      BY <3>1 DEF TextAround
    <3> QED BY <1>10, <2>9, <3>2 DEF Joined
  <2> QED BY <2>3, <2>8, <2>9, <2>10
<1>12. /\ handler \in Printers /\ handler.writer = w /\ handler.hasError = FALSE
       /\ handler.specialNode = FALSE /\ handler.covers = given
       /\ handler.recoded = {} /\ handler.copied = {} /\ handler.again = FALSE
       /\ handler.writer.elements = <<>>
  <2>1. handler = [metadata |-> metadata, imageProcessing |-> processing_1, writer |-> w,
                   covers |-> given, hasError |-> FALSE, hasProgramUsed |-> FALSE,
                   specialNode |-> FALSE, recoded |-> {}, copied |-> {}, again |-> FALSE]
    BY <1>6 DEF SaxPrinter, w
  <2> DEFINE p == processing_1
  <2>2. p \in Processings /\ metadata \in Metadata
    OBVIOUS
  <2> HIDE DEF p
  <2> QED BY <1>6, <1>10, <1>11, <2>1, <2>2 DEF Printers, p
<1>13. DocumentOK
  BY <1>6, <1>7, <1>8, <1>12 DEF DocumentOK, BinaryAlone
<1>14. PicturesOK
  BY <1>6, <1>12 DEF PicturesOK, PicturesRight
<1>15. WriterInStep
  BY <1>11, <1>12 DEF WriterInStep
<1>16. InStep
  BY <1>6, <1>12 DEF InStep
<1>17. TextKnown
  BY <1>6, <1>7, <1>8, <1>10, <1>12 DEF TextKnown, TextOf
<1> QED BY <1>12, <1>13, <1>14, <1>15, <1>16, <1>17 DEF Inv

LEMMA StartBookKeeps ==
  ASSUME Inv, StartBook
  PROVE  Inv'
<1>1. /\ Reader!StartElement("FictionBook", Unnamed) /\ phase = "before" /\ phase' = "inside"
      /\ book' = book /\ given' = given /\ left' = left
  BY DEF StartBook, bookVars
<1>2. /\ "FictionBook" \in Names /\ "FictionBook" # "binary"
      /\ book'.loose = (book.loose \/ ("FictionBook" \in Unbreakable /\ book.textAt = 0))
  <2>1. book.loose \in BOOLEAN
    BY DEF Inv, DocumentOK
  <2> QED BY <1>1, <2>1, SomeNames
<1>3. /\ stack' = Push(stack, "FictionBook") /\ stack' \in Seq(Names) /\ characters' = "none"
      /\ ~stopped' /\ stopped' = handler'.hasError /\ handler' \in Printers
      /\ PicturesRight(handler', given', left') /\ WriterInStep' /\ InStep' /\ TextKnown'
  BY <1>1, <1>2, StartKeeps
<1>4. stack = <<>> /\ stack \in Seq(Names) /\ BinaryAlone(stack)
  BY <1>1 DEF Inv, DocumentOK
<1>5. stack' # <<>> /\ stack'[1] = "FictionBook"
  <2>1. /\ Push(stack, "FictionBook") # <<>>
    BY <1>2, <1>4, PushTyped
  <2>2. Push(stack, "FictionBook")[Len(stack) + 1] = "FictionBook"
    <3>1. stack \in Seq(Names)
      BY <1>4
    <3> QED BY <1>2, <3>1, PushProperties
  <2>3. Len(stack) = 0
    BY <1>4, EmptySeq
  <2>4. Push(stack, "FictionBook")[1] = "FictionBook"
    BY <2>2, <2>3
  <2> QED BY <1>3, <2>1, <2>4
<1>6. BinaryAlone(stack')
  BY <1>2, <1>3, <1>4, AloneWhilePushed
<1>7. DocumentOK'
  BY <1>1, <1>3, <1>5, <1>6 DEF Inv, DocumentOK
<1>8. PicturesOK'
  BY <1>1, <1>3 DEF Inv, PicturesOK
<1> QED BY <1>3, <1>7, <1>8 DEF Inv

\* A node that starts inside the book leaves it there.
LEMMA InsideWhilePushed ==
  ASSUME NEW s \in Seq(Names), NEW name \in Names, s # <<>>, s[1] = "FictionBook"
  PROVE  Push(s, name) # <<>> /\ Push(s, name)[1] = "FictionBook"
<1>1. Push(s, name) # <<>>
  BY PushTyped
<1>2. DOMAIN s = 1 .. Len(s) /\ Len(s) \in Nat \ {0}
  BY PopProperties
<1>3. \A i \in DOMAIN s : Push(s, name)[i] = s[i]
  BY PushProperties
<1>4. 1 \in DOMAIN s
  BY <1>2
<1> QED BY <1>1, <1>3, <1>4

LEMMA StartNodeKeeps ==
  ASSUME Inv, StartNode
  PROVE  Inv'
<1>1. PICK name \in Children(Top(stack)) :
        /\ Reader!StartElement(name, Unnamed)
        /\ book' = [book EXCEPT !.loose = @ \/ (name \in Unbreakable /\ book.textAt = 0)]
  BY DEF StartNode
<1> DEFINE loosened == book.loose \/ (name \in Unbreakable /\ book.textAt = 0)
<1>2. /\ phase = "inside" /\ phase' = phase /\ given' = given /\ left' = left
      /\ book' \in [textAt : Nat, marked : BOOLEAN, loose : BOOLEAN]
      /\ book'.textAt = book.textAt /\ book'.marked = book.marked /\ book'.loose = loosened
  <2>1. book \in [textAt : Nat, marked : BOOLEAN, loose : BOOLEAN]
    BY DEF Inv, DocumentOK
  <2>2. loosened \in BOOLEAN /\ book' = [book EXCEPT !.loose = loosened]
    BY <1>1
  <2>3. phase = "inside" /\ phase' = phase /\ given' = given /\ left' = left
    BY DEF StartNode
  <2> HIDE DEF loosened
  <2> QED BY <2>1, <2>2, <2>3
<1>3. name \in Names /\ name # "binary" /\ Top(stack) # "binary"
  BY ChildrenProperties
<1>4. /\ stack' = Push(stack, name) /\ stack' \in Seq(Names) /\ characters' = "none"
      /\ ~stopped' /\ stopped' = handler'.hasError /\ handler' \in Printers
      /\ PicturesRight(handler', given', left') /\ WriterInStep' /\ InStep' /\ TextKnown'
  BY <1>1, <1>2, <1>3, StartKeeps
<1>5. stack \in Seq(Names) /\ BinaryAlone(stack) /\ stack # <<>> /\ stack[1] = "FictionBook"
  BY <1>2 DEF Inv, DocumentOK
<1>6. stack' # <<>> /\ stack'[1] = "FictionBook"
  BY <1>3, <1>4, <1>5, InsideWhilePushed
<1>7. BinaryAlone(stack')
  BY <1>3, <1>4, <1>5, AloneWhilePushed
<1>8. DocumentOK'
  BY <1>2, <1>4, <1>6, <1>7 DEF Inv, DocumentOK
<1>9. PicturesOK'
  BY <1>2, <1>4 DEF Inv, PicturesOK
<1> QED BY <1>4, <1>8, <1>9 DEF Inv

LEMMA StartBinaryKeeps ==
  ASSUME Inv, NEW id, StartBinary(id)
  PROVE  Inv'
<1>1. /\ Reader!StartElement("binary", id) /\ phase = "inside" /\ phase' = phase
      /\ stack = FictionBook /\ id \in left
      /\ book' = book /\ given' = given /\ left' = left \ {id}
  BY DEF StartBinary, bookVars
<1>2. /\ "binary" \in Names
      /\ book'.loose = (book.loose \/ ("binary" \in Unbreakable /\ book.textAt = 0))
  <2>1. book.loose \in BOOLEAN
    BY DEF Inv, DocumentOK
  <2> QED BY <1>1, <2>1, SomeNames
<1>3. /\ stack' = Push(stack, "binary") /\ stack' \in Seq(Names) /\ characters' = "none"
      /\ ~stopped' /\ stopped' = handler'.hasError /\ handler' \in Printers
      /\ PicturesRight(handler', given', left') /\ WriterInStep' /\ InStep' /\ TextKnown'
  BY <1>1, <1>2, StartKeeps
<1>4. stack \in Seq(Names) /\ BinaryAlone(stack) /\ stack # <<>> /\ stack[1] = "FictionBook"
  BY <1>1 DEF Inv, DocumentOK
<1>5. Len(stack) = 1
  BY <1>1, <1>4, PathsByName
<1>6. stack' # <<>> /\ stack'[1] = "FictionBook"
  BY <1>2, <1>3, <1>4, InsideWhilePushed
<1>7. Top(stack) # "binary"
  BY <1>4, <1>5 DEF Top
<1>8. BinaryAlone(stack')
  BY <1>2, <1>3, <1>4, <1>5, <1>7, AloneWhilePushed
<1>9. DocumentOK'
  BY <1>1, <1>3, <1>6, <1>8 DEF Inv, DocumentOK
<1>10. PicturesOK'
  BY <1>1, <1>3 DEF Inv, PicturesOK
<1> QED BY <1>3, <1>9, <1>10 DEF Inv

LEMMA EndNodeKeeps ==
  ASSUME Inv, EndNode
  PROVE  Inv'
<1>1. /\ Reader!EndElement /\ phase = "inside"
      /\ stack = FictionBook => left = {}
      /\ phase' = IF stack = FictionBook THEN "after" ELSE phase
      /\ given' = given /\ left' = left
  BY DEF EndNode
<1> DEFINE at == IF book.textAt = Len(stack) THEN 0 ELSE book.textAt
<1>10. /\ book' \in [textAt : Nat, marked : BOOLEAN, loose : BOOLEAN]
       /\ book'.textAt = at /\ book'.marked = book.marked /\ book'.loose = book.loose
  <2>1. book \in [textAt : Nat, marked : BOOLEAN, loose : BOOLEAN]
    BY DEF Inv, DocumentOK
  <2>2. at \in Nat /\ book' = [book EXCEPT !.textAt = at]
    BY <2>1 DEF EndNode
  <2> HIDE DEF at
  <2> QED BY <2>1, <2>2
<1>2. /\ stack' = Pop(stack) /\ stack' \in Seq(Names) /\ characters' = "none"
      /\ ~stopped' /\ stopped' = handler'.hasError /\ handler' \in Printers
      /\ PicturesRight(handler', given', left') /\ WriterInStep' /\ InStep' /\ TextKnown'
      /\ stack = FictionBook => DOMAIN handler'.covers = {}
  BY <1>1, <1>10, EndKeeps
<1>3. stack \in Seq(Names) /\ BinaryAlone(stack) /\ stack # <<>> /\ stack[1] = "FictionBook"
  BY <1>1 DEF Inv, DocumentOK
<1>4. /\ Len(stack) \in Nat \ {0} /\ Len(stack') = Len(stack) - 1
      /\ DOMAIN stack' = 1 .. Len(stack) - 1
      /\ \A i \in DOMAIN stack' : stack'[i] = stack[i]
  BY <1>2, <1>3, PopProperties
<1>5. ASSUME stack = FictionBook
      PROVE  stack' = <<>>
  <2>1. Len(stack) = 1 /\ Len(stack') = Len(stack) - 1
    BY <1>3, <1>4, <1>5, PathsByName
  <2>2. Len(stack') = 0
    BY <2>1
  <2> QED BY <1>2, <2>2, EmptySeq
<1>6. stack # FictionBook => stack' # <<>> /\ stack'[1] = "FictionBook"
  <2>1. stack # FictionBook => Len(stack) # 1
    BY <1>3, PathsByName
  <2>2. stack # FictionBook => 1 \in DOMAIN stack'
    BY <1>4, <2>1
  <2>3. stack # FictionBook => stack' # <<>>
    BY <2>2
  <2> QED BY <1>3, <1>4, <2>2, <2>3
<1>7. BinaryAlone(stack')
  BY <1>2, <1>3, AloneWhilePopped
<1>8. DocumentOK'
  BY <1>1, <1>2, <1>5, <1>6, <1>7, <1>10 DEF Inv, DocumentOK
<1>9. PicturesOK'
  BY <1>1, <1>2 DEF Inv, PicturesOK
<1> QED BY <1>2, <1>8, <1>9 DEF Inv

LEMMA ReadCharactersKeeps ==
  ASSUME Inv, NEW kind \in {"blank", "text"}, ReadCharacters(kind)
  PROVE  Inv'
<1> DEFINE at == IF kind = "text" /\ book.textAt = 0 THEN Len(stack) ELSE book.textAt
<1>1. /\ phase = "inside" /\ phase' = phase /\ given' = given /\ left' = left
      /\ stack' = stack /\ stopped' = stopped /\ handler' = handler
      /\ characters' = IF characters = "text" THEN "text" ELSE kind
  BY DEF ReadCharacters, Reader!Characters
<1>2. stack \in Seq(Names) /\ stack # <<>> /\ Len(stack) \in Nat \ {0}
  <2>1. stack \in Seq(Names) /\ stack # <<>>
    BY <1>1 DEF Inv, DocumentOK
  <2> QED BY <2>1, PopProperties
<1>3. /\ book' \in [textAt : Nat, marked : BOOLEAN, loose : BOOLEAN]
      /\ book'.textAt = at /\ book'.marked = book.marked /\ book'.loose = book.loose
  <2>1. book \in [textAt : Nat, marked : BOOLEAN, loose : BOOLEAN]
    BY DEF Inv, DocumentOK
  <2>2. at \in Nat /\ book' = [book EXCEPT !.textAt = at]
    BY <1>2, <2>1 DEF ReadCharacters
  <2> HIDE DEF at
  <2> QED BY <2>1, <2>2
<1>4. DocumentOK' /\ PicturesOK' /\ WriterInStep' /\ InStep'
  BY <1>1, <1>3 DEF Inv, DocumentOK, PicturesOK, WriterInStep, InStep
<1>5. TextKnown'
  <2> DEFINE n == Len(handler.writer.elements)
             depth == handler.writer.characterDepth
  <2>1. handler.writer.elements \in Seq(Names) /\ n \in Nat
    <3>1. handler.writer.elements \in Seq(Names)
      BY DEF Inv, WriterInStep, WriterOK, Writers
    <3> QED BY <3>1, LenProperties
  <2>2. handler.specialNode => n < Len(stack)
    <3>1. InStepOf(handler, stack)
      BY <1>2, <2>1, InStepNow DEF Inv
    <3> QED BY <3>1 DEF InStepOf, LeadsOut
  <2>3. CASE handler.specialNode \/ depth # 0
    <3>1. TextOf(handler, stack, book.textAt) /\ (characters = "text" => book.textAt # 0)
      BY <2>3 DEF Inv, TextKnown
    <3>2. TextOf(handler, stack, at) /\ (characters' = "text" => at # 0)
      BY <1>1, <1>2, <2>2, <2>3, <3>1 DEF TextOf
    <3> HIDE DEF at
    <3> QED BY <1>1, <1>3, <2>3, <3>2 DEF TextKnown
  <2>4. CASE ~handler.specialNode /\ depth = 0 /\ characters # "text"
    <3>1. TextOf(handler, stack, book.textAt)
      BY <2>4 DEF Inv, TextKnown
    <3>2. book.textAt = 0
      BY <2>4, <3>1 DEF TextOf
    <3>3. characters' = kind /\ at = IF kind = "text" THEN Len(stack) ELSE 0
      BY <1>1, <2>4, <3>2
    <3>4. TextOf(handler, stack, 0)
      BY <3>1, <3>2
    <3> HIDE DEF at
    <3> QED BY <1>1, <1>2, <1>3, <2>4, <3>3, <3>4 DEF TextKnown
  <2>5. CASE ~handler.specialNode /\ depth = 0 /\ characters = "text"
    <3>1. book.textAt = Len(stack) /\ book.textAt # 0
      BY <2>5 DEF Inv, TextKnown
    <3>2. at = Len(stack)
      BY <3>1
    <3> HIDE DEF at
    <3> QED BY <1>1, <1>2, <1>3, <2>5, <3>2 DEF TextKnown
  <2> QED BY <2>3, <2>4, <2>5
<1> QED BY <1>1, <1>4, <1>5 DEF Inv

LEMMA ReadInstructionKeeps ==
  ASSUME Inv, ReadInstruction
  PROVE  Inv'
<1> DEFINE f == Reader!Flushed.self
           r == PrinterProcessingInstruction(f)
           q == r.self
<1>1. /\ Reader!Going /\ phase # "done" /\ phase' = phase /\ stack' = stack /\ characters' = "none"
      /\ book' = [book EXCEPT !.marked = @ \/ phase = "inside"] /\ given' = given /\ left' = left
  BY DEF ReadInstruction, Reader!ProcessingInstruction
<1>2. /\ Reader!Flushed.go /\ f \in Printers /\ WriterOK(f.writer)
      /\ InStepOf(f, stack) /\ PicturesRight(f, given, left) /\ f.covers = handler.covers
      /\ book.marked \/ Faithful(f.writer)
      /\ book.marked \/ book.loose \/ Joined(f.writer)
      /\ TextOf(f, stack, book.textAt)
      /\ f.hasError = FALSE /\ stack \in Seq(Names)
  BY <1>1, BeforeEvent
<1>3. handler' = q /\ stopped' = FALSE
  <2>1. r = [self |-> q, go |-> TRUE]
    BY DEF PrinterProcessingInstruction, True
  <2>2. Reader!Told(r)
    BY <1>2 DEF ReadInstruction, Reader!ProcessingInstruction
  <2> HIDE DEF q, r
  <2> QED BY <2>1, <2>2 DEF Reader!Told
<1> HIDE DEF f
<1>4. /\ q \in Printers /\ WriterOK(q.writer)
      /\ q.writer.characterDepth = f.writer.characterDepth
      /\ f.writer.elements = <<>> => /\ Faithful(f.writer) => Faithful(q.writer)
                                     /\ Joins(f.writer, q.writer)
      /\ q.imageProcessing = f.imageProcessing
      /\ q.hasError = f.hasError /\ SamePictures(f, q)
      /\ q.specialNode = f.specialNode /\ q.writer.elements = f.writer.elements
  BY <1>2, PrinterInstructionGoes
<1> HIDE DEF r, q
<1> DEFINE marked == book.marked \/ phase = "inside"
<1>5. /\ book' \in [textAt : Nat, marked : BOOLEAN, loose : BOOLEAN]
      /\ book'.textAt = book.textAt /\ book'.marked = marked /\ book'.loose = book.loose
  <2>1. book \in [textAt : Nat, marked : BOOLEAN, loose : BOOLEAN]
    BY DEF Inv, DocumentOK
  <2>2. marked \in BOOLEAN /\ book' = [book EXCEPT !.marked = marked]
    BY <1>1
  <2> HIDE DEF marked
  <2> QED BY <2>1, <2>2
<1>6. WriterInStep'
  <2>1. CASE phase = "inside"
    BY <1>3, <1>4, <1>5, <2>1 DEF WriterInStep
  <2>2. CASE phase # "inside"
    <3>1. stack = <<>>
      BY <1>1, <2>2 DEF Inv, DocumentOK
    <3>2. f.writer.elements = <<>>
      <4>1. Len(f.writer.elements) \in Nat
        BY <1>2, LenProperties DEF WriterOK, Writers
      <4>2. Len(stack) = 0
        BY <1>2, <3>1, EmptySeq
      <4>3. ~LeadsOut(f.writer.elements, stack)
        BY <4>1, <4>2 DEF LeadsOut
      <4> QED BY <1>2, <3>1, <4>3 DEF InStepOf
    <3> QED BY <1>2, <1>3, <1>4, <1>5, <3>2 DEF WriterInStep, Joins
  <2> QED BY <2>1, <2>2
<1>7. InStep'
  <2>1. q.writer.elements \in Seq(Names)
    BY <1>4 DEF WriterOK, Writers
  <2>2. InStepOf(q, stack)
    BY <1>2, <1>4 DEF InStepOf
  <2> QED BY <1>1, <1>2, <1>3, <2>1, <2>2, InStepNext
<1>8. DocumentOK'
  BY <1>1, <1>2, <1>3, <1>4, <1>5 DEF Inv, DocumentOK, Reader!Going
<1>9. PicturesOK'
  <2>1. PicturesRight(q, given, left)
    BY <1>2, <1>4, PicturesAlone
  <2>2. q.covers = handler.covers
    BY <1>2, <1>4 DEF SamePictures
  <2> QED BY <1>1, <1>3, <2>1, <2>2 DEF Inv, PicturesOK
<1>10. TextKnown'
  <2>1. TextOf(q, stack, book.textAt)
    BY <1>2, <1>4 DEF TextOf
  <2> QED BY <1>1, <1>3, <1>5, <2>1 DEF TextKnown
<1> QED BY <1>3, <1>4, <1>6, <1>7, <1>8, <1>9, <1>10 DEF Inv

LEMMA ReadErrorKeeps ==
  ASSUME Inv, ReadError
  PROVE  Inv'
<1>1. /\ phase # "done" /\ phase' = phase /\ stack' = stack /\ characters' = characters
      /\ book' = book /\ given' = given /\ left' = left
      /\ handler' = [handler EXCEPT !.hasError = TRUE] /\ stopped' = TRUE
  BY DEF ReadError, Reader!Error, Reader!Told, PrinterError, bookVars
<1>2. /\ handler' \in Printers /\ handler'.hasError = TRUE /\ handler'.writer = handler.writer
      /\ handler'.specialNode = handler.specialNode
      /\ handler'.imageProcessing = handler.imageProcessing /\ SamePictures(handler, handler')
  BY <1>1 DEF Inv, Printers, SamePictures
<1>3. DocumentOK'
  BY <1>1, <1>2 DEF Inv, DocumentOK
<1>4. PicturesOK'
  <2>1. PicturesRight(handler', given, left)
    BY <1>2, PicturesAlone DEF Inv, PicturesOK
  <2> QED BY <1>1, <1>2, <2>1 DEF Inv, PicturesOK, SamePictures
<1>5. WriterInStep' /\ InStep' /\ TextKnown'
  BY <1>1, <1>2 DEF Inv, WriterInStep, InStep, TextKnown, TextOf
<1> QED BY <1>2, <1>3, <1>4, <1>5 DEF Inv

LEMMA FinishKeeps ==
  ASSUME Inv, Finish
  PROVE  Inv'
<1>1. /\ phase = "after" \/ stopped
      /\ phase' = "done" /\ stack' = stack /\ characters' = characters
      /\ book' = book /\ given' = given /\ left' = left
      /\ handler' = handler /\ stopped' = stopped
  BY DEF Finish, bookVars
<1>2. DocumentOK'
  BY <1>1 DEF Inv, DocumentOK
<1>3. PicturesOK'
  BY <1>1 DEF Inv, PicturesOK
<1>4. WriterInStep' /\ InStep' /\ TextKnown'
  BY <1>1 DEF Inv, WriterInStep, InStep, TextKnown, TextOf
<1> QED BY <1>1, <1>2, <1>3, <1>4 DEF Inv

LEMMA StepKeeps == Inv /\ [Next]_vars => Inv'
<1> SUFFICES ASSUME Inv, [Next]_vars
             PROVE  Inv'
  OBVIOUS
<1>1. CASE StartBook
  BY <1>1, StartBookKeeps
<1>2. CASE StartNode
  BY <1>2, StartNodeKeeps
<1>3. CASE EndNode
  BY <1>3, EndNodeKeeps
<1>4. CASE ReadInstruction
  BY <1>4, ReadInstructionKeeps
<1>5. CASE ReadError
  BY <1>5, ReadErrorKeeps
<1>6. CASE Finish
  BY <1>6, FinishKeeps
<1>7. CASE \E id \in Ids : StartBinary(id)
  BY <1>7, StartBinaryKeeps
<1>8. CASE \E kind \in {"blank", "text"} : ReadCharacters(kind)
  BY <1>8, ReadCharactersKeeps
<1>9. CASE UNCHANGED vars
  BY <1>9 DEF vars, Inv, DocumentOK, PicturesOK, WriterInStep, InStep, TextKnown, TextOf
<1> QED BY <1>1, <1>2, <1>3, <1>4, <1>5, <1>6, <1>7, <1>8, <1>9 DEF Next

-----------------------------------------------------------------------------
(* What the invariant says.                                                  *)

\* In what is exported without an error nothing is left open.
LEMMA ExportedWhole ==
  ASSUME Inv, Exported
  PROVE  /\ ~stopped /\ stack = <<>> /\ DOMAIN handler.covers = {}
         /\ handler.writer.elements = <<>> /\ ~handler.writer.tagOpened
<1>1. ~stopped /\ stack = <<>> /\ DOMAIN handler.covers = {} /\ stack \in Seq(Names)
  BY DEF Inv, DocumentOK, PicturesOK, Exported
<1>2. WriterOK(handler.writer) /\ handler.writer.elements \in Seq(Names)
  BY DEF Inv, WriterInStep, WriterOK, Writers
<1>3. handler.writer.elements = <<>>
  <2>1. InStepOf(handler, stack)
    BY <1>1, <1>2, InStepNow DEF Inv
  <2>2. Len(handler.writer.elements) \in Nat /\ Len(stack) = 0
    BY <1>1, <1>2, LenProperties, EmptySeq
  <2>3. ~LeadsOut(handler.writer.elements, stack)
    BY <2>2 DEF LeadsOut
  <2> QED BY <1>1, <2>1, <2>3 DEF InStepOf
<1> QED BY <1>1, <1>2, <1>3 DEF WriterOK

LEMMA Consequences ==
  ASSUME Inv
  PROVE  TypeOK /\ InStep /\ OutputSound /\ KnownImagesOnce
<1>1. TypeOK
  <2>1. /\ stack \in Seq(Names) /\ characters \in {"none", "blank", "text"} /\ stopped \in BOOLEAN
        /\ phase \in {"before", "inside", "after", "done"}
    <3>1. handler.hasError \in BOOLEAN
      BY PrinterMembers DEF Inv
    <3> QED BY <3>1 DEF Inv, DocumentOK
  <2>2. /\ handler.covers \in Covers /\ handler.recoded \subseteq Ids /\ handler.copied \subseteq Ids
        /\ handler.writer \in Writers
    BY PrinterMembers DEF Inv
  <2>3. handler.covers \in [DOMAIN handler.covers -> [isCover : BOOLEAN, body : {"picture", "broken"}]]
    <3>1. PICK names \in SUBSET Ids : handler.covers \in [names -> Images]
      BY <2>2 DEF Covers
    <3>2. DOMAIN handler.covers = names
      BY <3>1
    <3> QED BY <3>1, <3>2 DEF Images
  <2>4. DOMAIN handler.covers \subseteq DOMAIN given /\ left \subseteq Ids
    BY DEF Inv, PicturesOK, PicturesRight
  <2>5. handler.writer.unbreakableCount \in Nat /\ handler.writer.characterDepth \in Nat
        /\ handler.writer.elements \in Seq(Names)
    BY <2>2 DEF Writers
  <2>6. handler.writer.characterDepth <= Len(stack)
    <3> DEFINE elements == handler.writer.elements
    <3>1. handler.writer.characterDepth <= Len(elements)
      BY DEF Inv, WriterInStep, WriterOK
    <3>2. InStepOf(handler, stack)
      BY <2>1, <2>5, InStepNow DEF Inv
    <3>3. elements = stack \/ LeadsOut(elements, stack)
      BY <3>2 DEF InStepOf
    <3>4. Len(elements) \in Nat /\ Len(stack) \in Nat
      BY <2>1, <2>5, LenProperties
    <3>5. Len(elements) <= Len(stack)
      <4>1. CASE elements = stack
        BY <3>4, <4>1
      <4>2. CASE LeadsOut(elements, stack)
        BY <3>4, <4>2 DEF LeadsOut
      <4> QED BY <3>3, <4>1, <4>2
    <3> HIDE DEF elements
    <3> QED BY <2>5, <3>1, <3>4, <3>5
  <2> QED BY <2>1, <2>2, <2>3, <2>4, <2>5, <2>6 DEF TypeOK
<1>2. OutputSound
  <2>1. handler.writer.out.sound \/ book.marked
    BY DEF Inv, WriterInStep, Faithful, Tracks
  <2>2. handler.writer.out.torn => book.marked \/ book.loose
    BY DEF Inv, WriterInStep, Joined
  <2>3. Exported => /\ ~stopped /\ stack = <<>>
                    /\ handler.writer.elements = <<>> /\ ~handler.writer.tagOpened
    BY ExportedWhole
  <2> QED BY <2>1, <2>2, <2>3 DEF OutputSound
<1>3. KnownImagesOnce
  <2>1. PicturesRight(handler, given, left)
    BY DEF Inv, PicturesOK
  <2>2. ASSUME Exported
        PROVE  handler.recoded = {id \in DOMAIN given : Recodes(given[id], handler.imageProcessing)}
    <3>1. DOMAIN handler.covers = {}
      BY <2>2, ExportedWhole
    <3> QED BY <2>1, <3>1 DEF PicturesRight
  <2> QED BY <2>1, <2>2 DEF KnownImagesOnce, PicturesRight
<1> QED BY <1>1, <1>2, <1>3 DEF Inv

LEMMA Invariance == Spec => []Inv
<1> QED BY InitHolds, StepKeeps, PTL DEF Spec

\* The export of any FB2 book, with any pictures and settings: every variable keeps
\* its type, and the writer is inside the elements that the reader is inside of.
THEOREM TypeCorrect == Spec => []TypeOK
<1>1. Inv => TypeOK
  BY Consequences
<1> QED BY <1>1, Invariance, PTL

\* End tags always close what they were meant for: OnEndElement() of SaxPrinter leaves
\* a node that it does not copy exactly where it began.
THEOREM InStepAlways == Spec => []InStep
<1>1. Inv => InStep
  BY Consequences
<1> QED BY <1>1, Invariance, PTL

\* XmlWriter makes a well-formed document of what SaxPrinter tells it, of every book
\* with no processing instruction inside, and puts indentation next to text only
\* in one where an element that belongs inside text comes before all text around it.
THEOREM OutputSoundAlways == Spec => []OutputSound
<1>1. Inv => OutputSound
  BY Consequences
<1> QED BY <1>1, Invariance, PTL

\* WriteImage() and WriteImages() write each of any number of pictures once, and an
\* export without errors has all that can be decoded.
THEOREM KnownImagesOnceAlways == Spec => []KnownImagesOnce
<1>1. Inv => KnownImagesOnce
  BY Consequences
<1> QED BY <1>1, Invariance, PTL

-----------------------------------------------------------------------------
(* The export of EPUB books, for any archives, index, pictures and texts       *)

\* What an export starts with.
EpubInputs ==
  /\ \A i \in Epub!Archives :
       offered[i] \in Epub!PartialFunctions(IF Epub!OfCovers(i) THEN {CoverName} ELSE PictureNames,
                                           Epub!Bodies)
  /\ index \in Epub!PartialFunctions({NumberIn[name] : name \in PictureNames} \cup {Epub!CoverNumber},
                                     BookPictures)
  /\ images \in Epub!PartialFunctions(BookPictures, Epub!Bodies)
  /\ texts \in SUBSET BookTexts

EpubInv == EpubInputs /\ (output = <<>> \/ output = <<Epub!Restored \cup Epub!Own>>)

LEMMA FunctionOfPart ==
  ASSUME NEW S, NEW T, NEW f \in Epub!PartialFunctions(S, T)
  PROVE  DOMAIN f \subseteq S /\ \A x \in DOMAIN f : f[x] \in T
BY DEF Epub!PartialFunctions

\* A set of numbers has a least one, and Min() is it.
LEMMA Smallest ==
  ASSUME NEW S \in SUBSET Nat, S # {}
  PROVE  Epub!Min(S) \in S /\ \A k \in S : Epub!Min(S) <= k
<1> DEFINE R == {ss \in Nat \X Nat : ss[1] < ss[2]}
<1>1. IsWellFoundedOn(R, Nat)
  BY NatLessThanWellFounded DEF OpToRel
<1> HIDE DEF R
<1>2. PICK m \in S : \A k \in S : <<k, m>> \notin R
  BY <1>1, WFMin
<1>3. ASSUME NEW k \in S
      PROVE  m <= k
  <2>1. ~(k < m)
    BY <1>2 DEF R
  <2> QED BY <2>1
<1> QED BY <1>2, <1>3 DEF Epub!Min

\* The archive that a picture is taken from.
LEMMA FirstIs ==
  ASSUME NEW name, NEW i \in Epub!Archives, name \in Epub!Asked(i)
  PROVE  /\ Epub!First(name) \in Epub!Archives /\ name \in Epub!Asked(Epub!First(name))
         /\ \A k \in Epub!Archives : name \in Epub!Asked(k) => Epub!First(name) <= k
<1> DEFINE having == {k \in Epub!Archives : name \in Epub!Asked(k)}
<1>1. having \in SUBSET Nat /\ having # {} /\ Epub!First(name) = Epub!Min(having)
  BY DEF Epub!Archives, Epub!First
<1> HIDE DEF having
<1>2. Epub!Min(having) \in having /\ \A k \in having : Epub!Min(having) <= k
  BY <1>1, Smallest
<1> QED BY <1>1, <1>2 DEF having

-----------------------------------------------------------------------------
(* Paths, below the directories that all files share                         *)

LEMMA FilesAre ==
  ASSUME EpubInputs
  PROVE  /\ DOMAIN images \subseteq BookPictures /\ texts \subseteq BookTexts
         /\ DOMAIN images \cap texts = {}
         /\ \A f \in Epub!Files : f \in Seq(STRING) /\ Len(f) \in Nat \ {0}
<1>1. DOMAIN images \subseteq BookPictures /\ texts \subseteq BookTexts
  BY FunctionOfPart DEF EpubInputs
<1>2. ASSUME NEW f \in Epub!Files
      PROVE  f \in Seq(STRING) /\ Len(f) \in Nat \ {0}
  <2>1. f \in Seq(STRING) /\ f # <<>>
    BY <1>1, EpubAssumption DEF Epub!Files
  <2> QED BY <2>1, LenProperties, EmptySeq
<1> QED BY <1>1, <1>2, EpubAssumption

\* What is cut off is shorter than any path, and all paths begin with it.
LEMMA DepthIs ==
  ASSUME EpubInputs
  PROVE  Epub!Depth \in Nat /\ (Epub!Depth = 0 \/ Epub!Shared(Epub!Depth))
<1>1. CASE texts = {}
  BY <1>1 DEF Epub!Depth
<1>2. CASE texts # {}
  <2> DEFINE text == CHOOSE t \in texts : TRUE
             ends == {n \in 0 .. Len(text) : ~Epub!Shared(n + 1)}
             depth == Epub!Min(ends)
  <2>1. Epub!Depth = depth
    BY <1>2 DEF Epub!Depth
  <2>2. text \in Epub!Files
    BY <1>2 DEF Epub!Files
  <2> HIDE DEF text
  <2>3. Len(text) \in Nat
    BY <2>2, FilesAre
  <2>4. ~Epub!Shared(Len(text) + 1)
    <3>1. ~(Len(text) > Len(text) + 1)
      BY <2>3
    <3> QED BY <2>2, <3>1, Zenon DEF Epub!Shared
  <2>5. Len(text) \in ends /\ ends \in SUBSET Nat
    BY <2>3, <2>4
  <2>6. depth \in ends /\ \A k \in ends : depth <= k
    <3> HIDE DEF ends
    <3> QED BY <2>5, Smallest
  <2> HIDE DEF depth
  <2>7. depth \in 0 .. Len(text)
    BY <2>6
  <2>8. ASSUME depth # 0
        PROVE  Epub!Shared(depth)
    <3>1. depth - 1 \in 0 .. Len(text) /\ ~(depth <= depth - 1) /\ (depth - 1) + 1 = depth
      BY <2>3, <2>7, <2>8
    <3>2. depth - 1 \notin ends
      <4> HIDE DEF ends
      <4> QED BY <2>6, <3>1
    <3>3. Epub!Shared((depth - 1) + 1)
      BY <3>1, <3>2
    <3> QED BY <3>1, <3>3
  <2> QED BY <2>1, <2>3, <2>7, <2>8
<1> QED BY <1>1, <1>2

LEMMA CutIs ==
  ASSUME EpubInputs, NEW f \in Epub!Files
  PROVE  /\ Epub!Depth \in Nat /\ Len(f) \in Nat /\ Len(f) > Epub!Depth
         /\ Len(Epub!Cut(f)) = Len(f) - Epub!Depth
         /\ \A i \in 1 .. Len(f) - Epub!Depth : Epub!Cut(f)[i] = f[Epub!Depth + i]
<1> DEFINE d == Epub!Depth
<1>1. d \in Nat /\ (d = 0 \/ Epub!Shared(d)) /\ Len(f) \in Nat \ {0} /\ f \in Seq(STRING)
  BY DepthIs, FilesAre
<1>2. Len(f) > d
  <2>1. Epub!Shared(d) => Len(f) > d
    BY Zenon DEF Epub!Shared
  <2> QED BY <1>1, <2>1
<1>3. Epub!Cut(f) = SubSeq(f, d + 1, Len(f))
  BY DEF Epub!Cut
<1> HIDE DEF d
<1>4. \A i \in d + 1 .. Len(f) : f[i] \in STRING
  <2>1. \A i \in 1 .. Len(f) : f[i] \in STRING
    BY <1>1, ElementOfSeq
  <2> QED BY <1>1, <2>1
<1>5. /\ Len(SubSeq(f, d + 1, Len(f))) = IF d + 1 <= Len(f) THEN Len(f) - (d + 1) + 1 ELSE 0
      /\ \A i \in 1 .. Len(f) - (d + 1) + 1 : SubSeq(f, d + 1, Len(f))[i] = f[d + 1 + i - 1]
  <2>1. d + 1 \in Int /\ Len(f) \in Int
    BY <1>1
  <2> QED BY <1>4, <2>1, SubSeqProperties
<1>6. Len(f) - (d + 1) + 1 = Len(f) - d /\ d + 1 <= Len(f)
  BY <1>1, <1>2
<1>7. ASSUME NEW i \in 1 .. Len(f) - d
      PROVE  SubSeq(f, d + 1, Len(f))[i] = f[d + i]
  <2>1. d + 1 + i - 1 = d + i /\ i \in 1 .. Len(f) - (d + 1) + 1
    BY <1>1, <1>6
  <2>2. SubSeq(f, d + 1, Len(f))[i] = f[d + 1 + i - 1]
    BY <1>5, <2>1
  <2> QED BY <2>1, <2>2
<1> QED BY <1>1, <1>2, <1>3, <1>5, <1>6, <1>7 DEF d

\* No two files have the same place in the new archive.
LEMMA CutInjective ==
  ASSUME EpubInputs, NEW f \in Epub!Files, NEW g \in Epub!Files, Epub!Cut(f) = Epub!Cut(g)
  PROVE  f = g
<1> DEFINE d == Epub!Depth
<1>1. /\ d \in Nat /\ Len(f) \in Nat /\ Len(g) \in Nat /\ Len(f) > d /\ Len(g) > d
      /\ Len(Epub!Cut(f)) = Len(f) - d /\ Len(Epub!Cut(g)) = Len(g) - d
      /\ \A i \in 1 .. Len(f) - d : Epub!Cut(f)[i] = f[d + i]
      /\ \A i \in 1 .. Len(g) - d : Epub!Cut(g)[i] = g[d + i]
      /\ f \in Seq(STRING) /\ g \in Seq(STRING)
  BY CutIs, FilesAre
<1>2. d = 0 \/ SubSeq(f, 1, d) = SubSeq(g, 1, d)
  <2>1. Epub!Shared(d) => SubSeq(f, 1, d) = SubSeq(g, 1, d)
    BY Zenon DEF Epub!Shared
  <2> QED BY <2>1, DepthIs
<1> HIDE DEF d
<1>3. Len(f) = Len(g)
  BY <1>1
<1>4. ASSUME NEW h \in Seq(STRING), Len(h) \in Nat, Len(h) > d, NEW i \in 1 .. d
      PROVE  SubSeq(h, 1, d)[i] = h[i]
  <2>1. \A k \in 1 .. Len(h) : h[k] \in STRING
    BY ElementOfSeq
  <2>2. \A k \in 1 .. d : h[k] \in STRING
    BY <1>1, <1>4, <2>1
  <2>3. 1 \in Int /\ d \in Int
    BY <1>1
  <2>4. \A k \in 1 .. d - 1 + 1 : SubSeq(h, 1, d)[k] = h[1 + k - 1]
    BY <2>2, <2>3, SubSeqProperties
  <2>5. i \in 1 .. d - 1 + 1 /\ 1 + i - 1 = i
    BY <1>1
  <2>6. SubSeq(h, 1, d)[i] = h[1 + i - 1]
    BY <2>4, <2>5
  <2> QED BY <2>5, <2>6
<1>5. ASSUME NEW i \in 1 .. Len(f)
      PROVE  f[i] = g[i]
  <2>1. CASE i \in 1 .. d
    <3>1. SubSeq(f, 1, d)[i] = f[i] /\ SubSeq(g, 1, d)[i] = g[i]
      BY <1>1, <1>4, <2>1
    <3>2. d # 0
      BY <2>1
    <3> QED BY <1>2, <3>1, <3>2
  <2>2. CASE i \notin 1 .. d
    <3>1. i - d \in 1 .. Len(f) - d /\ i - d \in 1 .. Len(g) - d /\ d + (i - d) = i
      BY <1>1, <1>3, <2>2
    <3>2. Epub!Cut(f)[i - d] = f[d + (i - d)] /\ Epub!Cut(g)[i - d] = g[d + (i - d)]
      BY <1>1, <3>1
    <3> QED BY <3>1, <3>2
  <2> QED BY <2>1, <2>2
<1> QED BY <1>1, <1>3, <1>5, SeqEqual

-----------------------------------------------------------------------------
(* The pictures out of the archives                                          *)

\* What is found in the archives for a book.
LEMMA CoversAre ==
  ASSUME NEW name
  PROVE  LET covers == Epub!ExtractBookImages
         IN  /\ name \in DOMAIN covers <=> \E i \in Epub!Archives : name \in Epub!Asked(i)
             /\ name \in DOMAIN covers =>
                  /\ covers[name].isCover = Epub!OfCovers(Epub!First(name))
                  /\ covers[name].body = offered[Epub!First(name)][name]
BY DEF Epub!ExtractBookImages

\* An entry is the picture of this name in this archive, at the place that the
\* index gives for it.
Back(e, i, name) ==
  LET number == Epub!NumberOf(name, Epub!OfCovers(i))
  IN  /\ <<i, name>> \in Epub!Known(number) /\ number \in DOMAIN index
      /\ e = Epub!Entry(index[number], <<"archives", name>>, Epub!OfCovers(i))

\* That an archive has a picture of this name.
LEMMA AskedNames ==
  ASSUME EpubInputs, NEW i \in Epub!Archives, NEW name \in Epub!Asked(i)
  PROVE  name \in PictureNames \cup {CoverName} /\ offered[i][name] \in Epub!Bodies
<1>1. name \in DOMAIN offered[i]
  BY DEF Epub!Asked
<1>2. offered[i] \in Epub!PartialFunctions(IF Epub!OfCovers(i) THEN {CoverName} ELSE PictureNames,
                                          Epub!Bodies)
  BY DEF EpubInputs
<1>3. /\ DOMAIN offered[i] \subseteq IF Epub!OfCovers(i) THEN {CoverName} ELSE PictureNames
      /\ \A x \in DOMAIN offered[i] : offered[i][x] \in Epub!Bodies
  BY <1>2, FunctionOfPart
<1> QED BY <1>1, <1>3

LEMMA KnownIs ==
  ASSUME NEW i, NEW name, NEW number
  PROVE  <<i, name>> \in Epub!Known(number) <=>
           /\ i \in Epub!Archives /\ name \in PictureNames \cup {CoverName}
           /\ name \in Epub!Asked(i) /\ \A j \in 1 .. i - 1 : name \notin Epub!Asked(j)
           /\ offered[i][name] = "picture"
           /\ number = Epub!NumberOf(name, Epub!OfCovers(i))
BY DEF Epub!Known, Epub!NumberOf

\* The pictures that the archives give back are those that are known, each from the
\* first archive that has one of its name.
LEMMA RestoredAre ==
  ASSUME EpubInputs, NEW e
  PROVE  e \in Epub!Restored <=> \E i, name : Back(e, i, name)
<1> DEFINE covers == Epub!ExtractBookImages
           Number(name) == Epub!NumberOf(name, covers[name].isCover)
           PutBack(name) == /\ name \in DOMAIN covers /\ Number(name) \in DOMAIN index
                        /\ Epub!Recodes(covers[name].isCover, covers[name].body)
                        /\ e = Epub!Entry(index[Number(name)], <<"archives", name>>, covers[name].isCover)
<1>1. e \in Epub!Restored <=> \E name : PutBack(name)
  BY DEF Epub!Restored
<1>2. \A name : /\ name \in DOMAIN covers <=> \E i \in Epub!Archives : name \in Epub!Asked(i)
                /\ name \in DOMAIN covers =>
                     /\ covers[name].isCover = Epub!OfCovers(Epub!First(name))
                     /\ covers[name].body = offered[Epub!First(name)][name]
  BY CoversAre
<1> HIDE DEF covers
<1>3. ASSUME NEW name, PutBack(name)
      PROVE  Back(e, Epub!First(name), name)
  <2> DEFINE i == Epub!First(name)
  <2>1. /\ i \in Epub!Archives /\ name \in Epub!Asked(i)
        /\ \A k \in Epub!Archives : name \in Epub!Asked(k) => i <= k
    BY <1>2, <1>3, FirstIs
  <2>2. covers[name].isCover = Epub!OfCovers(i) /\ covers[name].body = offered[i][name]
    BY <1>2, <1>3
  <2> HIDE DEF i
  <2>3. \A j \in 1 .. i - 1 : name \notin Epub!Asked(j)
    <3>1. \A j \in 1 .. i - 1 : j \in Epub!Archives /\ ~(i <= j)
      BY <2>1 DEF Epub!Archives
    <3> QED BY <2>1, <3>1
  <2>4. offered[i][name] = "picture"
    BY <1>3, <2>2 DEF Epub!Recodes
  <2>5. name \in PictureNames \cup {CoverName}
    BY <2>1, AskedNames
  <2>6. Number(name) = Epub!NumberOf(name, Epub!OfCovers(i))
    BY <2>2
  <2>7. <<i, name>> \in Epub!Known(Number(name))
    BY <2>1, <2>3, <2>4, <2>5, <2>6, KnownIs
  <2> QED BY <1>3, <2>2, <2>6, <2>7 DEF Back, i
<1>4. ASSUME NEW i, NEW name, Back(e, i, name)
      PROVE  PutBack(name)
  <2> DEFINE number == Epub!NumberOf(name, Epub!OfCovers(i))
  <2>1. /\ <<i, name>> \in Epub!Known(number) /\ number \in DOMAIN index
        /\ e = Epub!Entry(index[number], <<"archives", name>>, Epub!OfCovers(i))
    BY <1>4 DEF Back
  <2> HIDE DEF number
  <2>2. /\ i \in Epub!Archives /\ name \in Epub!Asked(i)
        /\ \A j \in 1 .. i - 1 : name \notin Epub!Asked(j)
        /\ offered[i][name] = "picture" /\ number = Epub!NumberOf(name, Epub!OfCovers(i))
    BY <2>1, KnownIs
  <2>3. Epub!First(name) = i
    <3> DEFINE k == Epub!First(name)
    <3>1. k \in Epub!Archives /\ name \in Epub!Asked(k) /\ k <= i
      BY <2>2, FirstIs
    <3> HIDE DEF k
    <3>2. ~(k < i)
      <4>1. k < i => k \in 1 .. i - 1
        BY <2>2, <3>1 DEF Epub!Archives
      <4> QED BY <2>2, <3>1, <4>1
    <3>3. k = i
      BY <2>2, <3>1, <3>2 DEF Epub!Archives
    <3> QED BY <3>3 DEF k
  <2>4. /\ name \in DOMAIN covers /\ covers[name].isCover = Epub!OfCovers(i)
        /\ covers[name].body = "picture"
    BY <1>2, <2>2, <2>3
  <2>5. Epub!Recodes(covers[name].isCover, covers[name].body)
    BY <2>2, <2>4 DEF Epub!Recodes, Epub!Asked
  <2> QED BY <2>1, <2>2, <2>4, <2>5
<1> HIDE DEF PutBack
<1> QED BY <1>1, <1>3, <1>4

-----------------------------------------------------------------------------
(* What is where in the new archive                                          *)

\* A text and a picture of the book at its place.
Text(path)    == Epub!Entry(Epub!Cut(path), <<"texts">>, FALSE)
Picture(path) == Epub!Entry(Epub!Cut(path), <<"images">>, path = front)
Remains(path)   == path \in DOMAIN images /\ Epub!Recodes(path = front, images[path])

LEMMA OwnAre ==
  ASSUME NEW e
  PROVE  e \in Epub!Own <=> \/ \E path \in texts : e = Text(path)
                            \/ \E path : Remains(path) /\ e = Picture(path)
BY Zenon DEF Epub!Own, Text, Picture, Remains

LEMMA EpubInitHolds == Epub!Init => EpubInv
<1> SUFFICES ASSUME Epub!Init
             PROVE  EpubInv
  OBVIOUS
<1>1. PICK coverZip \in Epub!PartialFunctions({CoverName}, Epub!Bodies),
           cover7z \in Epub!PartialFunctions({CoverName}, Epub!Bodies),
           imageZip \in Epub!PartialFunctions(PictureNames, Epub!Bodies),
           image7z \in Epub!PartialFunctions(PictureNames, Epub!Bodies) :
        offered = <<coverZip, cover7z, imageZip, image7z>>
  BY Zenon DEF Epub!Init
<1>2. \A i \in Epub!Archives :
        offered[i] \in Epub!PartialFunctions(IF Epub!OfCovers(i) THEN {CoverName} ELSE PictureNames,
                                            Epub!Bodies)
  BY <1>1 DEF Epub!Archives, Epub!OfCovers
<1>3. /\ index \in Epub!PartialFunctions({NumberIn[name] : name \in PictureNames} \cup {Epub!CoverNumber},
                                         BookPictures)
      /\ images \in Epub!PartialFunctions(BookPictures, Epub!Bodies)
      /\ texts \in SUBSET BookTexts /\ output = <<>>
  BY Zenon DEF Epub!Init
<1> QED BY <1>2, <1>3 DEF EpubInv, EpubInputs

LEMMA PrepareToExportKeeps ==
  ASSUME EpubInv, Epub!PrepareToExport
  PROVE  EpubInv'
<1>1. /\ output' = <<Epub!Restored \cup Epub!Own>>
      /\ UNCHANGED <<processing, offered, index, images, texts, front>>
  BY DEF Epub!PrepareToExport, Epub!inputVars
<1>2. EpubInputs'
  BY <1>1 DEF EpubInv, EpubInputs
<1>3. Epub!Restored' = Epub!Restored /\ Epub!Own' = Epub!Own
  BY <1>1 DEF Epub!Restored, Epub!ExtractBookImages, Epub!First, Epub!Asked, Epub!Recodes,
              Epub!Own, Epub!Cut, Epub!Depth, Epub!Shared, Epub!Files
<1> QED BY <1>1, <1>2, <1>3 DEF EpubInv

\* The pictures are at their places.
LEMMA EntriesRight ==
  ASSUME EpubInputs, output = <<Epub!Restored \cup Epub!Own>>
  PROVE  Epub!EpubRestored
<1>1. Epub!Entries = Epub!Restored \cup Epub!Own
  BY DEF Epub!Entries
<1>2. \A e : e \in Epub!Entries <=> \/ \E i, name : Back(e, i, name)
                                    \/ \E path \in texts : e = Text(path)
                                    \/ \E path : Remains(path) /\ e = Picture(path)
  BY <1>1, RestoredAre, OwnAre
<1>3. /\ texts \subseteq Epub!Files /\ DOMAIN images \subseteq Epub!Files
      /\ DOMAIN images \cap texts = {}
  BY FilesAre DEF Epub!Files
<1>4. ASSUME NEW e \in Epub!Entries
      PROVE  /\ e.isCover => "RemoveCovers" \notin processing
             /\ e.from # <<"texts">> /\ ~e.isCover => "RemoveImages" \notin processing
  <2>1. ASSUME NEW i, NEW name, Back(e, i, name)
        PROVE  (IF e.isCover THEN "RemoveCovers" ELSE "RemoveImages") \notin processing
    <3>1. name \in Epub!Asked(i)
      BY <2>1, KnownIs DEF Back
    <3>2. e.isCover = Epub!OfCovers(i)
      BY <2>1 DEF Back, Epub!Entry
    <3> QED BY <3>1, <3>2 DEF Epub!Asked
  <2>2. ASSUME NEW path \in texts, e = Text(path)
        PROVE  ~e.isCover /\ e.from = <<"texts">>
    BY <2>2 DEF Text, Epub!Entry
  <2>3. ASSUME NEW path, Remains(path), e = Picture(path)
        PROVE  (IF e.isCover THEN "RemoveCovers" ELSE "RemoveImages") \notin processing
    <3>1. e.isCover = (path = front)
      BY <2>3 DEF Picture, Epub!Entry
    <3> QED BY <2>3, <3>1 DEF Remains, Epub!Recodes
  <2> QED BY <1>2, <2>1, <2>2, <2>3
<1>5. ASSUME Epub!TakenOut, NEW f \in Epub!Files, NEW e \in Epub!Entries, e.path = Epub!Cut(f)
      PROVE  \/ f \in texts /\ e = Text(f)
             \/ Remains(f) /\ e = Picture(f)
  <2>1. ASSUME NEW i, NEW name, Back(e, i, name)
        PROVE  FALSE
    <3>1. PICK number \in DOMAIN index : e.path = index[number]
      BY <2>1 DEF Back, Epub!Entry
    <3> QED BY <1>5, <3>1 DEF Epub!TakenOut
  <2>2. ASSUME NEW path \in texts, e = Text(path)
        PROVE  path = f
    <3>1. e.path = Epub!Cut(path)
      BY <2>2 DEF Text, Epub!Entry
    <3> QED BY <1>3, <1>5, <3>1, CutInjective
  <2>3. ASSUME NEW path, Remains(path), e = Picture(path)
        PROVE  path = f
    <3>1. e.path = Epub!Cut(path) /\ path \in DOMAIN images
      BY <2>3 DEF Picture, Epub!Entry, Remains
    <3> QED BY <1>3, <1>5, <3>1, CutInjective
  <2> QED BY <1>2, <2>1, <2>2, <2>3
<1>6. ASSUME Epub!TakenOut, NEW path \in texts
      PROVE  Epub!At(Epub!Cut(path)) = {Text(path)}
  <2>1. Text(path) \in Epub!Entries /\ Text(path).path = Epub!Cut(path)
    BY <1>2 DEF Text, Epub!Entry
  <2>2. path \in Epub!Files /\ path \notin DOMAIN images
    BY <1>3
  <2>3. \A e \in Epub!Entries : e.path = Epub!Cut(path) => e = Text(path)
    BY <1>5, <1>6, <2>2 DEF Remains
  <2> QED BY <2>1, <2>3 DEF Epub!At
<1>7. ASSUME Epub!TakenOut, NEW path \in DOMAIN images
      PROVE  Epub!At(Epub!Cut(path)) = IF Epub!Recodes(path = front, images[path])
                                       THEN {Picture(path)} ELSE {}
  <2>1. path \in Epub!Files /\ path \notin texts
    BY <1>3
  <2>2. \A e \in Epub!Entries : e.path = Epub!Cut(path) => Remains(path) /\ e = Picture(path)
    BY <1>5, <1>7, <2>1
  <2>3. Remains(path) => Picture(path) \in Epub!Entries /\ Picture(path).path = Epub!Cut(path)
    BY <1>2 DEF Picture, Epub!Entry
  <2>4. Remains(path) <=> Epub!Recodes(path = front, images[path])
    BY DEF Remains
  <2> QED BY <2>2, <2>3, <2>4 DEF Epub!At
<1>8. ASSUME Epub!TakenOut, Epub!Distinct, NEW number \in DOMAIN index
      PROVE  Epub!At(index[number]) =
               {Epub!Entry(index[number], <<"archives", s[2]>>, Epub!OfCovers(s[1])) :
                  s \in Epub!Known(number)}
  <2> DEFINE Known(s) == Epub!Entry(index[number], <<"archives", s[2]>>, Epub!OfCovers(s[1]))
  <2>1. ASSUME NEW e \in Epub!Entries, e.path = index[number]
        PROVE  \E s \in Epub!Known(number) : e = Known(s)
    <3>1. e.path \notin {Epub!Cut(path) : path \in Epub!Files}
      BY <1>8, <2>1 DEF Epub!TakenOut
    <3>2. \A path \in texts : Text(path).path = Epub!Cut(path) /\ path \in Epub!Files
      BY <1>3 DEF Text, Epub!Entry
    <3>3. \A path : Remains(path) => Picture(path).path = Epub!Cut(path) /\ path \in Epub!Files
      BY <1>3 DEF Picture, Epub!Entry, Remains
    <3>4. PICK i, name : Back(e, i, name)
      BY <1>2, <3>1, <3>2, <3>3
    <3> DEFINE n == Epub!NumberOf(name, Epub!OfCovers(i))
    <3>5. /\ <<i, name>> \in Epub!Known(n) /\ n \in DOMAIN index
          /\ e = Epub!Entry(index[n], <<"archives", name>>, Epub!OfCovers(i))
      BY <3>4 DEF Back
    <3> HIDE DEF n
    <3>6. index[n] = index[number]
      BY <2>1, <3>5 DEF Epub!Entry
    <3>7. n = number
      BY <1>8, <3>5, <3>6 DEF Epub!Distinct
    <3>8. e = Known(<<i, name>>)
      BY <3>5, <3>7
    <3> HIDE DEF Known
    <3> QED BY <3>5, <3>7, <3>8
  <2>2. ASSUME NEW s \in Epub!Known(number)
        PROVE  Known(s) \in Epub!Entries /\ Known(s).path = index[number]
    <3>1. PICK i, name : s = <<i, name>>
      BY DEF Epub!Known
    <3>2. number = Epub!NumberOf(name, Epub!OfCovers(i))
      BY <3>1, KnownIs
    <3>3. Back(Known(s), i, name)
      BY <1>8, <3>1, <3>2 DEF Back
    <3>4. Known(s) \in Epub!Entries
      BY <1>2, <3>3
    <3> QED BY <3>4 DEF Epub!Entry
  <2> HIDE DEF Known
  <2>3. Epub!At(index[number]) = {Known(s) : s \in Epub!Known(number)}
    BY <2>1, <2>2 DEF Epub!At
  <2> QED BY <2>3 DEF Known
<1> QED BY <1>4, <1>6, <1>7, <1>8 DEF Epub!EpubRestored, Text, Picture

-----------------------------------------------------------------------------
(* The same of the specification that TLC checks, which exports a book of one *)
(* kind or the other.                                                        *)

LEMMA PartInvariance == PartSpec => [](part = "fb2" => Inv)
<1>1. PartInit => (part = "fb2" => Inv)
  BY InitHolds DEF PartInit, Fb2Init
<1>2. (part = "fb2" => Inv) /\ [PartNext]_partVars => (part = "fb2" => Inv)'
  <2> SUFFICES ASSUME part = "fb2" => Inv, [PartNext]_partVars, part' = "fb2"
               PROVE  Inv'
    OBVIOUS
  <2>1. part' = part /\ part = "fb2"
    BY DEF PartNext, partVars
  <2>2. [Next]_vars
    BY <2>1 DEF PartNext, partVars
  <2> QED BY <2>1, <2>2, StepKeeps
<1> QED BY <1>1, <1>2, PTL DEF PartSpec

\* Type correctness of an FB2 export, of the writer's counters too, however many
\* pictures there are.
THEOREM PartTypeCorrect == PartSpec => []PartTypeOK
<1>1. (part = "fb2" => Inv) => PartTypeOK
  BY Consequences DEF PartTypeOK
<1> QED BY <1>1, PartInvariance, PTL

\* SaxPrinter knows what it leaves out: its writer and the reader never lose step.
THEOREM PrinterInStepAlways == PartSpec => []PrinterInStep
<1>1. (part = "fb2" => Inv) => PrinterInStep
  BY Consequences DEF PrinterInStep
<1> QED BY <1>1, PartInvariance, PTL

\* What SaxPrinter writes with XmlWriter is a sound document, and a complete one when
\* PrepareToExport_fb2() returns without an error.
THEOREM DocumentSoundAlways == PartSpec => []DocumentSound
<1>1. (part = "fb2" => Inv) => DocumentSound
  BY Consequences DEF DocumentSound
<1> QED BY <1>1, PartInvariance, PTL

LEMMA EpubStepKeeps == EpubInv /\ [Epub!Next]_(Epub!vars) => EpubInv'
<1> SUFFICES ASSUME EpubInv, [Epub!Next]_(Epub!vars) PROVE EpubInv'
  OBVIOUS
<1>1. CASE UNCHANGED Epub!vars
  <2>1. UNCHANGED <<processing, offered, index, images, texts, front, output>>
    BY <1>1 DEF Epub!vars, Epub!inputVars
  <2>2. Epub!Restored' = Epub!Restored /\ Epub!Own' = Epub!Own
    BY <2>1 DEF Epub!Restored, Epub!ExtractBookImages, Epub!First, Epub!Asked, Epub!Recodes,
                Epub!Own, Epub!Cut, Epub!Depth, Epub!Shared, Epub!Files
  <2> QED BY <2>1, <2>2 DEF EpubInv, EpubInputs
<1>2. CASE Epub!Next
  BY <1>2, PrepareToExportKeeps DEF Epub!Next
<1> QED BY <1>1, <1>2

LEMMA EpubInvariance == PartSpec => [](part = "epub" => EpubInv)
<1>1. PartInit => (part = "epub" => EpubInv)
  BY EpubInitHolds DEF PartInit, Fb2Init
<1>2. (part = "epub" => EpubInv) /\ [PartNext]_partVars => (part = "epub" => EpubInv)'
  <2> SUFFICES ASSUME part = "epub" => EpubInv, [PartNext]_partVars, part' = "epub"
               PROVE  EpubInv'
    OBVIOUS
  <2>1. part' = part /\ part = "epub"
    BY DEF PartNext, partVars
  <2>2. [Epub!Next]_(Epub!vars)
    BY <2>1 DEF PartNext, partVars, epubVars, Epub!vars, Epub!inputVars
  <2> QED BY <2>1, <2>2, EpubStepKeeps
<1> QED BY <1>1, <1>2, PTL DEF PartSpec

\* Every picture the archives have is in the copy once: in an FB2 book when it can be
\* decoded and there was no error, in an EPUB book at the path its index gives, beside
\* all texts, and none that the settings take away.
THEOREM PicturesRestoredAlways == PartSpec => []PicturesRestored
<1>1. (part = "fb2" => Inv) /\ (part = "epub" => EpubInv) => PicturesRestored
  <2>1. EpubInv => Epub!EpubRestored
    BY EntriesRight DEF EpubInv, Epub!EpubRestored
  <2> QED BY <2>1, Consequences DEF PicturesRestored
<1> QED BY <1>1, PartInvariance, EpubInvariance, PTL

=============================================================================
