------------------------------- MODULE XmlWriter -------------------------------
(***************************************************************************)
(* util/xml/XmlWriter.cpp: a writer of indented XML, as operators that take *)
(* a writer and return the writer after the call.  Next to the members of   *)
(* the class a writer carries "out", what a reader of the bytes written so  *)
(* far would make of them: the elements it has open, whether it is inside a *)
(* start tag, what a text that came now would follow, whether all made      *)
(* sense, and whether indentation and text have touched.                    *)
(***************************************************************************)
EXTENDS Naturals, Sequences

Top(s) == s[Len(s)]
Pop(s) == SubSeq(s, 1, Len(s) - 1)

\* m_unbreakableTags
Unbreakable == {"a", "emphasis", "strong", "sub", "sup", "strikethrough", "code", "image"}

-----------------------------------------------------------------------------
(* The output.  Tokens: "start" and "end" of an element, "attr"ibute, ">"   *)
(* and "/>", "text", "break" (indentation) and "pi".                        *)

Legal(out, token, name) ==
  CASE token \in {"attr", ">", "/>"} -> out.inTag
    [] token = "end" -> ~out.inTag /\ out.open # <<>> /\ Top(out.open) = name
    [] OTHER -> ~out.inTag

Opened(open, token, name) ==
  CASE token = "start" -> Append(open, name)
    [] token \in {"/>", "end"} /\ open # <<>> -> Pop(open)
    [] OTHER -> open

InTag(inTag, token) == token = "start" \/ (inTag /\ token \notin {">", "/>"})

\* The tags of an Unbreakable element run on in the text around them; those of any
\* other begin a "block".
Edge(out, token, name) ==
  CASE token \in {"text", "break"} -> token
    [] token = "start" /\ name \notin Unbreakable -> "block"
    [] token \in {"/>", "end"} /\ out.open # <<>> /\ Top(out.open) \notin Unbreakable -> "block"
    [] OTHER -> out.edge

\* Indentation next to text is a space that the book did not have.
Tears(edge, token) == (edge = "text" /\ token = "break") \/ (edge = "break" /\ token = "text")

Nothing == [open |-> <<>>, inTag |-> FALSE, edge |-> "block", sound |-> TRUE, torn |-> FALSE]

\* A reader gives up at the first thing out of place.
Spoiled == [Nothing EXCEPT !.sound = FALSE]

Reads(out, token, name) ==
  IF ~out.sound \/ ~Legal(out, token, name) THEN Spoiled
  ELSE [open |-> Opened(out.open, token, name), inTag |-> InTag(out.inTag, token),
        edge |-> Edge(out, token, name), sound |-> TRUE,
        torn |-> out.torn \/ Tears(out.edge, token)]

Put(w, token, name) == [w EXCEPT !.out = Reads(@, token, name)]

\* Of a token, or an element, that has no name of its own.
Unnamed == ""

-----------------------------------------------------------------------------
(* The writer.                                                               *)

Writer(indented) ==
  [elements |-> <<>>, tagOpened |-> FALSE, characterDepth |-> 0, unbreakableCount |-> 0,
   indented |-> indented, out |-> Nothing]

CloseTag(w) == IF w.tagOpened THEN [Put(w, ">", Unnamed) EXCEPT !.tagOpened = FALSE] ELSE w

\* Mutant: the line is broken wherever an element starts or ends.
BreakAlways(w) == IF w.indented THEN Put(w, "break", Unnamed) ELSE w

BreakLine(w) ==
  IF w.characterDepth # 0 \/ w.unbreakableCount # 0 \/ ~w.indented THEN w
                                                                  ELSE Put(w, "break", Unnamed)

One(name) == IF name \in Unbreakable THEN 1 ELSE 0

WriteStartElement(w, name) ==
  [Put(BreakLine(CloseTag(w)), "start", name) EXCEPT
     !.elements = Append(@, name), !.tagOpened = TRUE, !.unbreakableCount = @ + One(name)]

WriteAttribute(w) == Put(w, "attr", Unnamed)

\* Mutant: the depth of the text outlives its element.
KeepDepth(w) == w.characterDepth

\* The text of m_characterDepth ends with the element it began in.
DepthAfterEnd(w) == IF w.characterDepth = Len(w.elements) THEN 0 ELSE w.characterDepth

EndTag(w, name) ==
  IF w.tagOpened THEN [Put(w, "/>", Unnamed) EXCEPT !.tagOpened = FALSE]
                 ELSE Put(BreakLine(w), "end", name)

WriteEndElement(w) ==
  LET name == Top(w.elements) IN
  [EndTag(w, name) EXCEPT
     !.elements = Pop(@), !.characterDepth = DepthAfterEnd(w), !.unbreakableCount = @ - One(name)]

WriteCharacters(w) ==
  [Put(CloseTag(w), "text", Unnamed) EXCEPT
     !.characterDepth = IF @ = 0 THEN Len(w.elements) ELSE @]

\* An element of its own with text in it.  No characters, no text.
WriteNode(w, name, empty) ==
  LET started == WriteStartElement(w, name)
  IN  WriteEndElement(IF empty THEN started ELSE WriteCharacters(started))

\* Alone among the operations this one does not close a start tag first.
WriteProcessingInstruction(w) == Put(Put(w, "break", Unnamed), "pi", Unnamed)
=============================================================================
