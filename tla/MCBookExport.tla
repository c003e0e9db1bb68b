------------------------------ MODULE MCBookExport ------------------------------
(* The export of FB2 and of EPUB books, checked side by side: the initial state *)
(* picks one of them. Two pictures: the cover the archives may offer, and        *)
(* another one.                                                              *)
EXTENDS BookExport

CONSTANTS PictureNames, NumberIn, BookPictures, BookTexts, MaxOffered   \* of EpubExport

\* A path has at least the name of a file, and no file is a picture and a text.
ASSUME EpubAssumption ==
  /\ BookPictures \cup BookTexts \subseteq Seq(STRING) \ {<<>>}
  /\ BookPictures \cap BookTexts = {}

VARIABLES part,                                                       \* the one picked
          processing, offered, index, images, texts, front, output    \* EpubExport

epubVars == <<processing, offered, index, images, texts, front, output>>
partVars == <<part, vars, epubVars>>

TwoIds == {"cover", "i1"}
WithAndWithout == {"none", "series"}
\* The other combinations only encode what is left anew.
FiveProcessings == {{}, {"Recode"}, {"RemoveCovers"}, {"RemoveImages"}, {"RemoveCovers", "RemoveImages"}}

\* A number and a name that is none, which reads as 0 like that of a cover.
ThreeNames   == {"0", "x", "cover"}
NumbersOfAll == [name \in ThreeNames |-> 0]

\* Files that share no directory, one or two.
TwoPictures == {<<"d", "e", "p">>, <<"d", "q">>}
TwoTexts    == {<<"mimetype">>, <<"d", "e", "page">>}

Epub == INSTANCE EpubExport WITH Names <- PictureNames

IdleFb2 ==
  /\ stack = <<>> /\ characters = "none" /\ stopped = FALSE /\ handler = <<>>
  /\ book = <<>> /\ given = <<>> /\ left = <<>> /\ phase = ""

IdleEpub ==
  /\ processing = {} /\ offered = <<>> /\ index = <<>> /\ images = <<>> /\ texts = {}
  /\ front = <<>> /\ output = <<>>

Fb2Init == part = "fb2" /\ Init /\ IdleEpub

PartInit == Fb2Init \/ (part = "epub" /\ Epub!Init /\ IdleFb2)

PartNext ==
  \/ part = "fb2" /\ Next /\ UNCHANGED <<part, epubVars>>
  \/ part = "epub" /\ Epub!Next /\ UNCHANGED <<part, vars>>

PartSpec == PartInit /\ [][PartNext]_partVars
Fb2Spec  == Fb2Init /\ [][PartNext]_partVars

-----------------------------------------------------------------------------

\* The depths that the writer keeps are those of the elements it has open, and so
\* on for every variable of the export of an FB2 book, see BookExport.
PartTypeOK == part = "fb2" => TypeOK

\* The printer knows what it leaves out, see BookExport.
PrinterInStep == part = "fb2" => InStep

\* What is written of an FB2 book is a document, see BookExport.
DocumentSound == part = "fb2" => OutputSound

\* The pictures of an FB2 book are written once, and those of an EPUB book are back
\* at their places, see BookExport and EpubExport.
PicturesRestored ==
  /\ part = "fb2"  => KnownImagesOnce
  /\ part = "epub" => Epub!EpubRestored
=============================================================================
