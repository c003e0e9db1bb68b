------------------------------- MODULE EpubParser -------------------------------
(* What util/EpubParser.cpp makes of an EPUB file: the fields of its package     *)
(* document, its pictures with the cover in front, and its texts. A file is named *)
(* by its path from the directory of the package document on.                     *)
EXTENDS Integers, Sequences, SequencesExt, FiniteSets

CONSTANTS
  Pictures, Pages,        \* names of files: images, and pages that show an image
  Ids, CoverIds,          \* ids of items; those with "cover" or "titlepage" in them
  MaxElements, MaxFields, \* bound the elements in the sections, and fields among the first
  NotHere                 \* no file

Sections == <<"metadata", "manifest", "spine", "guide">>
Fields   == {"title", "creator"}      \* elements that parse_metadata() reads
Files    == Pictures \cup Pages
Modes    == {{}, {"images"}, {"texts"}, {"images", "texts"}}

VARIABLES
  mode,                   \* what the caller asks for
  phase,                  \* "opf" while the package document is read, then "done"
  body,                   \* when done: the files of the archive that are not empty
  shows,                  \* when done: the image a page shows first, NotHere for none
  section,                \* m_upperLevelType as an index into Sections, 0: none
  passed,                 \* the sections up to this one are over
  open, text,             \* the metadata element that is open, and whether it had text
  functor,                \* m_functor: the field that takes the next characters
  fields,                 \* m_result: for each field, the element its text is from
  coverId, coverPath,     \* m_coverId, m_coverPath; NotHere while empty
  manifest,               \* m_manifest
  spineItemRefFound,      \* m_spineItemRefFound
  doc,                    \* history: the elements read
  images, texts, coverExists  \* of the ParseResult

document == <<section, passed, open, text, functor, fields, coverId, coverPath,
              manifest, spineItemRefFound, doc>>
vars == <<mode, phase, body, shows, document, images, texts, coverExists>>

Init ==
  /\ mode \in Modes /\ body = {} /\ shows = [page \in Pages |-> NotHere]
  /\ phase = "opf" /\ section = 0 /\ passed = 0 /\ open = "" /\ text = FALSE
  /\ functor = "" /\ fields = [f \in Fields |-> ""]
  /\ coverId = NotHere /\ coverPath = NotHere /\ manifest = <<>>
  /\ spineItemRefFound = FALSE /\ doc = <<>>
  /\ images = <<>> /\ texts = {} /\ coverExists = FALSE

-------------------------------------------------------------------------------
(* The package document *)

In(name) == phase = "opf" /\ section # 0 /\ open = "" /\ Sections[section] = name
Elements(kind) == {i \in DOMAIN doc : doc[i].kind = kind}
Element(e) == Len(doc) < MaxElements /\ doc' = Append(doc, e)
Outside == UNCHANGED <<mode, body, shows, phase, images, texts, coverExists>>

\* The sections come in the order of the format; any may be missing.
StartSection(s) ==
  /\ phase = "opf" /\ section = 0 /\ s > passed
  /\ section' = s
  /\ UNCHANGED <<passed, open, text, functor, fields, coverId, coverPath, manifest,
                 spineItemRefFound, doc>> /\ Outside

\* Without pictures to look for, nothing after the metadata is read.
EndSection ==
  /\ phase = "opf" /\ section # 0 /\ open = ""
  /\ section' = 0
  /\ passed' = IF "images" \notin mode /\ Sections[section] = "metadata"
               THEN Len(Sections) ELSE section
  /\ UNCHANGED <<open, text, functor, fields, coverId, coverPath, manifest,
                 spineItemRefFound, doc>> /\ Outside

\* parse_metadata(): a field, or an element that is none.
StartField(name) ==
  /\ In("metadata") /\ Len(doc) < MaxFields /\ Element([kind |-> "field"])
  /\ open' = name /\ text' = FALSE
  /\ functor' = IF name \in Fields THEN name ELSE functor
  /\ UNCHANGED <<section, passed, fields, coverId, coverPath, manifest,
                 spineItemRefFound>> /\ Outside

\* The functor is used once.
OnCharacters ==
  /\ open # "" /\ ~text /\ text' = TRUE
  /\ IF functor = "" THEN UNCHANGED <<fields, functor>>
     ELSE fields' = [fields EXCEPT ![functor] = open] /\ functor' = ""
  /\ UNCHANGED <<section, passed, open, coverId, coverPath, manifest,
                 spineItemRefFound, doc>> /\ Outside

EndField ==
  /\ open # "" /\ open' = ""
  /\ UNCHANGED <<section, passed, text, functor, fields, coverId, coverPath, manifest,
                 spineItemRefFound, doc>> /\ Outside

\* <meta name="cover" content="..."/>
Meta(id) ==
  /\ In("metadata") /\ Element([kind |-> "meta", id |-> id])
  /\ coverId' = id
  /\ UNCHANGED <<section, passed, open, text, functor, fields, coverPath, manifest,
                 spineItemRefFound>> /\ Outside

\* A bug to try: what is marked as the cover counts only as long as there is none.
FirstCover(id, href, marked) ==
  IF coverPath = NotHere /\ (marked \/ (href \in Pictures /\ id = coverId)) THEN href
  ELSE coverPath

\* An item that is marked, or an image with the id of the cover; the last one stays.
CoverOf(id, href, marked) ==
  IF marked \/ (href \in Pictures /\ id = coverId) THEN href ELSE coverPath

\* parse_manifest(): the ids of a document are different.
Item(id, href, marked) ==
  /\ In("manifest") /\ id \notin DOMAIN manifest
  /\ Element([kind |-> "item", id |-> id, href |-> href, marked |-> marked])
  /\ manifest' = [i \in DOMAIN manifest \cup {id} |-> IF i = id THEN href ELSE manifest[i]]
  /\ coverPath' = CoverOf(id, href, marked)
  /\ UNCHANGED <<section, passed, open, text, functor, fields, coverId,
                 spineItemRefFound>> /\ Outside

\* parse_spine(): the first page, if nothing was declared before.
ItemRef(id) ==
  /\ In("spine") /\ Element([kind |-> "itemref", id |-> id])
  /\ LET first == ~spineItemRefFound /\ coverPath = NotHere
     IN /\ spineItemRefFound' = (spineItemRefFound \/ first)
        /\ IF first /\ id \in DOMAIN manifest
           THEN coverPath' = manifest[id] /\ coverId' = manifest[id]
           ELSE UNCHANGED <<coverPath, coverId>>
  /\ UNCHANGED <<section, passed, open, text, functor, fields, manifest>> /\ Outside

\* parse_guide(): a reference of type "cover" or "title-page".
Reference(href) ==
  /\ In("guide") /\ Element([kind |-> "reference", href |-> href])
  /\ IF coverPath = NotHere THEN coverPath' = href /\ coverId' = href
                            ELSE UNCHANGED <<coverPath, coverId>>
  /\ UNCHANGED <<section, passed, open, text, functor, fields, manifest,
                 spineItemRefFound>> /\ Outside

-------------------------------------------------------------------------------
(* The files of the archive *)

\* What was in front of it moves back by one.
ToFront(path, list) ==
  LET k == CHOOSE i \in DOMAIN list : list[i] = path
  IN [i \in DOMAIN list |-> IF i = 1 THEN path ELSE IF i <= k THEN list[i - 1] ELSE list[i]]

\* HtmlParser reads pages, which are moved into the result when texts are wanted.
GetImagePath(page) ==
  IF page \in body' /\ "texts" \notin mode THEN shows'[page] ELSE NotHere

\* findCover() in ProcessCover()
FindCover(path) == IF path \in Pages THEN GetImagePath(path) ELSE path

\* The candidates, in any order of the hash map.
FallbackCovers == {FindCover(manifest[id]) : id \in DOMAIN manifest \cap CoverIds}

\* Parse() behind the package document: pictures in the order of the hash map,
\* then ProcessCover(). An empty file is no picture and no text.
Finish(files, shown) ==
  /\ phase = "opf" /\ section = 0
  /\ phase' = "done" /\ body' = files /\ shows' = shown
  /\ IF mode = {} THEN UNCHANGED <<images, texts, coverExists>>
     ELSE /\ texts' = IF "texts" \notin mode THEN {}
                      ELSE IF "images" \in mode THEN files \ Pictures ELSE files
          /\ IF "images" \notin mode THEN UNCHANGED <<images, coverExists>>
             ELSE \E list \in SetToSeqs(files \cap Pictures) :
                    LET there  == files \cap Pictures
                        direct == IF coverPath = NotHere THEN NotHere ELSE FindCover(coverPath)
                    IN IF direct \in there
                       THEN images' = ToFront(direct, list) /\ coverExists' = TRUE
                       ELSE IF FallbackCovers \cap there # {}
                       THEN \E cover \in FallbackCovers \cap there :
                              images' = ToFront(cover, list) /\ coverExists' = TRUE
                       ELSE images' = list /\ UNCHANGED coverExists
  /\ UNCHANGED <<mode, document>>

-------------------------------------------------------------------------------

Next ==
  \/ \E s \in 1 .. Len(Sections) : StartSection(s)
  \/ EndSection
  \/ \E name \in Fields \cup {"date"} : StartField(name)
  \/ OnCharacters \/ EndField
  \/ \E id \in Ids : Meta(id) \/ ItemRef(id)
  \/ \E id \in Ids, href \in Files, marked \in BOOLEAN : Item(id, href, marked)
  \/ \E href \in Files : Reference(href)
  \/ \E files \in SUBSET Files, shown \in [Pages -> Pictures \cup {NotHere}] : Finish(files, shown)

Spec == Init /\ [][Next]_vars

-------------------------------------------------------------------------------
(* Properties *)

\* A picture is in the result only when it is done.
TypeOK ==
  /\ mode \in Modes /\ body \in SUBSET Files /\ phase \in {"opf", "done"}
  /\ section \in 0 .. Len(Sections) /\ passed \in 0 .. Len(Sections)
  /\ functor \in Fields \cup {""} /\ fields \in [Fields -> Fields \cup {"", "date"}]
  /\ coverPath \in Files \cup {NotHere} /\ \A id \in DOMAIN manifest : manifest[id] \in Files
  /\ phase = "opf" => images = <<>> /\ texts = {} /\ ~coverExists

\* The cover that the package declares: by the manifest, else by its first page,
\* else by its guide.
MetaCover == LET m == Elements("meta") IN IF m = {} THEN NotHere ELSE doc[Max(m)].id
Marked(i) == doc[i].marked \/ (doc[i].href \in Pictures /\ doc[i].id = MetaCover)
Declared ==
  LET items == {i \in Elements("item") : Marked(i)}
      refs  == Elements("itemref")
      first == {i \in Elements("item") : refs # {} /\ doc[i].id = doc[Min(refs)].id}
      guide == Elements("reference")
  IN IF items # {} THEN doc[Max(items)].href
     ELSE IF first # {} THEN doc[Min(first)].href
     ELSE IF guide # {} THEN doc[Min(guide)].href ELSE NotHere

\* Pictures are asked for and the declared cover leads to one that is there: it is
\* the first picture, and called the cover. Otherwise a picture is called so only
\* if an item is named like one. Pages are not looked into when texts are asked
\* for too.
CoverIsDeclared ==
  phase = "done" /\ "images" \in mode =>
    LET cover == IF Declared \in Pages
                 THEN IF Declared \in body /\ mode = {"images"} THEN shows[Declared] ELSE NotHere
                 ELSE Declared
    IN /\ cover \in body => coverExists /\ images[1] = cover
       /\ coverExists /\ images[1] # cover =>
            \E i \in Elements("item") :
              /\ doc[i].id \in CoverIds
              /\ images[1] \in {doc[i].href} \cup {shows[page] : page \in {doc[i].href} \cap Pages}

\* Whatever the mode, every file that is not empty comes back at most once, as a
\* picture or as a text, and all of those that were asked for do.
NothingTwice ==
  phase = "done" =>
    /\ IsInjective(images) /\ Range(images) \cap texts = {}
    /\ "images" \in mode => Range(images) = body \cap Pictures
    /\ mode = {"images", "texts"} => Range(images) \cup texts = body
=============================================================================
