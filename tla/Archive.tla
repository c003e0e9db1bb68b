------------------------------- MODULE Archive -------------------------------
(***************************************************************************)
(* zip: an archive file and the Zip objects that list, read, append and     *)
(* remove its entries, one object after the other.  7-Zip is external: it   *)
(* keeps the entries in order, appends or overwrites what is added, forgets *)
(* what is deleted, and shows an editor the archive it has just written.    *)
(*                                                                         *)
(* A name is the sequence of its parts between slashes; native separators   *)
(* are normalised before a name enters the file list.  An operation that    *)
(* the kind of object does not support throws before it changes anything:   *)
(* it is a stuttering step.                                                *)
(***************************************************************************)
EXTENDS Naturals, Sequences, FiniteSets, SequencesExt

CONSTANTS FileNames,   \* names of files
          DirNames,    \* names of directories
          MaxEntries,  \* bound: entries of an archive
          MaxObjects   \* bound: Zip objects opened

\* A name has at least one part.
ASSUME ArchiveAssumption ==
  FileNames \cup DirNames \subseteq Seq(STRING) \ {<<>>} /\ MaxObjects \in Nat

VARIABLES disk,    \* the entries of the file
          exists,  \* whether there is a file
          kind,    \* the Zip object: see Kinds
          listed,  \* whether the library shows the object an input archive
          files,   \* m_files.files
          used,    \* whether the object has had its Write()
          opened,  \* the number of objects opened
          asked    \* history: the names of the last step, if it was a RemoveFiles

vars == <<disk, exists, kind, listed, files, used, opened, asked>>

Kinds    == {"none", "reader", "writer", "editor"}
Names    == FileNames \cup DirNames
Requests == Names \cup {<<Head(n), "">> : n \in Names}   \* "name" or "directory/"

\* Bodies tell apart entries of the same name: each entry has one of its own.
Entry(name, body) == [name |-> name, dir |-> name \in DirNames, body |-> body]
LastBody(entries) == IF entries = <<>> THEN 0 ELSE Max({e.body : e \in Range(entries)})

-----------------------------------------------------------------------------
(* The file list                                                             *)

\* Only the first entry of a name is listed: a duplicate is logged and skipped.
IsFirst(entries, i) == \A j \in 1 .. i - 1 : entries[j].name # entries[i].name

\* The place that has k - 1 of the given ones before it.
Nth(places, k) == CHOOSE i \in places : Cardinality({j \in places : j < i}) = k - 1

\* What stands at the given places, in its order.
Sublist(entries, places) == [k \in 1 .. Cardinality(places) |-> entries[Nth(places, k)]]

CreateFileList(entries) ==
  Sublist([i \in DOMAIN entries |-> [index |-> i, name |-> entries[i].name]],
          {i \in DOMAIN entries : IsFirst(entries, i)})

\* m_files.index: the position of a name, not the index of the item.
GetFileIndex(name) == CHOOSE k \in DOMAIN files : files[k].name = name

\* FileStorage::GetFile(), which throws for a name that is not listed.
GetFile(name) == files[GetFileIndex(name)]

\* Mutant: the position in the list is taken for the index in the archive.
PositionOf(name) == GetFileIndex(name)

ItemIndex(name) == GetFile(name).index

\* extractTo(): a stream on a copy of what the entry at an index holds.
StreamOf(index) == disk[index].body

\* IZip::Read(), IFile::Read(): by the index of the item.
Read(name) == StreamOf(ItemIndex(name))

-----------------------------------------------------------------------------
(* Opening and closing                                                       *)

CreateReader ==
  /\ kind = "none" /\ opened < MaxObjects
  /\ exists
  /\ kind' = "reader" /\ listed' = TRUE
  /\ files' = CreateFileList(disk)
  /\ opened' = opened + 1
  /\ UNCHANGED <<disk, exists, used, asked>>

\* WriterFile: a file that is not to be appended to is deleted first, one that
\* is there then is opened in an editor.
CreateWriter(appendMode) ==
  /\ kind = "none" /\ opened < MaxObjects
  /\ exists' = (exists /\ appendMode)
  /\ disk' = IF exists' THEN disk ELSE <<>>
  /\ files' = CreateFileList(disk')
  /\ IF exists' THEN kind' = "editor" /\ listed' = TRUE
                ELSE kind' = "writer" /\ listed' \in BOOLEAN
  /\ opened' = opened + 1
  /\ UNCHANGED <<used, asked>>

\* WriterStream on a device that has just been opened for writing: whatever it
\* held before, the library starts from an empty archive.
CreateStreamWriter ==
  /\ kind = "none" /\ opened < MaxObjects
  /\ exists' = FALSE /\ disk' = <<>> /\ files' = <<>>
  /\ kind' = "writer" /\ listed' \in BOOLEAN
  /\ opened' = opened + 1
  /\ UNCHANGED <<used, asked>>

Close ==
  /\ kind # "none"
  /\ kind' = "none" /\ listed' = FALSE /\ files' = <<>>
  /\ used' = FALSE /\ asked' = {}
  /\ UNCHANGED <<disk, exists, opened>>

-----------------------------------------------------------------------------
(* Changing the archive                                                      *)

\* Mutant: the file list is built once, in the constructor.
KeepFileList(entries) == files

UpdateFileList(entries) == IF listed THEN CreateFileList(entries) ELSE files

\* AddFiles() in the order of the provider, compressTo(), UpdateFileList().
\* The library appends or overwrites entries of the same name, as it is set up.
\* One Write() per object: what a second one would do with the items that the
\* library has already been given is up to the library.
Write(names) ==
  /\ kind \in {"writer", "editor"} /\ ~used
  /\ \E kept \in {disk, Sublist(disk, {i \in DOMAIN disk : disk[i].name \notin Range(names)})} :
       /\ Len(kept) + Len(names) <= MaxEntries
       /\ disk' = kept \o [i \in DOMAIN names |-> Entry(names[i], LastBody(disk) + i)]
  /\ exists' = TRUE
  /\ files' = UpdateFileList(disk')
  /\ used' = TRUE /\ asked' = {}
  /\ UNCHANGED <<kind, listed, opened>>

\* What a name of the list is found by: itself at the top, else its directory.
Key(name) == IF Len(name) < 2 THEN name ELSE <<Head(name), "">>

\* deleteItem() with DeletePolicy::RecurseDirs takes a directory's content along.
Deleted(i) ==
  {i} \cup {j \in DOMAIN disk : disk[i].dir /\ IsStrictPrefix(disk[i].name, disk[j].name)}

\* Remove(): an unknown name is ignored; applyChanges(), UpdateFileList().
RemoveFiles(names) ==
  LET found == {f \in Range(files) : Key(f.name) \in names}
      gone  == UNION {Deleted(ItemIndex(f.name)) : f \in found}
  IN /\ kind = "editor"
     /\ disk' = Sublist(disk, DOMAIN disk \ gone)
     /\ files' = UpdateFileList(disk')
     /\ asked' = names
     /\ UNCHANGED <<exists, kind, listed, used, opened>>

-----------------------------------------------------------------------------
\* Any archive, made by any program: with directories and with duplicates.
Init ==
  /\ exists \in BOOLEAN
  /\ \E names \in BoundedSeq(Names, IF exists THEN MaxEntries - 1 ELSE 0) :
       disk = [i \in DOMAIN names |-> Entry(names[i], i)]
  /\ kind = "none" /\ listed = FALSE /\ files = <<>> /\ used = FALSE
  /\ opened = 0 /\ asked = {}

Terminated == kind = "none" /\ opened = MaxObjects /\ UNCHANGED vars

Next ==
  \/ CreateReader
  \/ \E appendMode \in BOOLEAN : CreateWriter(appendMode)
  \/ CreateStreamWriter
  \/ Close
  \/ \E names \in BoundedSeq(FileNames, 2) : Write(names)
  \/ \E names \in (SUBSET Requests) \ {{}} : RemoveFiles(names)
  \/ Terminated

Spec == Init /\ [][Next]_vars

-----------------------------------------------------------------------------
(* Properties                                                                *)

\* Every variable has its type, and listed items are items of the archive.
TypeOK ==
  /\ \A e \in Range(disk) : e \in [name : Names, dir : BOOLEAN, body : Nat]
  /\ exists \in BOOLEAN /\ kind \in Kinds /\ listed \in BOOLEAN /\ used \in BOOLEAN
  /\ opened \in 0 .. MaxObjects /\ asked \subseteq Requests
  /\ files \in Seq([index : DOMAIN disk, name : Names])

\* The list of an object that reads or edits names each name of the archive
\* once, in the order of the archive, and reading a name gives the content of
\* its first entry: after appending, overwriting and removing too, and although
\* positions in the list and indices in the archive differ after a duplicate.
ListIsTheArchive ==
  kind \in {"reader", "editor"} =>
    /\ {f.name : f \in Range(files)} = {e.name : e \in Range(disk)}
    /\ \A k, l \in DOMAIN files : k < l => files[k].index < files[l].index
                                           /\ files[k].name # files[l].name
    /\ \A f \in Range(files) :
         Read(f.name) = Min({e.body : e \in {d \in Range(disk) : d.name = f.name}})

\* Remove() deletes nothing but entries it was asked for: at the top by name, in
\* a directory by the directory; an entry it was asked for stays only if an
\* earlier entry of the same name was deleted.
RemoveIsExact ==
  asked' # {} /\ disk' # disk =>
    LET gone == Range(disk) \ Range(disk') IN
    \A e \in Range(disk) :
      /\ e \in gone => \/ Key(e.name) \in asked'
                       \/ <<Head(e.name)>> \in asked' \cap DirNames
      /\ Key(e.name) \in asked' /\ e \notin gone =>
           \E d \in gone : d.name = e.name /\ d.body < e.body
=============================================================================
