---------------------------- MODULE SettingsFiles ----------------------------
(***************************************************************************)
(* settings/Settings.cpp in one thread: Copy(), with which Save() and Load() *)
(* walk through the groups of two Settings objects at once, and the          *)
(* decorator, which answers for some keys itself and passes the rest on.     *)
(* (The mutex and the observers are in Settings.)                            *)
(*                                                                         *)
(* A store maps what is stored, a group path and a key, to its value.        *)
(***************************************************************************)
EXTENDS Naturals, Sequences, SequencesExt, Functions

CONSTANTS Keys, Groups, Values,
          Replaced,     \* the keys the decorator is made with
          MaxDepth,     \* bound: groups the client opens inside each other
          MaxCalls      \* bound: values set or removed, and copies made

VARIABLES base,         \* m_settings of the Settings object
          path,         \* its m_group
          replacement,  \* m_replacement of the decorator
          file,         \* the settings of the saved file
          filePath,     \* m_group of the Settings object on the file
          frames,       \* Copy(): keys and groups that each call has left
          copying,      \* "", "save" or "load"
          source, target, home,  \* history: both stores and the group when Copy() began
          calls

vars == <<base, path, replacement, file, filePath, frames, copying, source, target, home, calls>>

Idle == copying = ""

\* QSettings::childKeys() and childGroups(): a group is there if a key is in it.
GetKeys(store, at)   == {k \in Keys : <<at, k>> \in DOMAIN store}
GetGroups(store, at) == {g \in Groups : \E e \in DOMAIN store : IsPrefix(Append(at, g), e[1])}

Stored(store, at, key, value) ==
  [e \in DOMAIN store \cup {<<at, key>>} |-> IF e = <<at, key>> THEN value ELSE store[e]]

Without(store, at, key) == Restrict(store, DOMAIN store \ {<<at, key>>})

-----------------------------------------------------------------------------
(* The client: the Settings object, and the decorator of it                  *)

BeginGroup(g) ==
  /\ Idle /\ Len(path) < MaxDepth
  /\ path' = Append(path, g)
  /\ UNCHANGED <<base, replacement, file, filePath, frames, copying, source, target, home, calls>>

EndGroup ==
  /\ Idle /\ path # <<>>
  /\ path' = Front(path)
  /\ UNCHANGED <<base, replacement, file, filePath, frames, copying, source, target, home, calls>>

\* Through the decorator a key that it replaces is its own, in every group: its
\* BeginGroup() is not passed on.
Set(key, value, decorated) ==
  /\ Idle /\ calls < MaxCalls /\ calls' = calls + 1
  /\ IF decorated /\ key \in DOMAIN replacement
       THEN replacement' = [replacement EXCEPT ![key] = value] /\ UNCHANGED base
       ELSE base' = Stored(base, path, key, value) /\ UNCHANGED replacement
  /\ UNCHANGED <<path, file, filePath, frames, copying, source, target, home>>

\* The decorator removes the key of both, and does not replace it any more.
Removing(key, decorated) ==
  /\ Idle /\ calls < MaxCalls /\ calls' = calls + 1
  /\ base' = Without(base, path, key)
  /\ replacement' = IF decorated THEN Restrict(replacement, DOMAIN replacement \ {key}) ELSE replacement
  /\ UNCHANGED <<path, file, filePath, frames, copying, source, target, home>>

-----------------------------------------------------------------------------
(* Copy()                                                                    *)

Frame(store, at) == [keys |-> GetKeys(store, at), groups |-> GetGroups(store, at)]

\* QFile::remove(), and Settings objects for both.
Save ==
  /\ Idle /\ calls < MaxCalls /\ calls' = calls + 1
  /\ copying' = "save" /\ home' = path
  /\ file' = <<>> /\ filePath' = <<>>
  /\ source' = base /\ target' = <<>>
  /\ frames' = <<Frame(base, path)>>
  /\ UNCHANGED <<base, path, replacement>>

Load ==
  /\ Idle /\ DOMAIN file # {} /\ calls < MaxCalls /\ calls' = calls + 1
  /\ copying' = "load" /\ home' = path
  /\ source' = file /\ target' = base
  /\ frames' = <<Frame(file, <<>>)>>
  /\ UNCHANGED <<base, path, replacement, file, filePath>>

CopyKey(key) ==
  /\ ~Idle /\ key \in Last(frames).keys
  /\ IF copying = "save"
       THEN file' = Stored(file, filePath, key, base[<<path, key>>]) /\ UNCHANGED base
       ELSE base' = Stored(base, path, key, file[<<filePath, key>>]) /\ UNCHANGED file
  /\ frames' = [frames EXCEPT ![Len(frames)].keys = @ \ {key}]
  /\ UNCHANGED <<path, replacement, filePath, copying, source, target, home, calls>>

\* dstGroup and srcGroup, and the recursive call.
EnterGroup(g) ==
  LET loop == Last(frames) IN
  /\ ~Idle /\ loop.keys = {} /\ g \in loop.groups
  /\ path' = Append(path, g) /\ filePath' = Append(filePath, g)
  /\ frames' = Append([frames EXCEPT ![Len(frames)].groups = @ \ {g}],
                      IF copying = "save" THEN Frame(base, path') ELSE Frame(file, filePath'))
  /\ UNCHANGED <<base, replacement, file, copying, source, target, home, calls>>

\* Mutant: srcGroup is not closed, or dstGroup, whichever is the file's.
StayInside(at) == at

\* ~SettingsGroup()
Outside(at) == Front(at)

LeaveGroup ==
  /\ ~Idle /\ Len(frames) > 1 /\ Last(frames) = [keys |-> {}, groups |-> {}]
  /\ path' = Front(path) /\ filePath' = Outside(filePath)
  /\ frames' = Front(frames)
  /\ UNCHANGED <<base, replacement, file, copying, source, target, home, calls>>

Copied ==
  /\ ~Idle /\ frames = <<[keys |-> {}, groups |-> {}]>>
  /\ copying' = "" /\ frames' = <<>>
  /\ source' = <<>> /\ target' = <<>> /\ home' = <<>>
  /\ UNCHANGED <<base, path, replacement, file, filePath, calls>>

Init ==
  /\ base = <<>> /\ path = <<>> /\ file = <<>> /\ filePath = <<>>
  /\ replacement \in [Replaced -> Values]
  /\ frames = <<>> /\ copying = "" /\ source = <<>> /\ target = <<>> /\ home = <<>> /\ calls = 0

Next ==
  \/ \E g \in Groups : BeginGroup(g) \/ EnterGroup(g)
  \/ \E key \in Keys, decorated \in BOOLEAN :
       \/ \E value \in Values : Set(key, value, decorated)
       \/ Removing(key, decorated)
  \/ \E key \in Keys : CopyKey(key)
  \/ EndGroup \/ Save \/ Load \/ LeaveGroup \/ Copied

-----------------------------------------------------------------------------
(* Properties                                                                *)

TypeOK ==
  /\ \A store \in {base, file, source, target} : Range(store) \subseteq Values
  /\ copying \in {"", "save", "load"} /\ (copying = "" <=> frames = <<>>)
  /\ DOMAIN replacement \subseteq Replaced /\ calls \in 0 .. MaxCalls

Moved(store, from, to) ==
  {<<to \o SubSeq(e[1], Len(from) + 1, Len(e[1])), e[2], store[e]>> :
     e \in {d \in DOMAIN store : IsPrefix(from, d[1])}}

Content(store) == {<<e[1], e[2], store[e]>> : e \in DOMAIN store}

\* When Save() is over, the file has what was stored in the current group and in
\* the groups inside it, and nothing that the decorator keeps to itself; when
\* Load() is over, all values of the file are in the current group and the other
\* values are as they were.  Both leave both objects in the group they were in.
CopiedWhole ==
  copying # "" /\ frames = <<[keys |-> {}, groups |-> {}]>> =>
    /\ path = home /\ filePath = <<>>
    /\ copying = "save" => Content(file) = Moved(source, home, <<>>)
    /\ copying = "load" =>
         LET loaded == Moved(source, <<>>, home) IN
         Content(base) = loaded \cup {c \in Content(target) : ~\E l \in loaded : l[1] = c[1] /\ l[2] = c[2]}
=============================================================================
