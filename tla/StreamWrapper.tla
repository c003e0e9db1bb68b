----------------------------- MODULE StreamWrapper -----------------------------
(***************************************************************************)
(* fnd/QIODeviceStreamWrapper.cpp: a standard stream on a QIODevice, used by *)
(* a client that reads, writes, seeks and reads single characters.  Blocks   *)
(* and seeks go straight to the device; characters come from a buffer, about *)
(* which the others know nothing.  The device is external, a QBuffer that is *)
(* open for reading and writing: it grows where it is written at its end,    *)
(* and where it is seeked to behind it.                                      *)
(*                                                                         *)
(* Next to it runs what the client expects: one file with one position.      *)
(* uflow() takes the character from the buffer, not what underflow() returns.*)
(***************************************************************************)
EXTENDS Integers, Sequences, SequencesExt

CONSTANTS Size,        \* bound: bytes the device grows to
          BufferSize,  \* BUFFER_SIZE
          MaxBlock,    \* bound: bytes of one block
          MaxWrites    \* bound: blocks written

VARIABLES content,    \* of the device: each byte is the number of its Write
          pos,        \* m_dev.pos()
          unread,     \* the bytes between gptr() and egptr()
          file, at,   \* history: what the client has written, and where it is
          got,        \* history: the bytes of the last call, and those expected
          careless,   \* history: the client mixed, or counted from the end
          writes

vars == <<content, pos, unread, file, at, got, careless, writes>>

\* Mutant: relative seeks count from the beginning.
FromBeginning(here, off) == off

FromHere(here, off) == here + off

Block(bytes, from, n) == SubSeq(bytes, from + 1, Min({from + n, Len(bytes)}))

\* QIODevice::write() in the middle and at the end.
Overwritten(bytes, from, new) ==
  [i \in 1 .. Max({Len(bytes), from + Len(new)}) |->
     IF i \in from + 1 .. from + Len(new) THEN new[i - from] ELSE bytes[i]]

\* QBuffer::seek() behind the end fills what is missing with zeros.
Grown(bytes, to) ==
  [i \in 1 .. Max({Len(bytes), to}) |-> IF i <= Len(bytes) THEN bytes[i] ELSE 0]

\* Block operations and seeks do not see the characters that are buffered.
Mixing == careless' = (careless \/ unread # <<>>)

-----------------------------------------------------------------------------

\* istream::read(): xsgetn()
Read(n) ==
  /\ pos' = pos + Len(Block(content, pos, n))
  /\ at' = at + Len(Block(file, at, n))
  /\ got' = <<Block(content, pos, n), Block(file, at, n)>>
  /\ Mixing
  /\ UNCHANGED <<content, unread, file, writes>>

\* ostream::write(): xsputn()
Write(n) ==
  LET new == [i \in 1 .. n |-> writes + 1] IN
  /\ writes < MaxWrites /\ writes' = writes + 1
  /\ pos + n <= Size /\ at + n <= Size
  /\ content' = Overwritten(content, pos, new) /\ pos' = pos + n
  /\ file' = Overwritten(file, at, new) /\ at' = at + n
  /\ got' = <<<<>>, <<>>>>
  /\ Mixing
  /\ UNCHANGED unread

\* QIODevice::seek(), through seekpos(): before the beginning it fails and nothing
\* moves.
Seek(to, expected) ==
  /\ to <= Size /\ expected <= Size
  /\ content' = Grown(content, to) /\ pos' = IF to >= 0 THEN to ELSE pos
  /\ file' = Grown(file, expected) /\ at' = IF expected >= 0 THEN expected ELSE at
  /\ got' = <<<<>>, <<>>>>
  /\ UNCHANGED <<unread, writes>>

SeekBegin(off) == Seek(off, off) /\ Mixing

\* Also tell(), with an offset of 0.
SeekCurrent(off) == Seek(FromHere(pos, off), at + off) /\ Mixing

\* seekoff() subtracts what it should add.
SeekEnd(off) ==
  /\ Seek(Len(content) - off, Len(file) + off)
  /\ careless' = (careless \/ unread # <<>> \/ off # 0)

\* istream::get(): with an empty buffer underflow(), which reads a block.
Get ==
  LET buffer == IF unread = <<>> THEN Block(content, pos, BufferSize) ELSE unread IN
  /\ pos' = IF unread = <<>> THEN pos + Len(buffer) ELSE pos
  /\ unread' = IF buffer = <<>> THEN <<>> ELSE Tail(buffer)
  /\ at' = at + Len(Block(file, at, 1))
  /\ got' = <<Block(buffer, 0, 1), Block(file, at, 1)>>
  /\ UNCHANGED <<content, file, careless, writes>>

Init ==
  /\ content \in {[i \in 1 .. n |-> -i] : n \in 0 .. Size} /\ file = content
  /\ pos = 0 /\ at = 0 /\ unread = <<>> /\ got = <<<<>>, <<>>>> /\ careless = FALSE /\ writes = 0

Next ==
  \/ \E n \in 1 .. MaxBlock : Read(n) \/ Write(n)
  \/ \E off \in 0 .. Size : SeekBegin(off)
  \/ \E off \in -MaxBlock .. MaxBlock : SeekCurrent(off)
  \/ \E off \in -1 .. 0 : SeekEnd(off)
  \/ Get

-----------------------------------------------------------------------------
(* Properties                                                                *)

\* The device stands where the buffer ends.
TypeOK ==
  /\ content \in Seq(Int) /\ Len(content) <= Size /\ pos \in 0 .. Len(content)
  /\ unread \in Seq(Int) /\ Len(unread) < BufferSize
  /\ at \in 0 .. Len(file) /\ careless \in BOOLEAN /\ writes \in 0 .. MaxWrites

\* A client reads what is where it is, and writes where it is, over any seeks and
\* after any number of characters, unless it used blocks or seeks while it had
\* read only a part of the characters in the buffer, or counted from the end.
ReadsInPlace ==
  ~careless =>
    /\ got[1] = got[2]
    /\ content = file
    /\ at = pos - Len(unread)
=============================================================================
