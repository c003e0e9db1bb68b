---------------------------- MODULE Helpers_proofs ----------------------------
(***************************************************************************)
(* What holds of the helpers, each for every value of its constants and for  *)
(* the program in which they are side by side with its other components.     *)
(***************************************************************************)
EXTENDS MCProgram, FiniteSetTheorems, SequenceTheorems, TLAPS

-----------------------------------------------------------------------------
(* Sequences                                                                 *)

\* Bounded sequences are sequences.
LEMMA SeqOfIsSeq ==
  ASSUME NEW S, NEW n \in Nat, NEW s
  PROVE  s \in SeqOf(S, n) <=> s \in Seq(S) /\ Len(s) <= n
<1>1. ASSUME s \in SeqOf(S, n) PROVE s \in Seq(S) /\ Len(s) <= n
  <2>1. PICK k \in 0 .. n : s \in [1 .. k -> S]
    BY <1>1 DEF SeqOf
  <2>2. s \in Seq(S) /\ Len(s) = k
    BY <2>1, SeqDef, LenProperties
  <2>3. QED
    BY <2>1, <2>2
<1>2. ASSUME s \in Seq(S), Len(s) <= n PROVE s \in SeqOf(S, n)
  <2>1. Len(s) \in 0 .. n /\ s \in [1 .. Len(s) -> S]
    BY <1>2, LenProperties
  <2>2. QED
    BY <2>1 DEF SeqOf
<1>3. QED
  BY <1>1, <1>2

\* All of a sequence but its last element, and a sequence with one element more.
LEMMA FrontProperties ==
  ASSUME NEW S, NEW s \in Seq(S), s # <<>>
  PROVE  /\ Len(s) \in Nat \ {0} /\ Last(s) = s[Len(s)] /\ Last(s) \in S
         /\ Front(s) \in Seq(S) /\ Len(Front(s)) = Len(s) - 1
         /\ \A i \in 1 .. Len(s) - 1 : Front(s)[i] = s[i]
<1>1. Len(s) \in Nat /\ Len(s) # 0 /\ DOMAIN s = 1 .. Len(s)
  BY LenProperties, EmptySeq
<1>2. PICK n \in Nat : Len(s) = n + 1
  <2>1. Len(s) - 1 \in Nat /\ Len(s) = (Len(s) - 1) + 1
    BY <1>1
  <2>2. QED
    BY <2>1
<1>3. Front(s) = SubSeq(s, 1, n) /\ Last(s) = s[n + 1]
  BY <1>1, <1>2 DEF Front, Last
<1>4. \A i \in 1 .. n + 1 : s[i] \in S
  BY <1>1, <1>2, ElementOfSeq
<1>5. /\ SubSeq(s, 1, n) \in Seq(S)
      /\ Len(SubSeq(s, 1, n)) = IF 1 <= n THEN n - 1 + 1 ELSE 0
      /\ \A i \in 1 .. n - 1 + 1 : SubSeq(s, 1, n)[i] = s[1 + i - 1]
  BY <1>2, <1>4, SubSeqProperties
<1>6. Len(SubSeq(s, 1, n)) = n
  BY <1>2, <1>5
<1>7. \A i \in 1 .. n : SubSeq(s, 1, n)[i] = s[i]
  BY <1>2, <1>5
<1>8. QED
  BY <1>1, <1>2, <1>3, <1>4, <1>5, <1>6, <1>7

LEMMA AppendLonger ==
  ASSUME NEW S, NEW s \in Seq(S), NEW e \in S
  PROVE  /\ Len(s) \in Nat /\ Append(s, e) \in Seq(S) /\ Len(Append(s, e)) = Len(s) + 1
         /\ Append(s, e) # <<>>
  BY AppendProperties, LenProperties, EmptySeq

-----------------------------------------------------------------------------
(* Stream adapter                                                            *)

\* The buffer holds the bytes before the position of the device.
Buffered ==
  /\ content \in Seq(Int) /\ pos \in 0 .. Len(content)
  /\ unread \in Seq(Int) /\ at \in Nat
  /\ \A i \in 1 .. Len(unread) : unread[i] = content[at + i]

StreamInv == careless \in BOOLEAN /\ Stream!ReadsInPlace /\ (~careless => Buffered)

LEMMA SmallerOfTwo ==
  ASSUME NEW i \in Int, NEW j \in Int
  PROVE  /\ Min({i, j}) = IF i <= j THEN i ELSE j
         /\ Max({i, j}) = IF i >= j THEN i ELSE j
<1>1. Stream!Min({i, j}) \in {i, j} /\ \A k \in {i, j} : Stream!Min({i, j}) <= k
  BY DEF Stream!Min
<1>2. Stream!Max({i, j}) \in {i, j} /\ \A k \in {i, j} : Stream!Max({i, j}) >= k
  BY DEF Stream!Max
<1>3. QED
  BY <1>1, <1>2 DEF Min, Max, Stream!Min, Stream!Max

LEMMA BlockProperties ==
  ASSUME NEW bytes \in Seq(Int), NEW from \in 0 .. Len(bytes), NEW n \in Nat
  PROVE  /\ Stream!Block(bytes, from, n) \in Seq(Int)
         /\ Len(Stream!Block(bytes, from, n)) = IF from + n <= Len(bytes) THEN n ELSE Len(bytes) - from
         /\ \A i \in 1 .. Len(Stream!Block(bytes, from, n)) :
              Stream!Block(bytes, from, n)[i] = bytes[from + i]
<1> DEFINE end == IF from + n <= Len(bytes) THEN from + n ELSE Len(bytes)
<1>1. Len(bytes) \in Nat /\ from \in Nat
  BY LenProperties
<1>2. Stream!Min({from + n, Len(bytes)}) = end
  BY <1>1, SmallerOfTwo DEF Min, Stream!Min
<1>3. Stream!Block(bytes, from, n) = SubSeq(bytes, from + 1, end)
  BY <1>2 DEF Stream!Block
<1>4. end \in Int /\ \A i \in from + 1 .. end : bytes[i] \in Int
  BY <1>1, ElementOfSeq
<1> HIDE DEF end
<1>5. /\ SubSeq(bytes, from + 1, end) \in Seq(Int)
      /\ Len(SubSeq(bytes, from + 1, end)) = IF from + 1 <= end THEN end - (from + 1) + 1 ELSE 0
      /\ \A i \in 1 .. end - (from + 1) + 1 : SubSeq(bytes, from + 1, end)[i] = bytes[from + 1 + i - 1]
  BY <1>1, <1>4, SubSeqProperties
<1>6. Len(SubSeq(bytes, from + 1, end)) = end - from /\ end - (from + 1) + 1 = end - from
  BY <1>1, <1>5 DEF end
<1>7. \A i \in 1 .. end - from : SubSeq(bytes, from + 1, end)[i] = bytes[from + i]
  BY <1>1, <1>4, <1>5, <1>6
<1>8. QED
  BY <1>1, <1>3, <1>5, <1>6, <1>7 DEF end

LEMMA FirstByte ==
  ASSUME NEW bytes \in Seq(Int), NEW from \in 0 .. Len(bytes)
  PROVE  /\ Stream!Block(bytes, from, 1) \in Seq(Int)
         /\ Len(Stream!Block(bytes, from, 1)) = IF from < Len(bytes) THEN 1 ELSE 0
         /\ from < Len(bytes) => Stream!Block(bytes, from, 1)[1] = bytes[from + 1]
<1>1. PICK n \in Nat : n = 1
  OBVIOUS
<1>2. /\ Stream!Block(bytes, from, n) \in Seq(Int)
      /\ Len(Stream!Block(bytes, from, n)) = IF from + n <= Len(bytes) THEN n ELSE Len(bytes) - from
      /\ \A i \in 1 .. Len(Stream!Block(bytes, from, n)) :
           Stream!Block(bytes, from, n)[i] = bytes[from + i]
  BY BlockProperties
<1>3. Len(bytes) \in Nat
  BY LenProperties
<1>4. QED
  BY <1>1, <1>2, <1>3

LEMMA OverwrittenProperties ==
  ASSUME NEW bytes \in Seq(Int), NEW from \in 0 .. Len(bytes), NEW new \in Seq(Int)
  PROVE  /\ Stream!Overwritten(bytes, from, new) \in Seq(Int)
         /\ Len(Stream!Overwritten(bytes, from, new)) >= from + Len(new)
         /\ Len(Stream!Overwritten(bytes, from, new)) \in {Len(bytes), from + Len(new)}
<1> DEFINE size1 == IF Len(bytes) >= from + Len(new) THEN Len(bytes) ELSE from + Len(new)
<1>1. Len(bytes) \in Nat /\ from \in Nat /\ Len(new) \in Nat
  BY LenProperties
<1>2. Stream!Max({Len(bytes), from + Len(new)}) = size1 /\ size1 \in Nat /\ size1 >= from + Len(new)
  BY <1>1, SmallerOfTwo DEF Max, Stream!Max
<1>3. ASSUME NEW i \in 1 .. size1
      PROVE  (IF i \in from + 1 .. from + Len(new) THEN new[i - from] ELSE bytes[i]) \in Int
  <2>1. CASE i \in from + 1 .. from + Len(new)
    BY <1>1, <2>1, ElementOfSeq
  <2>2. CASE i \notin from + 1 .. from + Len(new)
    BY <1>1, <1>2, <2>2, ElementOfSeq
  <2>3. QED
    BY <2>1, <2>2
<1> HIDE DEF size1
<1>4. Stream!Overwritten(bytes, from, new) \in [1 .. size1 -> Int]
  BY <1>2, <1>3 DEF Stream!Overwritten
<1>5. Stream!Overwritten(bytes, from, new) \in Seq(Int)
      /\ Len(Stream!Overwritten(bytes, from, new)) = size1
  BY <1>2, <1>4, SeqDef, LenProperties
<1>6. size1 \in {Len(bytes), from + Len(new)}
  BY DEF size1
<1>7. QED
  BY <1>2, <1>5, <1>6

\* A seek makes the device as long as it goes, if it was shorter.
LEMMA GrownProperties ==
  ASSUME NEW bytes \in Seq(Int), NEW to \in Int
  PROVE  /\ Stream!Grown(bytes, to) \in Seq(Int)
         /\ Len(Stream!Grown(bytes, to)) = IF Len(bytes) >= to THEN Len(bytes) ELSE to
<1> DEFINE size1 == IF Len(bytes) >= to THEN Len(bytes) ELSE to
<1>1. Len(bytes) \in Nat
  BY LenProperties
<1>2. Stream!Max({Len(bytes), to}) = size1 /\ size1 \in Nat
  BY <1>1, SmallerOfTwo DEF Max, Stream!Max
<1>3. \A i \in 1 .. size1 : (IF i <= Len(bytes) THEN bytes[i] ELSE 0) \in Int
  BY <1>1, <1>2, ElementOfSeq
<1> HIDE DEF size1
<1>4. Stream!Grown(bytes, to) \in [1 .. size1 -> Int]
  BY <1>2, <1>3 DEF Stream!Grown
<1>5. Stream!Grown(bytes, to) \in Seq(Int) /\ Len(Stream!Grown(bytes, to)) = size1
  BY <1>2, <1>4, SeqDef, LenProperties
<1>6. QED
  BY <1>5 DEF size1

LEMMA StreamInit == Stream!Init => StreamInv
<1> SUFFICES ASSUME Stream!Init PROVE StreamInv
  OBVIOUS
<1>1. PICK n \in 0 .. Size : content = [i \in 1 .. n |-> -i]
  BY DEF Stream!Init
<1>2. n \in Nat
  BY StreamAssumption
<1>3. content \in [1 .. n -> Int]
  BY <1>1, <1>2
<1>4. content \in Seq(Int) /\ Len(content) \in Nat
  BY <1>2, <1>3, SeqDef, LenProperties
<1>5. unread \in Seq(Int) /\ Len(unread) = 0
  BY EmptySeq DEF Stream!Init
<1>6. got[1] = got[2] /\ file = content /\ pos = 0 /\ at = 0 /\ careless = FALSE
  BY DEF Stream!Init
<1>7. Stream!ReadsInPlace
  BY <1>5, <1>6 DEF Stream!ReadsInPlace
<1>8. Buffered
  BY <1>4, <1>5, <1>6 DEF Buffered
<1>9. QED
  BY <1>6, <1>7, <1>8 DEF StreamInv

\* Where the client is not careless and nothing is buffered, device and client
\* agree, and an operation on both keeps them agreed.
LEMMA InStep ==
  ASSUME StreamInv, Stream!Mixing, ~careless'
  PROVE  /\ ~careless /\ unread = <<>> /\ file = content /\ at = pos
         /\ content \in Seq(Int) /\ pos \in 0 .. Len(content)
         /\ Len(content) \in Nat
<1>1. ~careless /\ unread = <<>>
  BY DEF StreamInv, Stream!Mixing
<1>2. Len(unread) = 0
  BY <1>1, EmptySeq
<1>3. QED
  BY <1>1, <1>2, LenProperties DEF StreamInv, Stream!ReadsInPlace, Buffered

LEMMA StaysInStep ==
  ASSUME NEW k \in Nat, pos' = k, at' = k, unread' = <<>>, file' = content', got'[1] = got'[2],
         careless' \in BOOLEAN, content' \in Seq(Int), k <= Len(content')
  PROVE  StreamInv'
<1>1. unread' \in Seq(Int) /\ Len(unread') = 0
  BY EmptySeq
<1>2. Len(content') \in Nat
  BY LenProperties
<1>3. k - 0 = k /\ k \in 0 .. Len(content')
  BY <1>2
<1>4. at' = pos' - Len(unread') /\ at' \in Nat /\ pos' \in 0 .. Len(content')
  BY <1>1, <1>3, Zenon
<1>5. \A i \in 1 .. Len(unread') : FALSE
  BY <1>1
<1>6. Buffered'
  BY <1>1, <1>4, <1>5 DEF Buffered
<1>7. Stream!ReadsInPlace'
  BY <1>4 DEF Stream!ReadsInPlace
<1>8. QED
  BY <1>6, <1>7 DEF StreamInv

LEMMA CarelessStays ==
  ASSUME careless' \in BOOLEAN, careless' PROVE StreamInv'
BY DEF StreamInv, Stream!ReadsInPlace

LEMMA MixingTyped ==
  ASSUME StreamInv, Stream!Mixing PROVE careless' \in BOOLEAN
BY DEF StreamInv, Stream!Mixing

LEMMA ReadKeeps ==
  ASSUME StreamInv, NEW n \in 1 .. MaxBlock, Stream!Read(n) PROVE StreamInv'
<1>1. Stream!Mixing /\ careless' \in BOOLEAN
  BY MixingTyped DEF Stream!Read
<1>2. CASE ~careless'
  <2>1. /\ ~careless /\ unread = <<>> /\ file = content /\ at = pos
        /\ content \in Seq(Int) /\ pos \in 0 .. Len(content) /\ Len(content) \in Nat
    BY <1>1, <1>2, InStep
  <2>2. n \in Nat
    BY StreamAssumption
  <2>3. /\ Stream!Block(content, pos, n) \in Seq(Int)
        /\ Len(Stream!Block(content, pos, n)) = IF pos + n <= Len(content) THEN n ELSE Len(content) - pos
    BY <2>1, <2>2, BlockProperties
  <2>4. /\ content' = content /\ unread' = unread /\ file' = file
        /\ pos' = pos + Len(Stream!Block(content, pos, n))
        /\ at' = at + Len(Stream!Block(file, at, n))
        /\ got' = <<Stream!Block(content, pos, n), Stream!Block(file, at, n)>>
    BY DEF Stream!Read
  <2>5. PICK k : k = pos + Len(Stream!Block(content, pos, n))
    OBVIOUS
  <2>6. k \in Nat /\ k <= Len(content)
    BY <2>1, <2>2, <2>3, <2>5
  <2>7. pos' = k /\ at' = k /\ got'[1] = got'[2]
    BY <2>1, <2>4, <2>5
  <2>8. unread' = <<>> /\ file' = content' /\ content' \in Seq(Int) /\ k <= Len(content')
    BY <2>1, <2>4, <2>6
  <2>9. QED
    BY <1>1, <2>6, <2>7, <2>8, StaysInStep
<1>3. QED
  BY <1>1, <1>2, CarelessStays

LEMMA WriteBlockKeeps ==
  ASSUME StreamInv, NEW n \in 1 .. MaxBlock, Stream!Write(n) PROVE StreamInv'
<1>1. Stream!Mixing /\ careless' \in BOOLEAN
  BY MixingTyped DEF Stream!Write
<1>2. CASE ~careless'
  <2> DEFINE new == [i \in 1 .. n |-> writes + 1]
  <2>1. /\ ~careless /\ unread = <<>> /\ file = content /\ at = pos
        /\ content \in Seq(Int) /\ pos \in 0 .. Len(content) /\ Len(content) \in Nat
    BY <1>1, <1>2, InStep
  <2>2. n \in Nat
    BY StreamAssumption
  <2>3. new \in Seq(Int) /\ Len(new) = n
    <3>1. new \in [1 .. n -> Int]
      BY DEF Stream!Write
    <3>2. QED
      BY <2>2, <3>1, SeqDef, LenProperties
  <2>4. /\ Stream!Overwritten(content, pos, new) \in Seq(Int)
        /\ Len(Stream!Overwritten(content, pos, new)) >= pos + n
        /\ Len(Stream!Overwritten(content, pos, new)) \in Nat
    BY <2>1, <2>3, OverwrittenProperties, LenProperties
  <2>5. /\ content' = Stream!Overwritten(content, pos, new) /\ pos' = pos + n
        /\ file' = Stream!Overwritten(file, at, new) /\ at' = at + n
        /\ got' = <<<<>>, <<>>>> /\ unread' = unread
    BY DEF Stream!Write
  <2> HIDE DEF new
  <2>6. PICK k : k = pos + n
    OBVIOUS
  <2>7. k \in Nat /\ k <= Len(content')
    BY <2>1, <2>2, <2>4, <2>5, <2>6
  <2>8. pos' = k /\ at' = k /\ got'[1] = got'[2]
    BY <2>1, <2>5, <2>6
  <2>9. unread' = <<>> /\ file' = content' /\ content' \in Seq(Int)
    BY <2>1, <2>4, <2>5
  <2>10. QED
    BY <1>1, <2>7, <2>8, <2>9, StaysInStep
<1>3. QED
  BY <1>1, <1>2, CarelessStays

\* Wherever a seek that device and client agree on may lead.
LEMMA SeekKeeps ==
  ASSUME StreamInv, NEW to \in Int, NEW expected \in Int, Stream!Seek(to, expected),
         careless' \in BOOLEAN,
         ~careless' => /\ ~careless /\ unread = <<>> /\ file = content /\ at = pos
                       /\ content \in Seq(Int) /\ pos \in 0 .. Len(content)
                       /\ to = expected
  PROVE  StreamInv'
<1>1. CASE ~careless'
  <2>1. /\ unread' = unread /\ got' = <<<<>>, <<>>>>
        /\ content' = Stream!Grown(content, to) /\ pos' = IF to >= 0 THEN to ELSE pos
        /\ file' = Stream!Grown(file, expected) /\ at' = IF expected >= 0 THEN expected ELSE at
    BY DEF Stream!Seek
  <2>2. PICK k : k = IF to >= 0 THEN to ELSE pos
    OBVIOUS
  <2>3. content' \in Seq(Int) /\ Len(content') = IF Len(content) >= to THEN Len(content) ELSE to
    BY <1>1, <2>1, GrownProperties
  <2>4. pos' = k /\ at' = k /\ got'[1] = got'[2]
    BY <1>1, <2>1, <2>2
  <2>5. k \in Nat /\ k <= Len(content')
    BY <1>1, <2>2, <2>3, LenProperties
  <2>6. unread' = <<>> /\ file' = content'
    BY <1>1, <2>1
  <2>7. QED
    BY <2>3, <2>4, <2>5, <2>6, StaysInStep
<1>2. QED
  BY <1>1, CarelessStays

LEMMA GetKeeps ==
  ASSUME StreamInv, Stream!Get PROVE StreamInv'
<1>1. careless' = careless /\ careless \in BOOLEAN /\ content' = content /\ file' = file
  BY DEF Stream!Get, StreamInv
<1>2. CASE ~careless
  <2> DEFINE buffer == IF unread = <<>> THEN Stream!Block(content, pos, BufferSize) ELSE unread
             end == IF unread = <<>> THEN pos + Len(buffer) ELSE pos
  <2>1. /\ file = content /\ content \in Seq(Int) /\ unread \in Seq(Int) /\ pos \in 0 .. Len(content)
        /\ at \in Nat /\ at = pos - Len(unread) /\ Len(content) \in Nat /\ Len(unread) \in Nat
        /\ \A i \in 1 .. Len(unread) : unread[i] = content[at + i]
    BY <1>2, LenProperties DEF StreamInv, Stream!ReadsInPlace, Buffered
  <2>2. /\ buffer \in Seq(Int) /\ Len(buffer) \in Nat /\ end \in 0 .. Len(content) /\ at = end - Len(buffer)
        /\ \A i \in 1 .. Len(buffer) : buffer[i] = content[at + i]
        /\ buffer = <<>> => at = Len(content)
    <3>1. CASE unread = <<>>
      <4>1. Len(unread) = 0 /\ at = pos /\ buffer = Stream!Block(content, pos, BufferSize)
        BY <2>1, <3>1, EmptySeq
      <4>2. BufferSize \in Nat \ {0}
        BY StreamAssumption
      <4>3. /\ Stream!Block(content, pos, BufferSize) \in Seq(Int)
            /\ Len(Stream!Block(content, pos, BufferSize))
                 = IF pos + BufferSize <= Len(content) THEN BufferSize ELSE Len(content) - pos
            /\ \A i \in 1 .. Len(Stream!Block(content, pos, BufferSize)) :
                 Stream!Block(content, pos, BufferSize)[i] = content[pos + i]
        BY <2>1, <4>2, BlockProperties
      <4>4. end = pos + Len(buffer)
        BY <3>1
      <4> HIDE DEF buffer, end
      <4>5. /\ buffer \in Seq(Int) /\ (buffer = <<>> => Len(buffer) = 0)
            /\ Len(buffer) = IF pos + BufferSize <= Len(content) THEN BufferSize ELSE Len(content) - pos
            /\ \A i \in 1 .. Len(buffer) : buffer[i] = content[pos + i]
        BY <4>1, <4>3, EmptySeq
      <4>6. Len(buffer) \in Nat
        BY <4>5, LenProperties
      <4>7. end \in 0 .. Len(content) /\ (Len(buffer) = 0 => pos = Len(content))
        BY <2>1, <4>2, <4>4, <4>5, <4>6
      <4>8. at = end - Len(buffer)
        BY <2>1, <4>1, <4>4, <4>6
      <4>9. QED
        BY <4>1, <4>5, <4>6, <4>7, <4>8
    <3>2. CASE unread # <<>>
      BY <2>1, <3>2
    <3>3. QED
      BY <3>1, <3>2
  <2>3. /\ pos' = end
        /\ unread' = IF buffer = <<>> THEN <<>> ELSE Tail(buffer)
        /\ at' = at + Len(Stream!Block(file, at, 1))
        /\ got' = <<Stream!Block(buffer, 0, 1), Stream!Block(file, at, 1)>>
    BY DEF Stream!Get
  <2> HIDE DEF buffer, end
  <2>4. Len(buffer) = 0 <=> buffer = <<>>
    BY <2>2, EmptySeq
  <2>5. at \in 0 .. Len(content)
    BY <2>1, <2>2
  <2>6. /\ Stream!Block(content, at, 1) \in Seq(Int)
        /\ Len(Stream!Block(content, at, 1)) = IF at < Len(content) THEN 1 ELSE 0
        /\ at < Len(content) => Stream!Block(content, at, 1)[1] = content[at + 1]
    BY <2>1, <2>5, FirstByte
  <2>7. /\ Stream!Block(buffer, 0, 1) \in Seq(Int)
        /\ Len(Stream!Block(buffer, 0, 1)) = IF 0 < Len(buffer) THEN 1 ELSE 0
        /\ 0 < Len(buffer) => Stream!Block(buffer, 0, 1)[1] = buffer[0 + 1]
    <3>1. 0 \in 0 .. Len(buffer)
      BY <2>2
    <3>2. QED
      BY <2>2, <3>1, FirstByte
  <2>8. /\ 0 < Len(buffer) <=> at < Len(content)
        /\ 0 < Len(buffer) <=> buffer # <<>>
        /\ 0 < Len(buffer) => buffer[0 + 1] = content[at + 1]
    BY <2>1, <2>2, <2>4
  <2>9. /\ Len(Stream!Block(buffer, 0, 1)) = Len(Stream!Block(content, at, 1))
        /\ \A i \in 1 .. Len(Stream!Block(buffer, 0, 1)) :
             Stream!Block(buffer, 0, 1)[i] = Stream!Block(content, at, 1)[i]
    BY <2>6, <2>7, <2>8
  <2>10. Stream!Block(buffer, 0, 1) = Stream!Block(content, at, 1)
    BY <2>6, <2>7, <2>9, SeqEqual
  <2>11. got'[1] = got'[2]
    BY <2>1, <2>3, <2>10
  <2>12. /\ unread' \in Seq(Int) /\ at' \in Nat /\ at' = pos' - Len(unread')
         /\ \A i \in 1 .. Len(unread') : unread'[i] = content[at' + i]
    <3>1. CASE buffer = <<>>
      <4>1. Len(Stream!Block(content, at, 1)) = 0
        BY <2>6, <2>8, <3>1
      <4>2. at' = at
        BY <2>1, <2>3, <4>1
      <4>3. unread' = <<>>
        BY <2>3, <3>1
      <4>4. unread' \in Seq(Int) /\ Len(unread') = 0
        BY <4>3, EmptySeq
      <4>5. at = end /\ end \in Nat /\ end - 0 = end
        BY <2>1, <2>2, <2>4, <3>1
      <4>6. at' = end /\ pos' = end /\ Len(unread') = 0
        BY <2>3, <4>2, <4>4, <4>5
      <4>7. at' \in Nat /\ at' = pos' - Len(unread')
        BY <4>5, <4>6, Zenon
      <4>8. \A i \in 1 .. Len(unread') : FALSE
        BY <4>4
      <4>9. QED
        BY <4>4, <4>7, <4>8
    <3>2. CASE buffer # <<>>
      <4>1. /\ unread' = Tail(buffer) /\ Tail(buffer) \in Seq(Int) /\ Len(Tail(buffer)) = Len(buffer) - 1
            /\ \A i \in 1 .. Len(Tail(buffer)) : Tail(buffer)[i] = buffer[i + 1]
        BY <2>2, <2>3, <3>2, HeadTailProperties
      <4>2. Len(Stream!Block(content, at, 1)) = 1
        BY <2>6, <2>8, <3>2
      <4>3. at' = at + 1
        BY <2>1, <2>3, <4>2
      <4>4. Len(buffer) \in Nat \ {0} /\ Len(unread') = Len(buffer) - 1
        BY <2>2, <2>4, <3>2, <4>1
      <4>5. at' = pos' - Len(unread') /\ at' \in Nat
        <5>1. pos' = end
          BY <2>3
        <5>2. at + 1 = end - (Len(buffer) - 1) /\ at + 1 \in Nat
          <6>0. \A k \in Nat : 0 .. k \subseteq Int
            OBVIOUS
          <6>1. end \in Int /\ at \in Nat /\ at = end - Len(buffer)
            BY <2>1, <2>2, <6>0, Zenon
          <6>2. Len(buffer) \in Nat
            BY <2>2
          <6>3. PICK m \in Nat : m = Len(buffer)
            BY <6>2
          <6>4. at + 1 = end - (m - 1) /\ at + 1 \in Nat
            BY <6>1, <6>3
          <6>5. QED
            BY <6>3, <6>4
        <5>3. QED
          BY <4>3, <4>4, <5>1, <5>2, Zenon
      <4>6. ASSUME NEW i \in 1 .. Len(unread') PROVE unread'[i] = content[at' + i]
        <5>1. i \in Nat /\ i + 1 \in 1 .. Len(buffer) /\ unread'[i] = buffer[i + 1]
          BY <4>1, <4>4
        <5>2. buffer[i + 1] = content[at + (i + 1)]
          BY <2>2, <5>1
        <5>3. at + (i + 1) = at' + i
          BY <2>1, <4>3, <5>1
        <5>4. QED
          BY <5>1, <5>2, <5>3
      <4>7. QED
        BY <4>1, <4>5, <4>6
    <3>3. QED
      BY <3>1, <3>2
  <2>13. QED
    BY <1>1, <1>2, <2>1, <2>2, <2>3, <2>11, <2>12 DEF StreamInv, Stream!ReadsInPlace, Buffered
<1>3. QED
  BY <1>1, <1>2, CarelessStays

LEMMA StreamStep == StreamInv /\ [Stream!Next]_Stream!vars => StreamInv'
<1> SUFFICES ASSUME StreamInv, [Stream!Next]_Stream!vars PROVE StreamInv'
  OBVIOUS
<1>1. ASSUME NEW off \in 0 .. Size, Stream!SeekBegin(off) PROVE StreamInv'
  <2>1. Stream!Seek(off, off) /\ Stream!Mixing /\ off \in Int
    BY <1>1 DEF Stream!SeekBegin
  <2>2. QED
    BY <2>1, MixingTyped, InStep, SeekKeeps
<1>2. ASSUME NEW off \in -MaxBlock .. MaxBlock, Stream!SeekCurrent(off) PROVE StreamInv'
  <2>1. Stream!Seek(pos + off, at + off) /\ Stream!Mixing
    BY <1>2 DEF Stream!SeekCurrent, Stream!FromHere
  <2>2. CASE ~careless'
    <3>1. /\ ~careless /\ unread = <<>> /\ file = content /\ at = pos
          /\ content \in Seq(Int) /\ pos \in 0 .. Len(content)
      BY <2>1, <2>2, InStep
    <3>2. pos + off \in Int /\ at + off \in Int /\ pos + off = at + off
      BY <3>1, LenProperties, StreamAssumption
    <3>3. QED
      BY <2>1, <3>1, <3>2, MixingTyped, SeekKeeps
  <2>3. QED
    BY <2>1, <2>2, MixingTyped, CarelessStays
<1>3. ASSUME NEW off \in -1 .. 0, Stream!SeekEnd(off) PROVE StreamInv'
  <2>1. /\ Stream!Seek(Len(content) - off, Len(file) + off)
        /\ careless' = (careless \/ unread # <<>> \/ off # 0)
    BY <1>3 DEF Stream!SeekEnd
  <2>2. careless' \in BOOLEAN
    BY <2>1 DEF StreamInv
  <2>3. CASE ~careless'
    <3>1. ~careless /\ unread = <<>> /\ off = 0
      BY <2>1, <2>3
    <3>2. Len(unread) = 0
      BY <3>1, EmptySeq
    <3>3. file = content /\ at = pos /\ content \in Seq(Int) /\ pos \in 0 .. Len(content)
      BY <3>1, <3>2, LenProperties DEF StreamInv, Stream!ReadsInPlace, Buffered
    <3>4. /\ Len(content) - off \in Int /\ Len(file) + off \in Int
          /\ Len(content) - off = Len(file) + off
      BY <3>1, <3>3, LenProperties
    <3>5. QED
      BY <2>1, <2>2, <3>1, <3>3, <3>4, SeekKeeps
  <2>4. QED
    BY <2>2, <2>3, CarelessStays
<1>4. CASE UNCHANGED Stream!vars
  BY <1>4 DEF Stream!vars, StreamInv, Stream!ReadsInPlace, Buffered
<1>5. QED
  BY <1>1, <1>2, <1>3, <1>4, ReadKeeps, WriteBlockKeeps, GetKeeps DEF Stream!Next

-----------------------------------------------------------------------------
(* Algorithms                                                                *)

InputsTyped ==
  /\ one \in Seq(Int) /\ other \in Seq(Int)
  /\ \A i, j \in 1 .. Len(one) : i < j => one[i] <= one[j]
  /\ \A i, j \in 1 .. Len(other) : i < j => other[i] <= other[j]

\* The elements before `begin` are in the ranges, the last of which ends with the
\* last of them.
Ranged(v) == \E k \in 1 .. Len(result) : result[k][1] <= v /\ v < result[k][2]
Taken(v)  == \E i \in 1 .. begin - 1 : one[i] = v

RangesInv ==
  /\ result \in Seq(Int \X Int) /\ begin \in 1 .. Len(one) + 1
  /\ \A v \in Int : Ranged(v) <=> Taken(v)
  /\ begin = 1 => Len(result) = 0
  /\ begin > 1 => Len(result) > 0 /\ result[Len(result)][2] = one[begin - 1] + 1
  /\ \A k \in 1 .. Len(result) : result[k][1] < result[k][2]
  /\ \A k \in 1 .. Len(result) - 1 :
       /\ result[k][1] <= result[k + 1][1]
       /\ IsInjective(one) => result[k][2] < result[k + 1][1]

\* What has been passed is not common.
CommonInv ==
  /\ first1 \in 1 .. Len(one) + 1 /\ first2 \in 1 .. Len(other) + 1
  /\ \A i \in 1 .. Len(one), j \in 1 .. Len(other) :
       i < first1 \/ j < first2 => one[i] # other[j]
  /\ answer \in {"none", "true", "false"}
  /\ answer = "true" => first1 <= Len(one) /\ first2 <= Len(other) /\ one[first1] = other[first2]
  /\ answer = "false" => first1 > Len(one) \/ first2 > Len(other)

PictureTyped == size \in (Nat \ {0}) \X (Nat \ {0}) /\ max \in Nat \ {0}

SequenceInv == InputsTyped /\ RangesInv /\ CommonInv /\ PictureTyped

LEMMA SequenceInit == Sequence!Init => SequenceInv
<1> SUFFICES ASSUME Sequence!Init PROVE SequenceInv
  OBVIOUS
<1>1. ASSUME NEW s \in Sequence!Sorted
      PROVE  /\ s \in Seq(Int) /\ Len(s) \in Nat
             /\ \A i, j \in 1 .. Len(s) : i < j => s[i] <= s[j]
  <2>1. /\ s \in Sequence!BoundedSeq(1 .. MaxValue, MaxLength)
        /\ \A i, j \in DOMAIN s : i < j => s[i] <= s[j]
    BY DEF Sequence!Sorted
  <2>2. s \in SeqOf(1 .. MaxValue, MaxLength)
    BY <2>1 DEF Sequence!BoundedSeq, Sequence!SeqOf, SeqOf
  <2>3. s \in Seq(1 .. MaxValue)
    BY <2>2, AlgorithmsAssumption, SeqOfIsSeq
  <2>4. 1 .. MaxValue \subseteq Int
    BY AlgorithmsAssumption
  <2>5. s \in Seq(Int)
    BY <2>3, <2>4, SeqMonotonic
  <2>6. QED
    BY <2>1, <2>5, LenProperties
<1>2. InputsTyped /\ Len(one) \in Nat /\ Len(other) \in Nat
  BY <1>1 DEF Sequence!Init, InputsTyped
<1>3. PictureTyped
  BY AlgorithmsAssumption DEF Sequence!Init, PictureTyped
<1>4. result \in Seq(Int \X Int) /\ Len(result) = 0
  BY EmptySeq DEF Sequence!Init
<1>5. begin = 1 /\ first1 = 1 /\ first2 = 1 /\ answer = "none"
  BY DEF Sequence!Init
<1>6. RangesInv
  BY <1>2, <1>4, <1>5 DEF RangesInv, Ranged, Taken
<1>7. CommonInv
  BY <1>2, <1>5 DEF CommonInv
<1>8. QED
  BY <1>2, <1>3, <1>6, <1>7 DEF SequenceInv

\* A range that grows by its end, and one more range.
LEMMA CreateRangeKeeps ==
  ASSUME SequenceInv, Sequence!CreateRange PROVE SequenceInv'
<1> DEFINE n == Len(result)  v == one[begin]
<1>1. /\ one' = one /\ other' = other /\ first1' = first1 /\ first2' = first2
      /\ answer' = answer /\ size' = size /\ max' = max
  BY DEF Sequence!CreateRange
<1>2. InputsTyped' /\ CommonInv' /\ PictureTyped'
  BY <1>1 DEF SequenceInv, InputsTyped, CommonInv, PictureTyped
<1>3. Len(one) \in Nat /\ n \in Nat /\ begin \in 1 .. Len(one) /\ begin' = begin + 1 /\ v \in Int
  BY LenProperties, ElementOfSeq DEF SequenceInv, RangesInv, InputsTyped, Sequence!CreateRange
<1>4. begin > 1 => one[begin - 1] \in Int /\ one[begin - 1] <= v
  <2>1. one \in Seq(Int) /\ \A i, j \in 1 .. Len(one) : i < j => one[i] <= one[j]
    BY DEF SequenceInv, InputsTyped
  <2>2. begin > 1 => begin - 1 \in 1 .. Len(one) /\ begin - 1 < begin
    BY <1>3
  <2>3. QED
    BY <1>3, <2>1, <2>2, ElementOfSeq
<1>5. ASSUME IsInjective(one), begin > 1 PROVE one[begin - 1] < v
  <2>1. DOMAIN one = 1 .. Len(one)
    BY LenProperties DEF SequenceInv, InputsTyped
  <2>2. one[begin - 1] # v
    BY <1>3, <1>5, <2>1 DEF IsInjective
  <2>3. QED
    BY <1>3, <1>4, <1>5, <2>2
<1>6. \A k \in 1 .. n : result[k] \in Int \X Int /\ result[k][1] \in Int /\ result[k][2] \in Int
  <2>1. \A k \in 1 .. n : result[k] \in Int \X Int
    BY ElementOfSeq DEF SequenceInv, RangesInv
  <2>2. QED
    BY <2>1
<1>7. \A w : Taken(w)' <=> Taken(w) \/ w = v
  BY <1>1, <1>3 DEF Taken
<1>8. result # <<>> <=> n > 0
  BY <1>3, EmptySeq DEF SequenceInv, RangesInv
<1>9. /\ \A w \in Int : Ranged(w) <=> Taken(w)
      /\ begin = 1 => n = 0
      /\ begin > 1 => n > 0 /\ result[n][2] = one[begin - 1] + 1
      /\ \A k \in 1 .. n : result[k][1] < result[k][2]
      /\ \A k \in 1 .. n - 1 : /\ result[k][1] <= result[k + 1][1]
                               /\ IsInjective(one) => result[k][2] < result[k + 1][1]
  BY DEF SequenceInv, RangesInv
<1>10. result \in Seq(Int \X Int)
  BY DEF SequenceInv, RangesInv
<1>11. CASE n > 0 /\ v = result[n][2]
  <2>1. begin > 1 /\ v = one[begin - 1] + 1
    BY <1>3, <1>9, <1>11
  <2>2. Sequence!Last(result) = result[n]
    BY DEF Sequence!Last
  <2>3. result' = [result EXCEPT ![n] = <<result[n][1], result[n][2] + 1>>]
    BY <1>8, <1>11, <2>2 DEF Sequence!CreateRange, Sequence!FollowsLast
  <2>5. n \in 1 .. n
    BY <1>3, <1>11
  <2>4a. PICK e : e = <<result[n][1], result[n][2] + 1>>
    OBVIOUS
  <2>4. e \in Int \X Int /\ e[1] = result[n][1] /\ e[2] = v + 1
    <3>1. result[n][1] \in Int /\ result[n][2] + 1 \in Int /\ result[n][2] + 1 = v + 1
      BY <1>3, <1>6, <1>11, <2>5
    <3>2. QED
      BY <2>4a, <3>1
  <2>6. /\ result' \in Seq(Int \X Int) /\ Len(result') = n
        /\ \A k \in 1 .. n : result'[k] = IF k = n THEN e ELSE result[k]
    BY <1>10, <2>3, <2>4a, <2>4, <2>5, ExceptSeq
  <2>7. \A w \in Int : Ranged(w)' <=> Ranged(w) \/ w = v
    <3>1. \A w \in Int : result[n][1] <= w /\ w < v + 1 <=> (result[n][1] <= w /\ w < v) \/ w = v
      <4>1. result[n][1] \in Int /\ result[n][1] < v
        BY <1>6, <1>9, <1>11, <2>5
      <4>2. QED
        BY <1>3, <4>1
    <3>2. QED
      BY <1>3, <1>6, <1>11, <2>4, <2>5, <2>6, <3>1 DEF Ranged
  <2>8. \A w \in Int : Ranged(w)' <=> Taken(w)'
    BY <1>7, <1>9, <2>7
  <2>9. begin' > 1 /\ begin' \in 1 .. Len(one') + 1 /\ Len(result') > 0
        /\ result'[Len(result')][2] = one'[begin' - 1] + 1
    BY <1>1, <1>3, <1>11, <2>4, <2>5, <2>6
  <2>10. ASSUME NEW k \in 1 .. n PROVE result'[k][1] < result'[k][2]
    <3>1. CASE k = n
      <4>1. result[n][1] < v /\ result[n][1] \in Int
        BY <1>6, <1>9, <1>11, <2>5
      <4>2. result[n][1] < v + 1
        BY <1>3, <4>1
      <4>3. QED
        BY <2>4, <2>6, <3>1, <4>2
    <3>2. CASE k # n
      BY <1>9, <2>6, <3>2
    <3>3. QED
      BY <3>1, <3>2
  <2>11. \A k \in 1 .. n - 1 : /\ result'[k][1] <= result'[k + 1][1]
                               /\ IsInjective(one) => result'[k][2] < result'[k + 1][1]
    <3>1. ASSUME NEW k \in 1 .. n - 1
          PROVE  result'[k] = result[k] /\ result'[k + 1][1] = result[k + 1][1]
      <4>1. k \in 1 .. n /\ k + 1 \in 1 .. n /\ k # n
        BY <1>3
      <4>2. QED
        BY <2>4, <2>6, <4>1
    <3>2. QED
      BY <1>9, <3>1
  <2>12. RangesInv'
    BY <1>1, <2>6, <2>8, <2>9, <2>10, <2>11 DEF RangesInv
  <2>13. QED
    BY <1>2, <2>12 DEF SequenceInv
<1>12. CASE ~(n > 0 /\ v = result[n][2])
  <2>1. Sequence!Last(result) = result[n]
    BY DEF Sequence!Last
  <2>2. result' = Append(result, <<v, v + 1>>)
    BY <1>8, <1>12, <2>1 DEF Sequence!CreateRange, Sequence!FollowsLast
  <2>4a. PICK e : e = <<v, v + 1>>
    OBVIOUS
  <2>3. e \in Int \X Int /\ e[1] = v /\ e[2] = v + 1
    BY <1>3, <2>4a
  <2>4. /\ result' \in Seq(Int \X Int) /\ Len(result') = n + 1
        /\ \A k \in 1 .. n : result'[k] = result[k]
        /\ result'[n + 1] = e
    BY <1>10, <2>2, <2>4a, <2>3, AppendProperties
  <2>5. \A w \in Int : Ranged(w)' <=> Ranged(w) \/ w = v
    <3>1. \A w \in Int : v <= w /\ w < v + 1 <=> w = v
      BY <1>3
    <3>2. \A k \in 1 .. n + 1 : k \in 1 .. n \/ k = n + 1
      BY <1>3
    <3>3. 1 .. n \subseteq 1 .. n + 1 /\ n + 1 \in 1 .. n + 1
      BY <1>3
    <3>4. ASSUME NEW w \in Int, Ranged(w)' PROVE Ranged(w) \/ w = v
      <4>1. PICK k \in 1 .. n + 1 : result'[k][1] <= w /\ w < result'[k][2]
        BY <2>4, <3>4 DEF Ranged
      <4>2. CASE k \in 1 .. n
        BY <2>4, <4>1, <4>2 DEF Ranged
      <4>3. CASE k = n + 1
        BY <2>3, <2>4, <3>1, <4>1, <4>3
      <4>4. QED
        BY <3>2, <4>2, <4>3
    <3>5. ASSUME NEW w \in Int, Ranged(w) PROVE Ranged(w)'
      <4>1. PICK k \in 1 .. n : result[k][1] <= w /\ w < result[k][2]
        BY <3>5 DEF Ranged
      <4>2. k \in 1 .. Len(result') /\ result'[k] = result[k]
        BY <2>4, <3>3, <4>1
      <4>3. QED
        BY <4>1, <4>2 DEF Ranged
    <3>6. ASSUME NEW w \in Int, w = v PROVE Ranged(w)'
      <4>1. n + 1 \in 1 .. Len(result') /\ result'[n + 1][1] <= w /\ w < result'[n + 1][2]
        BY <2>3, <2>4, <3>1, <3>3, <3>6
      <4>2. QED
        BY <4>1 DEF Ranged
    <3>7. QED
      BY <3>4, <3>5, <3>6
  <2>6. \A w \in Int : Ranged(w)' <=> Taken(w)'
    BY <1>7, <1>9, <2>5
  <2>7. begin' > 1 /\ begin' \in 1 .. Len(one') + 1 /\ Len(result') > 0
        /\ result'[Len(result')][2] = one'[begin' - 1] + 1
    BY <1>1, <1>3, <2>3, <2>4
  <2>8. \A k \in 1 .. n + 1 : result'[k][1] < result'[k][2]
    <3>1. \A k \in 1 .. n + 1 : k \in 1 .. n \/ k = n + 1
      BY <1>3
    <3>2. v < v + 1
      BY <1>3
    <3>3. ASSUME NEW k \in 1 .. n + 1 PROVE result'[k][1] < result'[k][2]
      <4>1. CASE k \in 1 .. n
        BY <1>9, <2>4, <4>1
      <4>2. CASE k = n + 1
        BY <2>3, <2>4, <3>2, <4>2
      <4>3. QED
        BY <3>1, <4>1, <4>2
    <3>4. QED
      BY <3>3
  <2>9. \A k \in 1 .. n : /\ result'[k][1] <= result'[k + 1][1]
                          /\ IsInjective(one) => result'[k][2] < result'[k + 1][1]
    <3>1. ASSUME NEW k \in 1 .. n - 1
          PROVE  /\ result'[k][1] <= result'[k + 1][1]
                 /\ IsInjective(one) => result'[k][2] < result'[k + 1][1]
      <4>1. k \in 1 .. n /\ k + 1 \in 1 .. n
        BY <1>3
      <4>2. QED
        BY <1>9, <2>4, <4>1
    <3>2. ASSUME n > 0
          PROVE  /\ result'[n][1] <= result'[n + 1][1]
                 /\ IsInjective(one) => result'[n][2] < result'[n + 1][1]
      <4>1. n \in 1 .. n /\ begin > 1
        BY <1>3, <1>9, <3>2
      <4>2. result[n][1] < result[n][2] /\ result[n][2] = one[begin - 1] + 1 /\ result[n][2] # v
        BY <1>9, <1>12, <3>2, <4>1
      <4>2a. /\ result[n][1] \in Int /\ result[n][2] \in Int /\ one[begin - 1] \in Int
            /\ one[begin - 1] <= v /\ v \in Int
        BY <1>3, <1>4, <1>6, <4>1
      <4>3. result[n][1] <= v
        BY <4>2a, <4>2
      <4>4. IsInjective(one) => result[n][2] < v
        BY <1>5, <4>1, <4>2a, <4>2
      <4>5. QED
        BY <2>3, <2>4, <4>1, <4>3, <4>4
    <3>3. \A k \in 1 .. n : k \in 1 .. n - 1 \/ (k = n /\ n > 0)
      BY <1>3
    <3>4. QED
      BY <3>1, <3>2, <3>3
  <2>10. \A k \in 1 .. Len(result') - 1 : k \in 1 .. n
    BY <1>3, <2>4
  <2>11. RangesInv'
    BY <1>1, <2>4, <2>6, <2>7, <2>8, <2>9, <2>10 DEF RangesInv
  <2>12. QED
    BY <1>2, <2>11 DEF SequenceInv
<1>13. QED
  BY <1>11, <1>12

LEMMA IntersectKeeps ==
  ASSUME SequenceInv, Sequence!Intersect PROVE SequenceInv'
<1>1. /\ one' = one /\ other' = other /\ begin' = begin /\ result' = result
      /\ size' = size /\ max' = max /\ answer = "none"
  BY DEF Sequence!Intersect
<1>2. InputsTyped' /\ RangesInv' /\ PictureTyped'
  BY <1>1 DEF SequenceInv, InputsTyped, RangesInv, PictureTyped, Ranged, Taken
<1>3. /\ Len(one) \in Nat /\ Len(other) \in Nat
      /\ first1 \in 1 .. Len(one) + 1 /\ first2 \in 1 .. Len(other) + 1
      /\ \A i \in 1 .. Len(one), j \in 1 .. Len(other) :
           i < first1 \/ j < first2 => one[i] # other[j]
  BY LenProperties DEF SequenceInv, InputsTyped, CommonInv
<1>4. /\ \A i \in 1 .. Len(one) : one[i] \in Int
      /\ \A i \in 1 .. Len(other) : other[i] \in Int
  BY ElementOfSeq DEF SequenceInv, InputsTyped
<1>5. /\ \A i, j \in 1 .. Len(one) : i < j => one[i] <= one[j]
      /\ \A i, j \in 1 .. Len(other) : i < j => other[i] <= other[j]
  BY DEF SequenceInv, InputsTyped
<1>6. CASE first1 > Len(one) \/ first2 > Len(other)
  <2>1. answer' = "false" /\ first1' = first1 /\ first2' = first2
    BY <1>6 DEF Sequence!Intersect
  <2>2. CommonInv'
    BY <1>1, <1>3, <1>6, <2>1 DEF CommonInv
  <2>3. QED
    BY <1>2, <2>2 DEF SequenceInv
<1>7. CASE ~(first1 > Len(one) \/ first2 > Len(other))
  <2>1. /\ first1 \in 1 .. Len(one) /\ first2 \in 1 .. Len(other)
        /\ one[first1] \in Int /\ other[first2] \in Int
    BY <1>3, <1>4, <1>7
  <2>2. CASE one[first1] < other[first2]
    <3>1. first1' = first1 + 1 /\ first2' = first2 /\ answer' = answer
      BY <1>7, <2>2 DEF Sequence!Intersect
    <3>2. ASSUME NEW j \in 1 .. Len(other) PROVE one[first1] # other[j]
      <4>1. CASE j < first2
        BY <1>3, <2>1, <4>1
      <4>2. CASE j >= first2
        <5>1. other[first2] <= other[j]
          BY <1>3, <1>4, <1>5, <2>1, <4>2
        <5>2. QED
          BY <1>4, <2>1, <2>2, <5>1
      <4>3. QED
        BY <1>3, <4>1, <4>2
    <3>3. \A i \in 1 .. Len(one) : i < first1 + 1 => i < first1 \/ i = first1
      BY <1>3
    <3>4. CommonInv'
      BY <1>1, <1>3, <2>1, <3>1, <3>2, <3>3 DEF CommonInv
    <3>5. QED
      BY <1>2, <3>4 DEF SequenceInv
  <2>3. CASE other[first2] < one[first1]
    <3>1. first2' = first2 + 1 /\ first1' = first1 /\ answer' = answer
      BY <1>7, <2>1, <2>3 DEF Sequence!Intersect
    <3>2. ASSUME NEW i \in 1 .. Len(one) PROVE one[i] # other[first2]
      <4>1. CASE i < first1
        BY <1>3, <2>1, <4>1
      <4>2. CASE i >= first1
        <5>1. one[first1] <= one[i]
          BY <1>3, <1>4, <1>5, <2>1, <4>2
        <5>2. QED
          BY <1>4, <2>1, <2>3, <5>1
      <4>3. QED
        BY <1>3, <4>1, <4>2
    <3>3. \A j \in 1 .. Len(other) : j < first2 + 1 => j < first2 \/ j = first2
      BY <1>3
    <3>4. CommonInv'
      BY <1>1, <1>3, <2>1, <3>1, <3>2, <3>3 DEF CommonInv
    <3>5. QED
      BY <1>2, <3>4 DEF SequenceInv
  <2>4. CASE one[first1] = other[first2]
    <3>1. answer' = "true" /\ first1' = first1 /\ first2' = first2
      BY <1>7, <2>1, <2>4 DEF Sequence!Intersect
    <3>2. CommonInv'
      BY <1>1, <1>3, <1>7, <2>1, <2>4, <3>1 DEF CommonInv
    <3>3. QED
      BY <1>2, <3>2 DEF SequenceInv
  <2>5. QED
    BY <2>1, <2>2, <2>3, <2>4
<1>8. QED
  BY <1>6, <1>7

LEMMA SequenceStep == SequenceInv /\ [Sequence!Next]_Sequence!vars => SequenceInv'
<1>1. ASSUME SequenceInv, UNCHANGED Sequence!vars PROVE SequenceInv'
  BY <1>1 DEF Sequence!vars, SequenceInv, InputsTyped, RangesInv, CommonInv, PictureTyped, Ranged, Taken
<1>2. QED
  BY <1>1, CreateRangeKeeps, IntersectKeeps DEF Sequence!Next

LEMMA Quotient ==
  ASSUME NEW p \in Nat, NEW q \in Nat \ {0}
  PROVE  p \div q \in Nat /\ (p \div q) * q <= p /\ p < (p \div q + 1) * q
OBVIOUS

\* The shorter side is rounded, and is not longer than the other.
LEMMA FixedFits ==
  ASSUME NEW w \in Nat \ {0}, NEW h \in Nat \ {0}, NEW m \in Nat \ {0}, ~(w <= m /\ h <= m)
  PROVE  LET fixed == Sequence!FixSize(w, h, m)
         IN /\ Sequence!Max({fixed[1], fixed[2]}) = m
            /\ w >= h => fixed[2] * w <= h * m /\ h * m < (fixed[2] + 1) * w
            /\ h >= w => fixed[1] * h <= w * m /\ w * m < (fixed[1] + 1) * h
<1>1. \A i, j \in Int : i >= j => Sequence!Max({i, j}) = i /\ Sequence!Max({j, i}) = i
  BY DEF Sequence!Max
<1>2. CASE w > h
  <2>1. PICK q : q = (h * m) \div w
    OBVIOUS
  <2>2. h * m \in Nat
    OBVIOUS
  <2>3. q \in Nat /\ q * w <= h * m /\ h * m < (q + 1) * w
    BY <2>1, <2>2, Quotient
  <2>4. q <= m
    <3>1. h * m <= w * m
      BY <1>2
    <3>2. q * w <= m * w
      BY <2>3, <3>1
    <3>3. QED
      BY <2>3, <3>2
  <2>5. Sequence!FixSize(w, h, m) = <<m, q>>
    BY <1>2, <2>1 DEF Sequence!FixSize
  <2>6. Sequence!Max({m, q}) = m
    BY <1>1, <2>3, <2>4
  <2>7. QED
    BY <1>2, <2>3, <2>5, <2>6
<1>3. CASE w <= h
  <2>1. PICK q : q = (w * m) \div h
    OBVIOUS
  <2>2. w * m \in Nat
    OBVIOUS
  <2>3. q \in Nat /\ q * h <= w * m /\ w * m < (q + 1) * h
    BY <2>1, <2>2, Quotient
  <2>4. q <= m
    <3>1. w * m <= h * m
      BY <1>3
    <3>2. q * h <= m * h
      BY <2>3, <3>1
    <3>3. QED
      BY <2>3, <3>2
  <2>5. Sequence!FixSize(w, h, m) = <<q, m>>
    BY <1>3, <2>1 DEF Sequence!FixSize
  <2>6. Sequence!Max({q, m}) = m
    BY <1>1, <2>3, <2>4
  <2>7. w >= h => m * w <= h * m /\ h * m < (m + 1) * w
    BY <1>3
  <2>8. QED
    BY <2>3, <2>5, <2>6, <2>7
<1>4. QED
  BY <1>2, <1>3

LEMMA SequenceInvRight == SequenceInv => Sequence!AlgorithmsRight
<1> SUFFICES ASSUME SequenceInv PROVE Sequence!AlgorithmsRight
  OBVIOUS
<1>1. /\ Len(one) \in Nat /\ Len(other) \in Nat /\ Len(result) \in Nat
      /\ DOMAIN one = 1 .. Len(one) /\ DOMAIN other = 1 .. Len(other) /\ DOMAIN result = 1 .. Len(result)
      /\ \A i \in 1 .. Len(one) : one[i] \in Int
      /\ \A k \in 1 .. Len(result) : result[k] \in Int \X Int
  BY LenProperties, ElementOfSeq DEF SequenceInv, InputsTyped, RangesInv
<1>2. ASSUME begin > Len(one)
      PROVE  /\ UNION {r[1] .. r[2] - 1 : r \in Sequence!Range(result)} = Sequence!Range(one)
             /\ \A i \in 1 .. Len(result) - 1 :
                  IF Sequence!IsInjective(one) THEN result[i][2] < result[i + 1][1]
                                               ELSE result[i][1] <= result[i + 1][1]
  <2>1. begin - 1 = Len(one)
    <3>1. begin \in 1 .. Len(one) + 1
      BY DEF SequenceInv, RangesInv
    <3>2. QED
      BY <1>1, <1>2, <3>1
  <2>2. \A v : v \in Sequence!Range(one) <=> Taken(v)
    BY <1>1, <2>1 DEF Sequence!Range, Taken
  <2>3. \A v : Taken(v) => v \in Int
    BY <1>1, <2>1 DEF Taken
  <2>4. ASSUME NEW v
        PROVE  v \in UNION {r[1] .. r[2] - 1 : r \in Sequence!Range(result)} <=> v \in Int /\ Ranged(v)
    <3>1. \A k \in 1 .. Len(result) : v \in result[k][1] .. result[k][2] - 1
            <=> v \in Int /\ result[k][1] <= v /\ v < result[k][2]
      <4>1. \A k \in 1 .. Len(result) : result[k][1] \in Int /\ result[k][2] \in Int
        BY <1>1
      <4>2. QED
        BY <4>1
    <3>2. v \in UNION {r[1] .. r[2] - 1 : r \in Sequence!Range(result)}
            <=> \E k \in 1 .. Len(result) : v \in result[k][1] .. result[k][2] - 1
      BY <1>1 DEF Sequence!Range
    <3>3. QED
      BY <3>1, <3>2 DEF Ranged
  <2>5. \A v : v \in UNION {r[1] .. r[2] - 1 : r \in Sequence!Range(result)} <=> v \in Sequence!Range(one)
    BY <2>2, <2>3, <2>4 DEF SequenceInv, RangesInv
  <2>6. QED
    BY <2>5 DEF SequenceInv, RangesInv, IsInjective, Sequence!IsInjective
<1>3. ASSUME answer # "none"
      PROVE  (answer = "true") = (Sequence!Range(one) \cap Sequence!Range(other) # {})
  <2>1. CASE answer = "true"
    <3>1. first1 \in 1 .. Len(one) /\ first2 \in 1 .. Len(other) /\ one[first1] = other[first2]
      BY <1>1, <2>1 DEF SequenceInv, CommonInv
    <3>2. one[first1] \in Sequence!Range(one) \cap Sequence!Range(other)
      BY <1>1, <3>1 DEF Sequence!Range
    <3>3. QED
      BY <2>1, <3>2
  <2>2. CASE answer = "false"
    <3>1. \A i \in 1 .. Len(one), j \in 1 .. Len(other) : one[i] # other[j]
      <4>1. first1 \in Int /\ first2 \in Int /\ (first1 > Len(one) \/ first2 > Len(other))
        BY <1>1, <2>2 DEF SequenceInv, CommonInv
      <4>2. \A i \in 1 .. Len(one), j \in 1 .. Len(other) : i < first1 \/ j < first2
        BY <1>1, <4>1
      <4>3. QED
        BY <4>2 DEF SequenceInv, CommonInv
    <3>2. Sequence!Range(one) \cap Sequence!Range(other) = {}
      BY <1>1, <3>1 DEF Sequence!Range
    <3>3. QED
      BY <2>2, <3>2
  <2>3. QED
    BY <1>3, <2>1, <2>2 DEF SequenceInv, CommonInv
<1>4. size[1] \in Nat \ {0} /\ size[2] \in Nat \ {0} /\ size = <<size[1], size[2]>> /\ max \in Nat \ {0}
  BY DEF SequenceInv, PictureTyped
<1>5. size[1] <= max /\ size[2] <= max => Sequence!FixSize(size[1], size[2], max) = size
  BY <1>4 DEF Sequence!FixSize
<1>6. QED
  BY <1>2, <1>3, <1>4, <1>5, FixedFits DEF Sequence!AlgorithmsRight

-----------------------------------------------------------------------------
(* Progress                                                                  *)

\* Logged, or nothing to be told of.
Told(percent) == percent = 0 \/ percent \in Range(logged)

Percentages == {Counter!Percent(n) : n \in Int} \cup {0}

LEMMA AppendRange ==
  ASSUME NEW S, NEW s \in Seq(S), NEW e \in S
  PROVE  Range(Append(s, e)) = Range(s) \cup {e}
<1>1. /\ Append(s, e) \in Seq(S) /\ Len(s) \in Nat
      /\ Len(Append(s, e)) = Len(s) + 1
      /\ \A i \in 1 .. Len(s) : Append(s, e)[i] = s[i]
      /\ Append(s, e)[Len(s) + 1] = e
  BY AppendProperties, LenProperties
<1>2. DOMAIN s = 1 .. Len(s) /\ DOMAIN Append(s, e) = 1 .. Len(s) + 1
  BY <1>1, LenProperties
<1>3. \A i \in 1 .. Len(s) + 1 : i \in 1 .. Len(s) \/ i = Len(s) + 1
  BY <1>1
<1>4. QED
  BY <1>1, <1>2, <1>3 DEF Range

\* Whoever is about to leave has told its percentage, and the one of the last item
\* has been told or will be by the thread that is about to compare it.
CounterInv ==
  /\ logged \in Seq(Percentages) /\ m_count \in Int
  /\ pc \in [Workers -> {"out", "compare", "leave"}] /\ pct \in [Workers -> Percentages]
  /\ Told(m_currentPct)
  /\ \A t \in Workers : pc[t] = "leave" => Told(pct[t])
  /\ \/ m_count = 0 \/ Told(Counter!Percent(m_count))
     \/ \E t \in Workers : pc[t] = "compare" /\ pct[t] = Counter!Percent(m_count)

LEMMA CounterInit == Counter!Init => CounterInv
<1> SUFFICES ASSUME Counter!Init PROVE CounterInv
  OBVIOUS
<1>1. logged \in Seq(Percentages)
  BY EmptySeq DEF Counter!Init
<1>2. QED
  BY <1>1 DEF Counter!Init, CounterInv, Told, Percentages

LEMMA CounterStep == CounterInv /\ [Counter!Next]_Counter!vars => CounterInv'
<1> SUFFICES ASSUME CounterInv, [Counter!Next]_Counter!vars PROVE CounterInv'
  OBVIOUS
<1> USE DEF CounterInv
<1>1. ASSUME NEW t \in Workers, NEW step \in Steps, Counter!Increment(t, step) PROVE CounterInv'
  <2>1. m_count' \in Int /\ Counter!Percent(m_count') \in Percentages
    BY <1>1, StepsAssumption DEF Counter!Increment, Percentages
  <2>2. pct' = [pct EXCEPT ![t] = Counter!Percent(m_count')]
    BY <1>1 DEF Counter!Increment
  <2>3. pct'[t] = Counter!Percent(m_count)' /\ pc'[t] = "compare"
    BY <1>1, <2>2 DEF Counter!Increment, Counter!Percent
  <2>4. \A v \in Workers : pc'[v] = "leave" => Told(pct[v])' /\ pct'[v] = pct[v]
    BY <1>1, <2>2 DEF Counter!Increment, Told
  <2>5. QED
    BY <1>1, <2>1, <2>2, <2>3, <2>4 DEF Counter!Increment, Told
<1>2. ASSUME NEW t \in Workers, NEW commented \in BOOLEAN, Counter!Log(t, commented) PROVE CounterInv'
  <2>1. Range(Append(logged, pct[t])) = Range(logged) \cup {pct[t]}
    BY AppendRange
  <2>2. logged' \in Seq(Percentages)
    BY <1>2, AppendProperties DEF Counter!Log
  <2>3. \A percent : Told(percent) => Told(percent)'
    BY <1>2, <2>1 DEF Counter!Log, Told
  <2>4. Told(pct[t])'
    BY <1>2, <2>1 DEF Counter!Log, Told
  <2>5. /\ pc' = [pc EXCEPT ![t] = "leave"]
        /\ pct' = pct /\ m_count' = m_count /\ m_currentPct' = m_currentPct
    BY <1>2 DEF Counter!Log
  <2>6. Counter!Percent(m_count)' = Counter!Percent(m_count)
    BY <2>5 DEF Counter!Percent
  <2>7. Told(m_currentPct)' /\ \A v \in Workers : pc'[v] = "leave" => Told(pct[v])'
    BY <2>3, <2>4, <2>5
  <2>8. \/ m_count' = 0 \/ Told(Counter!Percent(m_count))'
        \/ \E v \in Workers : pc'[v] = "compare" /\ pct'[v] = Counter!Percent(m_count)'
    <3>1. CASE m_count = 0 \/ Told(Counter!Percent(m_count))
      BY <2>3, <2>5, <2>6, <3>1
    <3>2. ASSUME NEW v \in Workers, pc[v] = "compare", pct[v] = Counter!Percent(m_count)
          PROVE  \/ Told(Counter!Percent(m_count))'
                 \/ pc'[v] = "compare" /\ pct'[v] = Counter!Percent(m_count)'
      <4>1. CASE v = t
        <5>1. pct[t] = pct'[t] /\ Counter!Percent(m_count)' = pct'[t]
          BY <2>5, <2>6, <3>2, <4>1
        <5>2. QED
          BY <2>4, <5>1
      <4>2. CASE v # t
        BY <2>5, <2>6, <3>2, <4>2
      <4>3. QED
        BY <4>1, <4>2
    <3>3. QED
      BY <3>1, <3>2
  <2>9. QED
    BY <2>2, <2>5, <2>7, <2>8
<1>3. ASSUME NEW t \in Workers, Counter!Leave(t) PROVE CounterInv'
  BY <1>3 DEF Counter!Leave, Told
<1>4. CASE UNCHANGED Counter!vars
  BY <1>4 DEF Counter!vars, Told
<1>5. QED
  BY <1>1, <1>2, <1>3, <1>4 DEF Counter!Next

LEMMA CounterInvTells == CounterInv => Counter!EndIsTold
BY DEF CounterInv, Told, Counter!EndIsTold, Range, Counter!Range

-----------------------------------------------------------------------------
(* Order of strings                                                          *)

OrderInv ==
  locale \in Order!Locales /\ lhs \in Order!Strings /\ rhs \in Order!Strings /\ third \in Order!Strings

LEMMA OrderStep == OrderInv /\ [Order!Next]_Order!vars => OrderInv'
BY DEF OrderInv, Order!Next, Order!SetLocale, Order!vars

LEMMA OrderInit == Order!Init => OrderInv
BY DEF OrderInv, Order!Init, Order!Locales

\* What is compared is a pair of integers: the category and the place.
LEMMA CategoryTyped ==
  ASSUME OrderInv, NEW s \in Order!Strings, NEW weight \in Int
  PROVE  /\ Order!Category(s, weight) \in Int /\ s.key \in Int
         /\ s.kind = "letter" => Order!Category(s, weight) <= 1
         /\ s # Order!Empty /\ s.kind # "letter" => Order!Category(s, weight) >= 2
         /\ s.kind = "number" => Order!Category(s, weight) = 2
         /\ s # Order!Empty /\ s.kind \notin {"letter", "number"} => Order!Category(s, weight) >= 4
         /\ s # Order!Empty => Order!Category(s, weight) <= 8
         /\ s = Order!Empty => Order!Category(s, weight) = weight /\ s.kind # "letter"
<1>1. CASE s = Order!Empty
  BY <1>1 DEF Order!Category, Order!Empty
<1>2. CASE s # Order!Empty
  <2>1. s.kind \in Order!Kinds /\ s.key \in Int
    BY <1>2, OrderAssumption DEF Order!Strings
  <2>2. Order!FixCategory(s.script) \in {0, 1}
    BY DEF Order!FixCategory
  <2>3. QED
    BY <1>2, <2>1, <2>2 DEF Order!Category, Order!CATEGORIES, Order!Kinds
<1>3. QED
  BY <1>1, <1>2

LEMMA OrderInvWeak == OrderInv => Order!OrderIsWeak
<1> SUFFICES ASSUME OrderInv PROVE Order!OrderIsWeak
  OBVIOUS
<1>1. lhs \in Order!Strings /\ rhs \in Order!Strings /\ third \in Order!Strings
  BY DEF OrderInv
<1>2. ASSUME NEW weight \in 0 .. MaxWeight
      PROVE LET Less(s, t) == Order!Compare(s, t, weight)
                Same(s, t) == ~Less(s, t) /\ ~Less(t, s)
            IN /\ ~(Less(lhs, rhs) /\ Less(rhs, lhs))
               /\ Less(lhs, rhs) /\ Less(rhs, third) => Less(lhs, third)
               /\ Same(lhs, rhs) /\ Same(rhs, third) => Same(lhs, third)
  <2>1. weight \in Int
    BY OrderAssumption
  <2>2. /\ Order!Category(lhs, weight) \in Int /\ lhs.key \in Int
        /\ Order!Category(rhs, weight) \in Int /\ rhs.key \in Int
        /\ Order!Category(third, weight) \in Int /\ third.key \in Int
    BY <1>1, <2>1, CategoryTyped
  <2>3. QED
    BY <2>2 DEF Order!Compare
<1>3. ASSUME Order!Compare(lhs, rhs, MaxWeight)
      PROVE  /\ rhs.kind = "letter" => lhs.kind = "letter"
             /\ rhs.kind = "number" => lhs.kind \in {"letter", "number"}
             /\ lhs # Order!Empty
  <2>1. /\ Order!Category(lhs, MaxWeight) \in Int /\ Order!Category(rhs, MaxWeight) \in Int
        /\ lhs.key \in Int /\ rhs.key \in Int
        /\ rhs.kind = "letter" => Order!Category(rhs, MaxWeight) <= 1
        /\ lhs # Order!Empty /\ lhs.kind # "letter" => Order!Category(lhs, MaxWeight) >= 2
        /\ rhs.kind = "number" => Order!Category(rhs, MaxWeight) = 2
        /\ lhs # Order!Empty /\ lhs.kind \notin {"letter", "number"} => Order!Category(lhs, MaxWeight) >= 4
        /\ rhs # Order!Empty => Order!Category(rhs, MaxWeight) <= 8
        /\ lhs = Order!Empty => Order!Category(lhs, MaxWeight) = MaxWeight
        /\ rhs = Order!Empty => Order!Category(rhs, MaxWeight) = MaxWeight /\ rhs.kind # "letter"
    BY <1>1, OrderAssumption, CategoryTyped
  <2>2. CASE lhs = Order!Empty /\ rhs = Order!Empty
    <3>1. lhs.key = rhs.key
      BY <2>2
    <3>2. QED
      BY <1>3, <2>1, <2>2, <3>1, OrderAssumption DEF Order!Compare
  <2>3. QED
    BY <1>3, <2>1, <2>2, OrderAssumption DEF Order!Compare
<1>4. QED
  BY <1>2, <1>3 DEF Order!OrderIsWeak

-----------------------------------------------------------------------------
(* Synchronous executor                                                      *)

SyncInv ==
  /\ calls \in Seq({"task", "result"})
  /\ busy \in Int /\ escaped \in Int /\ tasks \in Nat
  /\ Sync!BusyExplained

LEMMA SyncInit == Sync!Init => SyncInv
BY EmptySeq DEF Sync!Init, SyncInv, Sync!BusyExplained

LEMMA SyncStep == SyncInv /\ [Sync!Next]_Sync!vars => SyncInv'
<1> SUFFICES ASSUME SyncInv, [Sync!Next]_Sync!vars PROVE SyncInv'
  OBVIOUS
<1> USE DEF SyncInv, Sync!BusyExplained
<1>1. Len(calls) \in Nat
  BY LenProperties
<1>2. ASSUME calls # <<>>
      PROVE  /\ Sync!Front(calls) \in Seq({"task", "result"})
             /\ Len(Sync!Front(calls)) = Len(calls) - 1
             /\ Append(Sync!Front(calls), "result") \in Seq({"task", "result"})
             /\ Len(Append(Sync!Front(calls), "result")) = Len(calls)
  <2>1. Sync!Front(calls) = Front(calls)
    BY DEF Front, Sync!Front
  <2>2. /\ Front(calls) \in Seq({"task", "result"}) /\ Len(Front(calls)) = Len(calls) - 1
    BY <1>2, FrontProperties
  <2>3. QED
    BY <1>1, <2>1, <2>2, AppendLonger
<1>3. CASE Sync!Call
  <2>1. calls' \in Seq({"task", "result"}) /\ Len(calls') = Len(calls) + 1
    BY <1>3, AppendLonger DEF Sync!Call
  <2>2. QED
    BY <1>1, <1>3, <2>1 DEF Sync!Call
<1>4. CASE Sync!TaskReturns
  BY <1>1, <1>2, <1>4 DEF Sync!TaskReturns
<1>5. CASE Sync!ResultReturns
  BY <1>1, <1>2, <1>5 DEF Sync!ResultReturns
<1>6. CASE Sync!Throw
  BY <1>1, <1>2, <1>6 DEF Sync!Throw
<1>7. CASE UNCHANGED Sync!vars
  BY <1>7 DEF Sync!vars
<1>8. QED
  BY <1>3, <1>4, <1>5, <1>6, <1>7 DEF Sync!Next

-----------------------------------------------------------------------------
(* XML platform                                                              *)

\* The parsers that are counted, and those within the operators of the counter.
Counted  == {u \in Users : user[u] \in {"counted", "there", "going"}}
Counting == {"coming", "counted", "going", "discounted"}

\* One at a time counts, and the library is up for those that are counted and have
\* not just been counted as the first, or were just discounted as the last.
PlatformInv ==
  /\ user \in [Users -> {"gone", "there"} \cup Counting]
  /\ g_counter = Cardinality(Counted)
  /\ \A u \in Users : user[u] \in Counting <=> guard = u
  /\ platform = IF \/ g_counter > 1
                   \/ g_counter = 1 /\ ~\E u \in Users : user[u] = "counted"
                   \/ g_counter = 0 /\ \E u \in Users : user[u] = "discounted"
                THEN 1 ELSE 0

LEMMA CountedProperties ==
  /\ IsFiniteSet(Counted) /\ Cardinality(Counted) \in Nat
  /\ Cardinality(Counted) = 0 <=> Counted = {}
<1>1. IsFiniteSet(Counted)
  BY UsersAssumption, FS_Subset DEF Counted
<1>2. QED
  BY <1>1, FS_CardinalityType, FS_EmptySet

LEMMA PlatformInit == Platform!Init => PlatformInv
<1> SUFFICES ASSUME Platform!Init PROVE PlatformInv
  OBVIOUS
<1>1. Counted = {}
  BY DEF Platform!Init, Counted
<1>2. QED
  BY <1>1, FS_EmptySet, UsersAssumption DEF Platform!Init, PlatformInv, Counting

LEMMA PlatformStep == PlatformInv /\ [Platform!Next]_Platform!vars => PlatformInv'
<1> SUFFICES ASSUME PlatformInv, [Platform!Next]_Platform!vars PROVE PlatformInv'
  OBVIOUS
<1> USE DEF PlatformInv, Counting
<1>0. Counted' = {u \in Users : user'[u] \in {"counted", "there", "going"}}
  BY DEF Counted
<1>1. IsFiniteSet(Counted) /\ g_counter \in Nat /\ (g_counter = 0 <=> Counted = {})
  BY CountedProperties
<1>2. ASSUME NEW u \in Users, Platform!Lock(u) PROVE PlatformInv'
  <2>1. Counted' = Counted
    BY <1>0, <1>2 DEF Platform!Lock, Counted
  <2>2. QED
    BY <1>2, <2>1, UsersAssumption DEF Platform!Lock
<1>3. ASSUME NEW u \in Users, Platform!Count(u) PROVE PlatformInv'
  <2>1. Counted' = Counted \cup {u} /\ u \notin Counted
    BY <1>0, <1>3 DEF Platform!Count, Counted
  <2>2. Cardinality(Counted') = g_counter + 1
    BY <1>1, <2>1, FS_AddElement
  <2>3. \A v \in Users : user[v] \notin {"counted", "discounted"}
    BY <1>3 DEF Platform!Count
  <2>4. QED
    BY <1>1, <1>3, <2>2, <2>3 DEF Platform!Count
<1>4. ASSUME NEW u \in Users, Platform!Discount(u) PROVE PlatformInv'
  <2>1. Counted' = Counted \ {u} /\ u \in Counted
    BY <1>0, <1>4 DEF Platform!Discount, Counted
  <2>2. Cardinality(Counted') = g_counter - 1 /\ g_counter # 0
    BY <1>1, <2>1, FS_RemoveElement
  <2>3. \A v \in Users : user[v] \notin {"counted", "discounted"}
    BY <1>4 DEF Platform!Discount
  <2>4. QED
    BY <1>1, <1>4, <2>2, <2>3 DEF Platform!Discount
<1>5. ASSUME NEW u \in Users, Platform!Initialize(u) PROVE PlatformInv'
  <2>1. Counted' = Counted
    BY <1>0, <1>5 DEF Platform!Initialize, Counted
  <2>2. u \in Counted /\ \A v \in Users : user[v] # "discounted" /\ (user[v] = "counted" => v = u)
    BY <1>5 DEF Platform!Initialize, Counted
  <2>3. QED
    BY <1>1, <1>5, <2>1, <2>2, UsersAssumption DEF Platform!Initialize
<1>6. ASSUME NEW u \in Users, Platform!Terminate(u) PROVE PlatformInv'
  <2>1. Counted' = Counted
    BY <1>0, <1>6 DEF Platform!Terminate, Counted
  <2>2. \A v \in Users : user[v] # "counted" /\ (user[v] = "discounted" => v = u)
    BY <1>6 DEF Platform!Terminate
  <2>3. QED
    BY <1>1, <1>6, <2>1, <2>2, UsersAssumption DEF Platform!Terminate
<1>7. CASE UNCHANGED Platform!vars
  BY <1>7 DEF Platform!vars, Counted
<1>8. QED
  BY <1>2, <1>3, <1>4, <1>5, <1>6, <1>7 DEF Platform!Next

LEMMA PlatformInvInUse == PlatformInv => Platform!PlatformInUse
<1> SUFFICES ASSUME PlatformInv PROVE Platform!PlatformInUse
  OBVIOUS
<1>1. g_counter \in Nat /\ (g_counter = 0 <=> Counted = {})
  BY CountedProperties DEF PlatformInv
<1>2. ASSUME NEW u \in Users, user[u] = "there" PROVE platform = 1
  <2>1. u \in Counted
    BY <1>2 DEF Counted
  <2>2. CASE g_counter = 1
    <3>1. Cardinality(Counted) = 1 /\ IsFiniteSet(Counted)
      BY <2>2, CountedProperties DEF PlatformInv
    <3>2. PICK w : Counted = {w}
      BY <3>1, FS_Singleton
    <3>3. \A v \in Users : user[v] # "counted"
      BY <1>2, <2>1, <3>2 DEF Counted
    <3>4. QED
      BY <2>2, <3>3 DEF PlatformInv
  <2>3. CASE g_counter > 1
    BY <2>3 DEF PlatformInv
  <2>4. QED
    BY <1>1, <2>1, <2>2, <2>3
<1>3. ASSUME \A u \in Users : user[u] = "gone" PROVE platform = 0
  <2>1. Counted = {}
    BY <1>3 DEF Counted
  <2>2. QED
    BY <1>1, <1>3, <2>1 DEF PlatformInv
<1>4. QED
  BY <1>2, <1>3 DEF Platform!PlatformInUse, PlatformInv

-----------------------------------------------------------------------------
(* Settings files                                                            *)

\* The places a value can have in the settings or in a file.
FilePlaces == Seq(FileGroups) \X FileKeys

\* Where Copy() reads from and writes to: in one of the objects the group that is
\* current, in the other none.
From    == IF copying = "save" THEN home ELSE <<>>
Onto    == IF copying = "save" THEN <<>> ELSE home
Written == IF copying = "save" THEN file ELSE base

\* What is in this group under this key is still to be copied: it is among the keys
\* left in the current group, or inside a group left in one of those around it.
Waits(group, key) ==
  \/ group = filePath /\ key \in frames[Len(frames)].keys
  \/ \E i \in 1 .. Len(frames) :
       /\ i <= Len(group) /\ group[i] \in frames[i].groups
       /\ \A j \in 1 .. i - 1 : group[j] = filePath[j]

\* The value of this place has been copied to it.
WasCopied(group, key) == <<From \o group, key>> \in DOMAIN source /\ ~Waits(group, key)

IsCopied(p) == \E group \in Seq(FileGroups) : p[1] = Onto \o group /\ WasCopied(group, p[2])

\* What is written is what was there, and over it what has been copied.
CopiedSoFar ==
  /\ \A p \in FilePlaces : p \in DOMAIN Written <=> p \in DOMAIN target \/ IsCopied(p)
  /\ \A group \in Seq(FileGroups), key \in FileKeys :
       WasCopied(group, key) => Written[<<Onto \o group, key>>] = source[<<From \o group, key>>]
  /\ \A p \in DOMAIN target : ~IsCopied(p) => Written[p] = target[p]

\* Both objects are as deep in their groups as Copy() is in its calls, and a group
\* that has been entered is not left to be entered again.
InCopy ==
  /\ home \in Seq(FileGroups) /\ filePath \in Seq(FileGroups) /\ path = home \o filePath
  /\ frames \in Seq([keys : SUBSET FileKeys, groups : SUBSET FileGroups])
  /\ Len(frames) = Len(filePath) + 1
  /\ source = IF copying = "save" THEN base ELSE file
  /\ copying = "save" => target = <<>>
  /\ DOMAIN target \subseteq FilePlaces
  /\ \A i \in 1 .. Len(filePath) : frames[i].keys = {} /\ filePath[i] \notin frames[i].groups
  /\ \A key \in frames[Len(frames)].keys : <<From \o filePath, key>> \in DOMAIN source

FilesInv ==
  /\ copying \in {"", "save", "load"} /\ path \in Seq(FileGroups)
  /\ DOMAIN base \subseteq FilePlaces /\ DOMAIN file \subseteq FilePlaces
  /\ copying = "" => filePath = <<>>
  /\ copying # "" => InCopy /\ CopiedSoFar

LEMMA FilesBegin == Files!Init => FilesInv
<1> SUFFICES ASSUME Files!Init PROVE FilesInv
  OBVIOUS
<1>1. base = <<>> /\ path = <<>> /\ file = <<>> /\ filePath = <<>> /\ copying = ""
  BY DEF Files!Init
<1>2. <<>> \in Seq(FileGroups) /\ Len(<<>>) = 0 /\ DOMAIN <<>> = 1 .. Len(<<>>)
  BY EmptySeq, LenProperties
<1>3. DOMAIN <<>> = {}
  BY <1>2
<1>4. QED
  BY <1>1, <1>2, <1>3 DEF FilesInv

\* Where both objects are.
LEMMA BothPlaces ==
  ASSUME InCopy, copying \in {"save", "load"}
  PROVE  /\ From \in Seq(FileGroups) /\ Onto \in Seq(FileGroups)
         /\ From \o filePath = IF copying = "save" THEN path ELSE filePath
         /\ Onto \o filePath = IF copying = "save" THEN filePath ELSE path
<1>1. <<>> \in Seq(FileGroups) /\ home \in Seq(FileGroups) /\ filePath \in Seq(FileGroups)
      /\ path = home \o filePath
  BY EmptySeq DEF InCopy
<1>2. <<>> \o filePath = filePath
  BY <1>1, ConcatEmptySeq
<1>3. QED
  BY <1>1, <1>2 DEF From, Onto

\* A group with a value somewhere inside it is seen from the group around it.
LEMMA SeenFromAround ==
  ASSUME NEW from \in Seq(FileGroups), NEW p \in Seq(FileGroups), NEW q \in Seq(FileGroups),
         Len(p) < Len(q), \A j \in 1 .. Len(p) : q[j] = p[j],
         NEW store_, NEW key, <<from \o q, key>> \in DOMAIN store_
  PROVE  q[Len(p) + 1] \in Files!GetGroups(store_, from \o p)
<1> DEFINE g == q[Len(p) + 1]
           r == from \o p
           s == Append(r, g)
           t == from \o q
<1>1. PICK l \in Nat, m \in Nat, n \in Nat : Len(from) = l /\ Len(p) = m /\ Len(q) = n
  BY LenProperties
<1>2. g \in FileGroups
  BY <1>1, ElementOfSeq
<1>3. /\ r \in Seq(FileGroups) /\ Len(r) = l + m
      /\ \A i \in 1 .. l + m : r[i] = IF i <= l THEN from[i] ELSE p[i - l]
  BY <1>1, ConcatProperties
<1>4. /\ t \in Seq(FileGroups) /\ Len(t) = l + n
      /\ \A i \in 1 .. l + n : t[i] = IF i <= l THEN from[i] ELSE q[i - l]
  BY <1>1, ConcatProperties
<1> HIDE DEF g, r, t
<1>5. /\ s \in Seq(FileGroups) /\ Len(s) = l + m + 1
      /\ \A i \in 1 .. l + m : s[i] = r[i]
      /\ s[l + m + 1] = g
  <2>1. /\ s \in Seq(FileGroups) /\ Len(s) = Len(r) + 1
        /\ \A i \in 1 .. Len(r) : s[i] = r[i]
        /\ s[Len(r) + 1] = g
    BY <1>2, <1>3, AppendProperties
  <2> HIDE DEF s
  <2>2. QED
    BY <1>3, <2>1
<1> HIDE DEF s
<1>6. Len(s) <= Len(t) /\ Len(s) \in Nat /\ Len(t) \in Nat
  BY <1>1, <1>4, <1>5
<1>7. \A i \in 1 .. Len(s) : s[i] = t[i]
  <2>1. ASSUME NEW i \in 1 .. l + m PROVE s[i] = t[i]
    <3>1. s[i] = IF i <= l THEN from[i] ELSE p[i - l]
      BY <1>3, <1>5
    <3>2. i \in 1 .. l + n /\ (i > l => i - l \in 1 .. m)
      BY <1>1
    <3>3. t[i] = IF i <= l THEN from[i] ELSE q[i - l]
      BY <1>4, <3>2
    <3>4. i > l => q[i - l] = p[i - l]
      BY <1>1, <3>2
    <3>5. QED
      BY <3>1, <3>2, <3>3, <3>4
  <2>2. s[l + m + 1] = t[l + m + 1]
    <3>1. l + m + 1 \in 1 .. l + n /\ ~(l + m + 1 <= l) /\ l + m + 1 - l = m + 1
      BY <1>1
    <3>2. t[l + m + 1] = q[m + 1]
      BY <1>4, <3>1
    <3>3. QED
      BY <1>1, <1>5, <3>2 DEF g
  <2>3. \A i \in 1 .. l + m + 1 : i \in 1 .. l + m \/ i = l + m + 1
    OBVIOUS
  <2>4. QED
    BY <1>5, <2>1, <2>2, <2>3
<1>8. SubSeq(s, 1, Len(s)) = SubSeq(t, 1, Len(s))
  <2>1. /\ SubSeq(s, 1, Len(s)) \in Seq(FileGroups)
        /\ Len(SubSeq(s, 1, Len(s))) = IF 1 <= Len(s) THEN Len(s) - 1 + 1 ELSE 0
        /\ \A i \in 1 .. Len(s) - 1 + 1 : SubSeq(s, 1, Len(s))[i] = s[1 + i - 1]
    BY <1>5, <1>6, ElementOfSeq, SubSeqProperties
  <2>2. /\ SubSeq(t, 1, Len(s)) \in Seq(FileGroups)
        /\ Len(SubSeq(t, 1, Len(s))) = IF 1 <= Len(s) THEN Len(s) - 1 + 1 ELSE 0
        /\ \A i \in 1 .. Len(s) - 1 + 1 : SubSeq(t, 1, Len(s))[i] = t[1 + i - 1]
    <3>1. \A i \in 1 .. Len(s) : t[i] \in FileGroups
      BY <1>4, <1>6, ElementOfSeq
    <3>2. QED
      BY <1>6, <3>1, SubSeqProperties
  <2>3. /\ Len(SubSeq(s, 1, Len(s))) = Len(s) /\ Len(SubSeq(t, 1, Len(s))) = Len(s)
        /\ \A i \in 1 .. Len(s) : SubSeq(s, 1, Len(s))[i] = s[i] /\ SubSeq(t, 1, Len(s))[i] = t[i]
    BY <1>6, <2>1, <2>2
  <2>4. QED
    BY <1>7, <2>1, <2>2, <2>3, SeqEqual
<1>9. Files!IsPrefix(s, t)
  BY <1>6, <1>8 DEF Files!IsPrefix
<1>10. <<t, key>> \in DOMAIN store_
  BY DEF t
<1>11. QED
  BY <1>2, <1>9, <1>10 DEF Files!GetGroups, g, r, s, t

\* A copy goes on where it is, as long as nothing begins or ends to wait.
LEMMA CopiedKept ==
  ASSUME CopiedSoFar, UNCHANGED <<copying, home, base, file, source, target>>,
         DOMAIN target \subseteq FilePlaces,
         \A group \in Seq(FileGroups), key \in FileKeys :
           <<From \o group, key>> \in DOMAIN source => (Waits(group, key)' <=> Waits(group, key))
  PROVE  CopiedSoFar'
<1>1. From' = From /\ Onto' = Onto /\ Written' = Written
  BY DEF From, Onto, Written
<1>2. \A group \in Seq(FileGroups), key \in FileKeys : WasCopied(group, key)' <=> WasCopied(group, key)
  BY <1>1 DEF WasCopied
<1>3. ASSUME NEW p \in FilePlaces PROVE IsCopied(p)' <=> IsCopied(p)
  <2>1. p[2] \in FileKeys
    BY DEF FilePlaces
  <2>2. QED
    BY <1>1, <1>2, <2>1 DEF IsCopied
<1>4. \A p \in FilePlaces : p \in DOMAIN Written' <=> p \in DOMAIN target' \/ IsCopied(p)'
  BY <1>1, <1>3 DEF CopiedSoFar
<1>5. \A group \in Seq(FileGroups), key \in FileKeys :
        WasCopied(group, key)' => Written'[<<Onto' \o group, key>>] = source'[<<From' \o group, key>>]
  BY <1>1, <1>2 DEF CopiedSoFar
<1>6. \A p \in DOMAIN target' : ~IsCopied(p)' => Written'[p] = target'[p]
  BY <1>1, <1>3 DEF CopiedSoFar
<1>7. QED
  BY <1>4, <1>5, <1>6 DEF CopiedSoFar

\* When Copy() begins, all of the source waits.
LEMMA AllWaits ==
  ASSUME From' \in Seq(FileGroups), filePath' = <<>>, frames' = <<Files!Frame(source', From')>>,
         NEW group \in Seq(FileGroups), NEW key \in FileKeys, <<From' \o group, key>> \in DOMAIN source'
  PROVE  Waits(group, key)'
<1>1. Len(frames') = 1 /\ frames'[1] = Files!Frame(source', From')
  OBVIOUS
<1>2. From' \o <<>> = From' /\ <<>> \in Seq(FileGroups) /\ Len(<<>>) = 0
  BY ConcatEmptySeq, EmptySeq
<1>3. CASE group = <<>>
  <2>1. key \in Files!GetKeys(source', From')
    BY <1>2, <1>3 DEF Files!GetKeys
  <2>2. QED
    BY <1>1, <1>3, <2>1 DEF Waits, Files!Frame
<1>4. CASE group # <<>>
  <2>1. Len(group) \in Nat /\ Len(group) # 0
    BY <1>4, EmptySeq, LenProperties
  <2>2. PICK p \in Seq(FileGroups) : p = <<>> /\ Len(p) = 0 /\ From' \o p = From'
    BY <1>2
  <2>3. group[Len(p) + 1] \in Files!GetGroups(source', From' \o p)
    <3>1. PICK from, store_ : from = From' /\ store_ = source' /\ from \in Seq(FileGroups)
      OBVIOUS
    <3>2. Len(p) < Len(group) /\ \A j \in 1 .. Len(p) : group[j] = p[j]
      BY <2>1, <2>2
    <3>3. <<from \o group, key>> \in DOMAIN store_
      BY <3>1
    <3>4. group[Len(p) + 1] \in Files!GetGroups(store_, from \o p)
      BY <3>1, <3>2, <3>3, SeenFromAround
    <3>5. QED
      BY <3>1, <3>4
  <2>4. group[1] \in frames'[1].groups
    BY <1>1, <2>2, <2>3 DEF Files!Frame
  <2>5. QED
    BY <1>1, <2>1, <2>4 DEF Waits
<1>5. QED
  BY <1>3, <1>4

\* What Save() and Load() have in common.
LEMMA CopyBegins ==
  ASSUME FilesInv, Files!Save \/ Files!Load
  PROVE  FilesInv'
<1>1. copying = "" /\ filePath = <<>> /\ path \in Seq(FileGroups)
  BY DEF FilesInv, Files!Save, Files!Load, Files!Idle
<1>2. /\ copying' \in {"save", "load"} /\ path' = path /\ home' = path /\ filePath' = <<>>
      /\ base' = base /\ frames' = <<Files!Frame(source', From')>>
      /\ source' = IF copying' = "save" THEN base' ELSE file'
      /\ target' = Written'
      /\ (file' = <<>> \/ file' = file)
  <2>1. CASE Files!Save
    BY <2>1 DEF Files!Save, From, Written
  <2>2. CASE Files!Load
    BY <1>1, <2>2 DEF Files!Load, From, Written
  <2>3. QED
    BY <2>1, <2>2
<1>3. <<>> \in Seq(FileGroups) /\ Len(<<>>) = 0 /\ path \o <<>> = path /\ DOMAIN <<>> = 1 .. Len(<<>>)
  BY <1>1, EmptySeq, ConcatEmptySeq, LenProperties
<1>4. DOMAIN base' \subseteq FilePlaces /\ DOMAIN file' \subseteq FilePlaces
  <2>1. DOMAIN <<>> = {}
    BY <1>3
  <2>2. QED
    BY <1>2, <2>1 DEF FilesInv
<1>5. DOMAIN target' \subseteq FilePlaces /\ DOMAIN source' \subseteq FilePlaces
  BY <1>2, <1>4 DEF Written
<1>6. From' \in Seq(FileGroups) /\ From' \o <<>> = From'
  BY <1>1, <1>2, <1>3, ConcatEmptySeq DEF From
<1>7. InCopy'
  <2>1. Files!Frame(source', From') \in [keys : SUBSET FileKeys, groups : SUBSET FileGroups]
    BY DEF Files!Frame, Files!GetKeys, Files!GetGroups
  <2>2. /\ frames' \in Seq([keys : SUBSET FileKeys, groups : SUBSET FileGroups])
        /\ Len(frames') = 1 /\ frames'[1] = Files!Frame(source', From')
    BY <1>2, <2>1
  <2>3. \A key \in frames'[1].keys : <<From' \o <<>>, key>> \in DOMAIN source'
    <3>1. frames'[1].keys = Files!GetKeys(source', From')
      BY <2>2 DEF Files!Frame
    <3>2. \A key \in frames'[1].keys : <<From', key>> \in DOMAIN source'
      BY <3>1 DEF Files!GetKeys
    <3>3. QED
      BY <1>6, <3>2
  <2>4. Len(filePath') = 0 /\ Len(frames') = Len(filePath') + 1
    BY <1>2, <1>3, <2>2
  <2>5. \A key \in frames'[Len(frames')].keys : <<From' \o filePath', key>> \in DOMAIN source'
    BY <1>2, <2>2, <2>3
  <2>6. home' \in Seq(FileGroups) /\ filePath' \in Seq(FileGroups) /\ path' = home' \o filePath'
    BY <1>1, <1>2, <1>3
  <2>7. \A i \in 1 .. Len(filePath') : frames'[i].keys = {} /\ filePath'[i] \notin frames'[i].groups
    BY <2>4
  <2>8. source' = IF copying' = "save" THEN base' ELSE file'
    BY <1>2
  <2>9. copying' = "save" => target' = <<>>
    BY DEF Files!Save, Files!Load
  <2>10. QED
    BY <1>5, <2>2, <2>4, <2>5, <2>6, <2>7, <2>8, <2>9 DEF InCopy
<1>8. CopiedSoFar'
  <2>1. \A group \in Seq(FileGroups), key \in FileKeys : ~WasCopied(group, key)'
    BY <1>2, <1>6, AllWaits DEF WasCopied
  <2>2. \A p \in FilePlaces : ~IsCopied(p)'
    <3>1. \A p \in FilePlaces : p[2] \in FileKeys
      BY DEF FilePlaces
    <3>2. QED
      BY <2>1, <3>1 DEF IsCopied
  <2>3. QED
    BY <1>2, <2>1, <2>2 DEF CopiedSoFar
<1>9. QED
  BY <1>1, <1>2, <1>4, <1>7, <1>8 DEF FilesInv

\* The calls of Copy(): those around the newest have copied all their keys.
LEMMA FramesTyped ==
  ASSUME InCopy
  PROVE  \E n \in Nat :
           /\ Len(filePath) = n /\ Len(frames) = n + 1 /\ Files!Last(frames) = frames[n + 1]
           /\ frames \in Seq([keys : SUBSET FileKeys, groups : SUBSET FileGroups])
           /\ \A i \in 1 .. n + 1 : frames[i] \in [keys : SUBSET FileKeys, groups : SUBSET FileGroups]
<1>1. PICK n \in Nat : Len(filePath) = n
  BY LenProperties DEF InCopy
<1>2. Len(frames) = n + 1 /\ frames \in Seq([keys : SUBSET FileKeys, groups : SUBSET FileGroups])
  BY <1>1 DEF InCopy
<1>3. \A i \in 1 .. n + 1 : frames[i] \in [keys : SUBSET FileKeys, groups : SUBSET FileGroups]
  BY <1>2, ElementOfSeq
<1>4. QED
  BY <1>1, <1>2, <1>3 DEF Files!Last

\* Copying a value: only this place ends to wait.
LEMMA KeyCopied ==
  ASSUME FilesInv, NEW key \in FileKeys, Files!CopyKey(key)
  PROVE  FilesInv'
<1>1. copying \in {"save", "load"} /\ InCopy /\ CopiedSoFar
  BY DEF FilesInv, Files!CopyKey, Files!Idle
<1>2. PICK n \in Nat :
        /\ Len(filePath) = n /\ Len(frames) = n + 1 /\ Files!Last(frames) = frames[n + 1]
        /\ frames \in Seq([keys : SUBSET FileKeys, groups : SUBSET FileGroups])
        /\ \A i \in 1 .. n + 1 : frames[i] \in [keys : SUBSET FileKeys, groups : SUBSET FileGroups]
  BY <1>1, FramesTyped
<1>3. /\ copying' = copying /\ home' = home /\ source' = source /\ target' = target
      /\ path' = path /\ filePath' = filePath /\ key \in frames[n + 1].keys
      /\ frames' = [frames EXCEPT ![n + 1].keys = @ \ {key}]
  BY <1>2 DEF Files!CopyKey
<1>4. From' = From /\ Onto' = Onto
  BY <1>3 DEF From, Onto
<1>5. /\ From \in Seq(FileGroups) /\ Onto \in Seq(FileGroups) /\ filePath \in Seq(FileGroups)
      /\ From \o filePath = IF copying = "save" THEN path ELSE filePath
      /\ Onto \o filePath = IF copying = "save" THEN filePath ELSE path
  BY <1>1, BothPlaces DEF InCopy
<1> DEFINE spot == <<Onto \o filePath, key>>
           read  == source[<<From \o filePath, key>>]
<1>6. spot \in FilePlaces
  BY <1>5, ConcatProperties DEF FilePlaces
<1>7. <<From \o filePath, key>> \in DOMAIN source
  BY <1>1, <1>2, <1>3 DEF InCopy
<1>8. /\ IF copying = "save" THEN base' = base ELSE file' = file
      /\ Written' = [p \in DOMAIN Written \cup {spot} |-> IF p = spot THEN read ELSE Written[p]]
  <2>1. CASE copying = "save"
    <3>1. base' = base /\ file' = Files!Stored(file, filePath, key, base[<<path, key>>]) /\ source = base
      BY <2>1, <1>1 DEF Files!CopyKey, InCopy
    <3>2. QED
      BY <2>1, <3>1, <1>3, <1>5 DEF Written, Files!Stored
  <2>2. CASE copying # "save"
    <3>1. file' = file /\ base' = Files!Stored(base, path, key, file[<<filePath, key>>]) /\ source = file
      BY <2>2, <1>1 DEF Files!CopyKey, InCopy
    <3>2. QED
      BY <2>2, <3>1, <1>3, <1>5 DEF Written, Files!Stored
  <2>3. QED
    BY <2>1, <2>2
<1> HIDE DEF read
<1>9. /\ frames' \in Seq([keys : SUBSET FileKeys, groups : SUBSET FileGroups]) /\ Len(frames') = n + 1
      /\ \A i \in 1 .. n : frames'[i] = frames[i]
      /\ frames'[n + 1].groups = frames[n + 1].groups /\ frames'[n + 1].keys = frames[n + 1].keys \ {key}
  <2> DEFINE loop == [frames[n + 1] EXCEPT !.keys = @ \ {key}]
  <2>1. n + 1 \in 1 .. n + 1
    OBVIOUS
  <2>2. loop \in [keys : SUBSET FileKeys, groups : SUBSET FileGroups]
        /\ loop.groups = frames[n + 1].groups /\ loop.keys = frames[n + 1].keys \ {key}
    BY <1>2, <2>1
  <2>3. frames' = [frames EXCEPT ![n + 1] = loop]
    BY <1>3
  <2> HIDE DEF loop
  <2>4. /\ frames' \in Seq([keys : SUBSET FileKeys, groups : SUBSET FileGroups])
        /\ Len(frames') = Len(frames)
        /\ \A j \in 1 .. Len(frames) : frames'[j] = IF j = n + 1 THEN loop ELSE frames[j]
    BY <1>2, <2>1, <2>2, <2>3, ExceptSeq
  <2>5. \A j \in 1 .. n : j \in 1 .. Len(frames) /\ j # n + 1
    BY <1>2
  <2>6. n + 1 \in 1 .. Len(frames)
    BY <1>2
  <2>7. frames'[n + 1] = loop
    BY <2>4, <2>6
  <2>8. QED
    BY <1>2, <2>2, <2>4, <2>5, <2>7
<1>10. ASSUME NEW group \in Seq(FileGroups), NEW k \in FileKeys
       PROVE  Waits(group, k)' <=> Waits(group, k) /\ ~(group = filePath /\ k = key)
  <2>1. \A i \in 1 .. n + 1 : frames'[i].groups = frames[i].groups
    <3>1. \A i \in 1 .. n + 1 : i \in 1 .. n \/ i = n + 1
      OBVIOUS
    <3>2. QED
      BY <1>9, <3>1
  <2>2. group = filePath => ~\E i \in 1 .. n + 1 : i <= Len(group) /\ group[i] \in frames[i].groups
    <3>1. \A i \in 1 .. n + 1 : i <= n => i \in 1 .. n
      OBVIOUS
    <3>2. \A i \in 1 .. n : filePath[i] \notin frames[i].groups
      BY <1>1, <1>2 DEF InCopy
    <3>3. QED
      BY <1>2, <3>1, <3>2
  <2>3. QED
    BY <1>2, <1>3, <1>9, <2>1, <2>2 DEF Waits
<1>11. InCopy'
  <2>1. \A k \in frames'[Len(frames')].keys : <<From' \o filePath', k>> \in DOMAIN source'
    BY <1>1, <1>2, <1>3, <1>4, <1>9 DEF InCopy
  <2>2. \A i \in 1 .. Len(filePath') : frames'[i].keys = {} /\ filePath'[i] \notin frames'[i].groups
    BY <1>1, <1>2, <1>3, <1>9 DEF InCopy
  <2>3. source' = IF copying' = "save" THEN base' ELSE file'
    BY <1>1, <1>3, <1>8 DEF InCopy
  <2>4. QED
    BY <1>1, <1>2, <1>3, <1>9, <2>1, <2>2, <2>3 DEF InCopy
<1>12. CopiedSoFar'
  <2>1. ASSUME NEW group \in Seq(FileGroups), NEW k \in FileKeys
        PROVE  WasCopied(group, k)' <=> WasCopied(group, k) \/ (group = filePath /\ k = key)
    BY <1>3, <1>4, <1>7, <1>10 DEF WasCopied
  <2>2. \A group \in Seq(FileGroups) : Onto \o group = Onto \o filePath => group = filePath
    BY <1>5, ConcatSimplifications
  <2>3. ASSUME NEW p \in FilePlaces PROVE IsCopied(p)' <=> IsCopied(p) \/ p = spot
    <3>1. p[2] \in FileKeys /\ p = <<p[1], p[2]>>
      BY DEF FilePlaces
    <3>2. ASSUME IsCopied(p)' PROVE IsCopied(p) \/ p = spot
      <4>1. PICK group \in Seq(FileGroups) : p[1] = Onto' \o group /\ WasCopied(group, p[2])'
        BY <3>2 DEF IsCopied
      <4>2. WasCopied(group, p[2]) \/ (group = filePath /\ p[2] = key)
        BY <2>1, <3>1, <4>1
      <4>3. QED
        BY <1>4, <3>1, <4>1, <4>2 DEF IsCopied
    <3>3. ASSUME IsCopied(p) PROVE IsCopied(p)'
      <4>1. PICK group \in Seq(FileGroups) : p[1] = Onto \o group /\ WasCopied(group, p[2])
        BY <3>3 DEF IsCopied
      <4>2. WasCopied(group, p[2])'
        BY <2>1, <3>1, <4>1
      <4>3. QED
        BY <1>4, <4>1, <4>2 DEF IsCopied
    <3>4. ASSUME p = spot PROVE IsCopied(p)'
      <4>1. PICK q \in Seq(FileGroups) : q = filePath
        BY <1>5
      <4>2. p[1] = Onto' \o q /\ p[2] = key
        BY <1>4, <3>4, <4>1
      <4>3. WasCopied(q, p[2])'
        BY <2>1, <3>1, <4>1, <4>2
      <4>4. QED
        BY <4>2, <4>3 DEF IsCopied
    <3>5. QED
      BY <3>2, <3>3, <3>4
  <2>4. \A p \in FilePlaces : p \in DOMAIN Written' <=> p \in DOMAIN target' \/ IsCopied(p)'
    BY <1>1, <1>3, <1>8, <2>3 DEF CopiedSoFar
  <2>5. ASSUME NEW group \in Seq(FileGroups), NEW k \in FileKeys, WasCopied(group, k)'
        PROVE  Written'[<<Onto' \o group, k>>] = source'[<<From' \o group, k>>]
    <3>1. CASE group = filePath /\ k = key
      BY <3>1, <1>3, <1>4, <1>8 DEF read
    <3>2. CASE ~(group = filePath /\ k = key)
      <4>1. WasCopied(group, k) /\ <<Onto \o group, k>> # spot
        BY <2>1, <2>2, <2>5, <3>2
      <4>2. <<Onto \o group, k>> \in FilePlaces
        BY <1>5, ConcatProperties DEF FilePlaces
      <4>3. IsCopied(<<Onto \o group, k>>)
        BY <4>1 DEF IsCopied
      <4>4. <<Onto \o group, k>> \in DOMAIN Written
        BY <1>1, <4>2, <4>3 DEF CopiedSoFar
      <4>5. Written[<<Onto \o group, k>>] = source[<<From \o group, k>>]
        BY <1>1, <4>1 DEF CopiedSoFar
      <4>6. QED
        BY <1>3, <1>4, <1>8, <4>1, <4>4, <4>5
    <3>3. QED
      BY <3>1, <3>2
  <2>6. ASSUME NEW p \in DOMAIN target', ~IsCopied(p)' PROVE Written'[p] = target'[p]
    <3>1. p \in DOMAIN target /\ p \in FilePlaces
      BY <1>1, <1>3, <2>6 DEF InCopy
    <3>2. p # spot /\ ~IsCopied(p)
      BY <2>3, <2>6, <3>1
    <3>3. p \in DOMAIN Written /\ Written[p] = target[p]
      BY <1>1, <3>1, <3>2 DEF CopiedSoFar
    <3>4. QED
      BY <1>3, <1>8, <3>2, <3>3
  <2>7. QED
    BY <2>4, <2>5, <2>6 DEF CopiedSoFar
<1>13. DOMAIN base' \subseteq FilePlaces /\ DOMAIN file' \subseteq FilePlaces
  <2>1. DOMAIN Written' \subseteq FilePlaces
    BY <1>6, <1>8 DEF Written, FilesInv
  <2>2. QED
    BY <1>3, <1>8, <2>1 DEF Written, FilesInv
<1>14. QED
  BY <1>1, <1>3, <1>11, <1>12, <1>13 DEF FilesInv

\* Entering a group: what waits in it waits in the new call.
LEMMA GroupEntered ==
  ASSUME FilesInv, NEW g \in FileGroups, Files!EnterGroup(g)
  PROVE  FilesInv'
<1>1. copying \in {"save", "load"} /\ InCopy /\ CopiedSoFar
  BY DEF FilesInv, Files!EnterGroup, Files!Idle
<1>2. PICK n \in Nat :
        /\ Len(filePath) = n /\ Len(frames) = n + 1 /\ Files!Last(frames) = frames[n + 1]
        /\ frames \in Seq([keys : SUBSET FileKeys, groups : SUBSET FileGroups])
        /\ \A i \in 1 .. n + 1 : frames[i] \in [keys : SUBSET FileKeys, groups : SUBSET FileGroups]
  BY <1>1, FramesTyped
<1>3. /\ UNCHANGED <<copying, home, base, file, source, target>>
      /\ path' = Append(path, g) /\ filePath' = Append(filePath, g)
      /\ frames[n + 1].keys = {} /\ g \in frames[n + 1].groups
      /\ frames' = Append([frames EXCEPT ![n + 1].groups = @ \ {g}],
                          IF copying = "save" THEN Files!Frame(base, path') ELSE Files!Frame(file, filePath'))
  BY <1>2 DEF Files!EnterGroup
<1>4. From' = From /\ From \in Seq(FileGroups) /\ filePath \in Seq(FileGroups) /\ home \in Seq(FileGroups)
  BY <1>1, <1>3, BothPlaces DEF From, InCopy
<1>5. path' = home \o filePath'
  <2>1. <<g>> \in Seq(FileGroups) /\ path = home \o filePath /\ path \in Seq(FileGroups)
    BY <1>1, <1>4, ConcatProperties DEF InCopy
  <2>2. path' = path \o <<g>> /\ filePath' = filePath \o <<g>>
    BY <1>3, <1>4, <2>1, AppendIsConcat
  <2>3. QED
    BY <1>4, <2>1, <2>2, ConcatAssociative
<1>6. /\ filePath' \in Seq(FileGroups) /\ Len(filePath') = n + 1
      /\ \A j \in 1 .. n : filePath'[j] = filePath[j]
      /\ filePath'[n + 1] = g
  BY <1>2, <1>3, <1>4, AppendProperties
<1> DEFINE new == Files!Frame(source, From \o filePath')
<1>7. new = IF copying = "save" THEN Files!Frame(base, path') ELSE Files!Frame(file, filePath')
  BY <1>1, <1>5, <1>6, ConcatEmptySeq DEF From, InCopy
<1>8. /\ new \in [keys : SUBSET FileKeys, groups : SUBSET FileGroups]
      /\ new.keys = Files!GetKeys(source, From \o filePath')
      /\ new.groups = Files!GetGroups(source, From \o filePath')
  BY DEF Files!Frame, Files!GetKeys, Files!GetGroups
<1> HIDE DEF new
<1>9. /\ frames' \in Seq([keys : SUBSET FileKeys, groups : SUBSET FileGroups]) /\ Len(frames') = n + 2
      /\ \A i \in 1 .. n : frames'[i] = frames[i]
      /\ frames'[n + 1].groups = frames[n + 1].groups \ {g} /\ frames'[n + 1].keys = {}
      /\ frames'[n + 2] = new
  <2> DEFINE loop == [frames[n + 1] EXCEPT !.groups = @ \ {g}]
             rest == [frames EXCEPT ![n + 1] = loop]
  <2>1. n + 1 \in 1 .. n + 1
    OBVIOUS
  <2>2. loop \in [keys : SUBSET FileKeys, groups : SUBSET FileGroups]
        /\ loop.groups = frames[n + 1].groups \ {g} /\ loop.keys = frames[n + 1].keys
    BY <1>2, <2>1
  <2>3. frames' = Append(rest, new)
    BY <1>3, <1>7
  <2> HIDE DEF loop
  <2>4. /\ rest \in Seq([keys : SUBSET FileKeys, groups : SUBSET FileGroups])
        /\ Len(rest) = Len(frames)
        /\ \A j \in 1 .. Len(frames) : rest[j] = IF j = n + 1 THEN loop ELSE frames[j]
    BY <1>2, <2>1, <2>2, ExceptSeq
  <2> HIDE DEF rest
  <2>5. /\ Append(rest, new) \in Seq([keys : SUBSET FileKeys, groups : SUBSET FileGroups])
        /\ Len(Append(rest, new)) = Len(rest) + 1
        /\ \A j \in 1 .. Len(rest) : Append(rest, new)[j] = rest[j]
        /\ Append(rest, new)[Len(rest) + 1] = new
    BY <1>8, <2>4, AppendProperties
  <2>6. Len(rest) = n + 1 /\ Len(frames) = n + 1
    BY <1>2, <2>4
  <2>7. \A j \in 1 .. n : frames'[j] = frames[j]
    <3>1. \A j \in 1 .. n : j \in 1 .. n + 1 /\ j # n + 1
      OBVIOUS
    <3>2. QED
      BY <2>3, <2>4, <2>5, <2>6, <3>1
  <2>8. frames'[n + 1] = loop
    BY <2>1, <2>3, <2>4, <2>5, <2>6
  <2>9. Len(frames') = n + 2 /\ frames'[n + 2] = new
    <3>1. n + 1 + 1 = n + 2
      OBVIOUS
    <3>2. QED
      BY <2>3, <2>5, <2>6, <3>1
  <2>10. QED
    BY <1>3, <2>2, <2>3, <2>5, <2>7, <2>8, <2>9
<1>10. ASSUME NEW group \in Seq(FileGroups), NEW key \in FileKeys, Waits(group, key)'
       PROVE  Waits(group, key)
  <2>1. PICK m \in Nat : Len(group) = m
    BY LenProperties
  <2>2. SUFFICES \E i \in 1 .. n + 1 : /\ i <= m /\ group[i] \in frames[i].groups
                                       /\ \A j \in 1 .. i - 1 : group[j] = filePath[j]
    BY <1>2, <2>1 DEF Waits
  <2>3. ASSUME m >= n + 1, \A j \in 1 .. n + 1 : group[j] = filePath'[j]
        PROVE  /\ n + 1 <= m /\ group[n + 1] \in frames[n + 1].groups
               /\ \A j \in 1 .. n + 1 - 1 : group[j] = filePath[j]
    BY <1>3, <1>6, <2>3
  <2>4. CASE group = filePath'
    BY <1>6, <2>1, <2>3, <2>4
  <2>5. CASE \E i \in 1 .. n + 2 : /\ i <= m /\ group[i] \in frames'[i].groups
                                   /\ \A j \in 1 .. i - 1 : group[j] = filePath'[j]
    <3>1. PICK i \in 1 .. n + 2 : /\ i <= m /\ group[i] \in frames'[i].groups
                                  /\ \A j \in 1 .. i - 1 : group[j] = filePath'[j]
      BY <2>5
    <3>2. CASE i = n + 2
      BY <2>3, <3>1, <3>2
    <3>3. CASE i <= n + 1
      <4>1. i \in 1 .. n + 1 /\ \A j \in 1 .. i - 1 : j \in 1 .. n
        BY <3>1, <3>3
      <4>2. \A j \in 1 .. i - 1 : group[j] = filePath[j]
        BY <1>6, <3>1, <4>1
      <4>3. group[i] \in frames[i].groups
        <5>1. i \in 1 .. n \/ i = n + 1
          BY <4>1
        <5>2. QED
          BY <1>9, <3>1, <5>1
      <4>4. QED
        BY <3>1, <4>1, <4>2, <4>3
    <3>4. QED
      BY <3>1, <3>2, <3>3
  <2>6. QED
    BY <1>9, <1>10, <2>1, <2>4, <2>5 DEF Waits
<1>11. ASSUME NEW group \in Seq(FileGroups), NEW key \in FileKeys,
              <<From \o group, key>> \in DOMAIN source, Waits(group, key)
       PROVE  Waits(group, key)'
  <2>1. PICK m \in Nat : Len(group) = m
    BY LenProperties
  <2>2. PICK i \in 1 .. n + 1 : /\ i <= m /\ group[i] \in frames[i].groups
                                /\ \A j \in 1 .. i - 1 : group[j] = filePath[j]
    BY <1>2, <1>3, <1>11, <2>1 DEF Waits
  <2>3. \A j \in 1 .. i - 1 : group[j] = filePath'[j]
    <3>1. \A j \in 1 .. i - 1 : j \in 1 .. n
      BY <2>2
    <3>2. QED
      BY <1>6, <2>2, <3>1
  <2>4. ASSUME NEW e \in 1 .. n + 2, e <= m, group[e] \in frames'[e].groups,
               \A j \in 1 .. e - 1 : group[j] = filePath'[j]
        PROVE  Waits(group, key)'
    BY <1>9, <2>1, <2>4 DEF Waits
  <2>5. CASE i <= n \/ group[i] # g
    <3>1. i \in 1 .. n + 2 /\ (i \in 1 .. n \/ i = n + 1)
      OBVIOUS
    <3>2. group[i] \in frames'[i].groups
      <4>1. CASE i \in 1 .. n
        BY <1>9, <2>2, <4>1
      <4>2. CASE i = n + 1
        BY <1>9, <2>2, <2>5, <4>2
      <4>3. QED
        BY <3>1, <4>1, <4>2
    <3>3. QED
      BY <2>2, <2>3, <2>4, <3>1, <3>2
  <2>6. CASE i = n + 1 /\ group[i] = g
    <3>1. m >= n + 1 /\ \A j \in 1 .. n + 1 : group[j] = filePath'[j]
      <4>1. \A j \in 1 .. n + 1 : j \in 1 .. i - 1 \/ j = n + 1
        BY <2>6
      <4>2. QED
        BY <1>6, <2>2, <2>3, <2>6, <4>1
    <3>2. CASE m = n + 1
      <4>1. group = filePath'
        BY <1>6, <2>1, <3>1, <3>2, SeqEqual
      <4>2. key \in new.keys
        BY <1>8, <1>11, <4>1 DEF Files!GetKeys
      <4>3. QED
        BY <1>9, <4>1, <4>2 DEF Waits
    <3>3. CASE m # n + 1
      <4>1. PICK p \in Seq(FileGroups) : p = filePath' /\ Len(p) = n + 1
        BY <1>6
      <4>2. Len(p) < Len(group) /\ \A j \in 1 .. Len(p) : group[j] = p[j]
        BY <2>1, <3>1, <3>3, <4>1
      <4>3. group[Len(p) + 1] \in Files!GetGroups(source, From \o p)
        BY <1>4, <1>11, <4>2, SeenFromAround
      <4>4. n + 1 + 1 = n + 2 /\ n + 2 - 1 = n + 1 /\ n + 2 \in 1 .. n + 2
        OBVIOUS
      <4>5. group[n + 2] \in frames'[n + 2].groups
        BY <1>8, <1>9, <4>1, <4>3, <4>4
      <4>6. n + 2 <= m
        BY <3>1, <3>3
      <4>7. QED
        BY <2>4, <3>1, <4>4, <4>5, <4>6
    <3>4. QED
      BY <3>2, <3>3
  <2>7. QED
    BY <2>2, <2>5, <2>6
<1>12. CopiedSoFar'
  BY <1>1, <1>3, <1>10, <1>11, CopiedKept DEF InCopy
<1>13. InCopy'
  <2>1. ASSUME NEW i \in 1 .. n + 1 PROVE frames'[i].keys = {} /\ filePath'[i] \notin frames'[i].groups
    <3>1. i \in 1 .. n \/ i = n + 1
      OBVIOUS
    <3>2. i \in 1 .. n => frames[i].keys = {} /\ filePath[i] \notin frames[i].groups
      BY <1>1, <1>2 DEF InCopy
    <3>3. QED
      BY <1>6, <1>9, <3>1, <3>2
  <2>2. \A key \in new.keys : <<From \o filePath', key>> \in DOMAIN source
    BY <1>8 DEF Files!GetKeys
  <2>3. n + 2 = n + 1 + 1
    OBVIOUS
  <2>4. \A i \in 1 .. Len(filePath') : frames'[i].keys = {} /\ filePath'[i] \notin frames'[i].groups
    BY <1>6, <2>1
  <2>5. \A key \in frames'[Len(frames')].keys : <<From' \o filePath', key>> \in DOMAIN source'
    BY <1>3, <1>4, <1>9, <2>2
  <2>6. /\ source' = IF copying' = "save" THEN base' ELSE file'
        /\ copying' = "save" => target' = <<>>
    BY <1>1, <1>3 DEF InCopy
  <2>7. home' \in Seq(FileGroups) /\ DOMAIN target' \subseteq FilePlaces
    BY <1>1, <1>3 DEF InCopy
  <2>8. path' = home' \o filePath' /\ Len(frames') = Len(filePath') + 1
    BY <1>3, <1>5, <1>6, <1>9, <2>3
  <2>9. QED
    BY <1>6, <1>9, <2>4, <2>5, <2>6, <2>7, <2>8 DEF InCopy
<1>14. path' \in Seq(FileGroups)
  BY <1>4, <1>5, <1>6, ConcatProperties
<1>15. QED
  BY <1>1, <1>3, <1>12, <1>13, <1>14 DEF FilesInv

\* The same by the length that is left.
LEMMA FrontShorter ==
  ASSUME NEW S, NEW s \in Seq(S), NEW n \in Nat, Len(s) = n + 1
  PROVE  Front(s) \in Seq(S) /\ Len(Front(s)) = n /\ \A i \in 1 .. n : Front(s)[i] = s[i]
<1>1. s # <<>> /\ n + 1 - 1 = n
  BY EmptySeq
<1>2. /\ Front(s) \in Seq(S) /\ Len(Front(s)) = Len(s) - 1
      /\ \A i \in 1 .. Len(s) - 1 : Front(s)[i] = s[i]
  BY <1>1, FrontProperties
<1>3. QED
  BY <1>1, <1>2

\* All of a sequence but its last element, behind another sequence.
LEMMA FrontOfConcat ==
  ASSUME NEW S, NEW s \in Seq(S), NEW t \in Seq(S), t # <<>>
  PROVE  Front(s \o t) = s \o Front(t)
<1> DEFINE r == s \o t
           u == Front(t)
           v == s \o u
<1>1. PICK l \in Nat, m \in Nat : Len(s) = l /\ Len(t) = m + 1
  <2>1. Len(s) \in Nat /\ Len(t) - 1 \in Nat /\ Len(t) = (Len(t) - 1) + 1
    BY LenProperties, EmptySeq
  <2>2. QED
    BY <2>1
<1>2. u \in Seq(S) /\ Len(u) = m /\ \A i \in 1 .. m : u[i] = t[i]
  BY <1>1, FrontShorter
<1>3. /\ r \in Seq(S) /\ Len(r) = l + m + 1
      /\ \A i \in 1 .. l + m : r[i] = IF i <= l THEN s[i] ELSE t[i - l]
  <2>1. /\ r \in Seq(S) /\ Len(r) = l + (m + 1)
        /\ \A i \in 1 .. l + (m + 1) : r[i] = IF i <= l THEN s[i] ELSE t[i - l]
    <3>1. /\ r \in Seq(S) /\ Len(r) = Len(s) + Len(t)
          /\ \A i \in 1 .. Len(s) + Len(t) : r[i] = IF i <= Len(s) THEN s[i] ELSE t[i - Len(s)]
      BY ConcatProperties
    <3> HIDE DEF r
    <3>2. QED
      BY <1>1, <3>1
  <2> HIDE DEF r
  <2>2. QED
    BY <2>1
<1> HIDE DEF r, u
<1>4. /\ v \in Seq(S) /\ Len(v) = l + m
      /\ \A i \in 1 .. l + m : v[i] = IF i <= l THEN s[i] ELSE u[i - l]
  BY <1>1, <1>2, ConcatProperties
<1>5. PICK k \in Nat : k = l + m
  OBVIOUS
<1>6. Front(r) \in Seq(S) /\ Len(Front(r)) = k /\ \A i \in 1 .. k : Front(r)[i] = r[i]
  BY <1>3, <1>5, FrontShorter
<1> HIDE DEF v
<1>7. ASSUME NEW i \in 1 .. k PROVE Front(r)[i] = v[i]
  <2>1. i \in 1 .. l + m /\ (i > l => i - l \in 1 .. m)
    BY <1>5
  <2>2. Front(r)[i] = IF i <= l THEN s[i] ELSE t[i - l]
    BY <1>3, <1>6, <2>1
  <2>3. v[i] = IF i <= l THEN s[i] ELSE u[i - l]
    BY <1>4, <2>1
  <2>4. i > l => u[i - l] = t[i - l]
    BY <1>2, <2>1
  <2>5. QED
    BY <2>1, <2>2, <2>3, <2>4
<1>8. Len(v) = k
  BY <1>4, <1>5
<1>9. Front(r) = v
  BY <1>4, <1>6, <1>7, <1>8, SeqEqual
<1>10. QED
  BY <1>9 DEF r, u, v

\* Leaving a group: nothing waits in it any more.
LEMMA GroupLeft ==
  ASSUME FilesInv, Files!LeaveGroup
  PROVE  FilesInv'
<1>1. copying \in {"save", "load"} /\ InCopy /\ CopiedSoFar
  BY DEF FilesInv, Files!LeaveGroup, Files!Idle
<1>2. PICK n \in Nat :
        /\ Len(filePath) = n /\ Len(frames) = n + 1 /\ Files!Last(frames) = frames[n + 1]
        /\ frames \in Seq([keys : SUBSET FileKeys, groups : SUBSET FileGroups])
        /\ \A i \in 1 .. n + 1 : frames[i] \in [keys : SUBSET FileKeys, groups : SUBSET FileGroups]
  BY <1>1, FramesTyped
<1>3. /\ UNCHANGED <<copying, home, base, file, source, target>>
      /\ path' = Front(path) /\ filePath' = Front(filePath) /\ frames' = Front(frames)
      /\ n + 1 > 1 /\ frames[n + 1].keys = {} /\ frames[n + 1].groups = {}
  BY <1>2 DEF Files!LeaveGroup, Files!Outside, Files!Front, Front
<1>4. PICK m \in Nat : n = m + 1
  <2>1. n - 1 \in Nat /\ n = (n - 1) + 1
    BY <1>3
  <2>2. QED
    BY <2>1
<1>5. From' = From /\ home \in Seq(FileGroups) /\ filePath \in Seq(FileGroups) /\ filePath # <<>>
  BY <1>1, <1>2, <1>3, EmptySeq DEF From, InCopy
<1>6. /\ filePath' \in Seq(FileGroups) /\ Len(filePath') = m
      /\ \A i \in 1 .. m : filePath'[i] = filePath[i]
  <2>1. filePath \in Seq(FileGroups) /\ Len(filePath) = m + 1
    BY <1>2, <1>4, <1>5
  <2>2. /\ Front(filePath) \in Seq(FileGroups) /\ Len(Front(filePath)) = m
        /\ \A i \in 1 .. m : Front(filePath)[i] = filePath[i]
    BY <2>1, FrontShorter
  <2>3. QED
    BY <1>3, <2>2
<1>7. /\ frames' \in Seq([keys : SUBSET FileKeys, groups : SUBSET FileGroups]) /\ Len(frames') = m + 1
      /\ \A i \in 1 .. m + 1 : frames'[i] = frames[i]
  <2>1. Front(frames) \in Seq([keys : SUBSET FileKeys, groups : SUBSET FileGroups])
        /\ Len(Front(frames)) = n /\ \A i \in 1 .. n : Front(frames)[i] = frames[i]
    BY <1>2, FrontShorter
  <2>2. QED
    BY <1>3, <1>4, <2>1
<1>8. path' = home' \o filePath' /\ path' \in Seq(FileGroups)
  <2>1. path' = home \o filePath'
    BY <1>1, <1>3, <1>5, FrontOfConcat DEF InCopy
  <2>2. home \o filePath' \in Seq(FileGroups)
    BY <1>5, <1>6, ConcatProperties
  <2>3. QED
    BY <1>3, <2>1, <2>2
<1>9. \A i \in 1 .. m + 1 : frames[i].keys = {} /\ filePath[i] \notin frames[i].groups
  BY <1>1, <1>2, <1>4 DEF InCopy
<1>10. ASSUME NEW group \in Seq(FileGroups), NEW key \in FileKeys
       PROVE  Waits(group, key)' <=> Waits(group, key)
  <2>1. Waits(group, key) <=>
          \E i \in 1 .. m + 2 : /\ i <= Len(group) /\ group[i] \in frames[i].groups
                                /\ \A j \in 1 .. i - 1 : group[j] = filePath[j]
    <3>1. n + 1 = m + 2
      BY <1>4
    <3>2. QED
      BY <1>2, <1>3, <3>1 DEF Waits
  <2>2. Waits(group, key)' <=>
          \E i \in 1 .. m + 1 : /\ i <= Len(group) /\ group[i] \in frames'[i].groups
                                /\ \A j \in 1 .. i - 1 : group[j] = filePath'[j]
    <3>1. m + 1 \in 1 .. m + 1
      OBVIOUS
    <3>2. frames'[m + 1].keys = {}
      BY <1>7, <1>9, <3>1
    <3>3. QED
      BY <1>7, <3>2 DEF Waits
  <2>3. \A i \in 1 .. m + 2 : i \in 1 .. m + 1 \/ frames[i].groups = {}
    <3>1. \A i \in 1 .. m + 2 : i \in 1 .. m + 1 \/ i = n + 1
      BY <1>4
    <3>2. QED
      BY <1>3, <3>1
  <2>4. ASSUME NEW i \in 1 .. m + 1
        PROVE  /\ i \in 1 .. m + 2 /\ frames'[i].groups = frames[i].groups
               /\ \A j \in 1 .. i - 1 : filePath'[j] = filePath[j]
    <3>1. i \in 1 .. m + 2 /\ \A j \in 1 .. i - 1 : j \in 1 .. m
      OBVIOUS
    <3>2. QED
      BY <1>6, <1>7, <3>1
  <2>5. ASSUME Waits(group, key) PROVE Waits(group, key)'
    <3>1. PICK i \in 1 .. m + 2 : /\ i <= Len(group) /\ group[i] \in frames[i].groups
                                  /\ \A j \in 1 .. i - 1 : group[j] = filePath[j]
      BY <2>1, <2>5
    <3>2. i \in 1 .. m + 1
      BY <2>3, <3>1
    <3>3. QED
      BY <2>2, <2>4, <3>1, <3>2
  <2>6. ASSUME Waits(group, key)' PROVE Waits(group, key)
    <3>1. PICK i \in 1 .. m + 1 : /\ i <= Len(group) /\ group[i] \in frames'[i].groups
                                  /\ \A j \in 1 .. i - 1 : group[j] = filePath'[j]
      BY <2>2, <2>6
    <3>2. QED
      BY <2>1, <2>4, <3>1
  <2>7. QED
    BY <2>5, <2>6
<1>11. CopiedSoFar'
  BY <1>1, <1>3, <1>10, CopiedKept DEF InCopy
<1>12. InCopy'
  <2>1. \A i \in 1 .. Len(filePath') : frames'[i].keys = {} /\ filePath'[i] \notin frames'[i].groups
    <3>1. \A i \in 1 .. m : i \in 1 .. m + 1
      OBVIOUS
    <3>2. QED
      BY <1>6, <1>7, <1>9, <3>1
  <2>2. \A key \in frames'[Len(frames')].keys : <<From' \o filePath', key>> \in DOMAIN source'
    <3>1. m + 1 \in 1 .. m + 1
      OBVIOUS
    <3>2. QED
      BY <1>7, <1>9, <3>1
  <2>3. /\ home' \in Seq(FileGroups) /\ DOMAIN target' \subseteq FilePlaces
        /\ source' = IF copying' = "save" THEN base' ELSE file'
        /\ copying' = "save" => target' = <<>>
    BY <1>1, <1>3 DEF InCopy
  <2>4. QED
    BY <1>6, <1>7, <1>8, <2>1, <2>2, <2>3 DEF InCopy
<1>13. QED
  BY <1>1, <1>3, <1>8, <1>11, <1>12 DEF FilesInv

\* A step of the client while nothing is copied.
LEMMA ClientOfFiles ==
  ASSUME FilesInv, copying = "", copying' = "", UNCHANGED <<file, filePath>>,
         path' \in Seq(FileGroups), DOMAIN base' \subseteq FilePlaces
  PROVE  FilesInv'
  BY DEF FilesInv

LEMMA FilesStep == FilesInv /\ [Files!Next]_Files!vars => FilesInv'
<1> SUFFICES ASSUME FilesInv, [Files!Next]_Files!vars PROVE FilesInv'
  OBVIOUS
<1>1. path \in Seq(FileGroups) /\ DOMAIN base \subseteq FilePlaces
  BY DEF FilesInv
<1>2. ASSUME NEW g \in FileGroups, Files!BeginGroup(g) PROVE FilesInv'
  <2>1. path' \in Seq(FileGroups)
    BY <1>1, <1>2, AppendProperties DEF Files!BeginGroup
  <2>2. QED
    BY <1>1, <1>2, <2>1, ClientOfFiles DEF Files!BeginGroup, Files!Idle
<1>3. CASE Files!EndGroup
  <2>1. path' \in Seq(FileGroups)
    BY <1>1, <1>3, FrontProperties DEF Files!EndGroup, Files!Front, Front
  <2>2. QED
    BY <1>1, <1>3, <2>1, ClientOfFiles DEF Files!EndGroup, Files!Idle
<1>4. ASSUME NEW key \in FileKeys, NEW decorated \in BOOLEAN, NEW new \in FileValues,
             Files!Set(key, new, decorated)
      PROVE  FilesInv'
  <2>1. <<path, key>> \in FilePlaces
    BY <1>1 DEF FilePlaces
  <2>2. DOMAIN base' \subseteq FilePlaces
    BY <1>1, <1>4, <2>1 DEF Files!Set, Files!Stored
  <2>3. QED
    BY <1>1, <1>4, <2>2, ClientOfFiles DEF Files!Set, Files!Idle
<1>5. ASSUME NEW key \in FileKeys, NEW decorated \in BOOLEAN, Files!Removing(key, decorated) PROVE FilesInv'
  <2>1. DOMAIN base' \subseteq FilePlaces
    BY <1>1, <1>5 DEF Files!Removing, Files!Without, Files!Restrict
  <2>2. QED
    BY <1>1, <1>5, <2>1, ClientOfFiles DEF Files!Removing, Files!Idle
<1>6. CASE Files!Copied
  <2>1. copying \in {"save", "load"} /\ InCopy
    BY <1>6 DEF FilesInv, Files!Copied, Files!Idle
  <2>2. Len(frames) = 1
    BY <1>6 DEF Files!Copied
  <2>3. Len(filePath) = 0 /\ filePath \in Seq(FileGroups)
    BY <2>1, <2>2, LenProperties DEF InCopy
  <2>4. filePath = <<>>
    BY <2>3, EmptySeq
  <2>5. QED
    BY <1>1, <1>6, <2>4 DEF FilesInv, Files!Copied
<1>7. CASE UNCHANGED Files!vars
  <2>1. /\ UNCHANGED <<copying, home, base, file, source, target>>
        /\ path' = path /\ filePath' = filePath /\ frames' = frames
    BY <1>7 DEF Files!vars
  <2>2. From' = From /\ \A group, key : Waits(group, key)' <=> Waits(group, key)
    BY <2>1 DEF From, Waits
  <2>3. InCopy' <=> InCopy
    BY <2>1, <2>2 DEF InCopy
  <2>4. InCopy /\ CopiedSoFar => CopiedSoFar'
    BY <2>1, <2>2, CopiedKept DEF InCopy
  <2>5. QED
    BY <2>1, <2>3, <2>4 DEF FilesInv
<1>8. QED
  BY <1>2, <1>3, <1>4, <1>5, <1>6, <1>7, CopyBegins, KeyCopied, GroupEntered, GroupLeft DEF Files!Next

\* Where a copy of a store puts what is in it: a place inside one group becomes the
\* same place inside the other.
LEMMA PlaceOf ==
  ASSUME NEW p \in FilePlaces
  PROVE  p[1] \in Seq(FileGroups) /\ p[2] \in FileKeys /\ p = <<p[1], p[2]>>
<1>1. ASSUME NEW S, NEW T, NEW q \in S \X T PROVE q[1] \in S /\ q[2] \in T /\ q = <<q[1], q[2]>>
  OBVIOUS
<1>2. QED
  BY <1>1 DEF FilePlaces

LEMMA BehindPrefix ==
  ASSUME NEW from \in Seq(FileGroups), NEW group \in Seq(FileGroups)
  PROVE  /\ Files!IsPrefix(from, from \o group)
         /\ SubSeq(from \o group, Len(from) + 1, Len(from \o group)) = group
<1> DEFINE t == from \o group
<1>1. PICK l \in Nat, m \in Nat : Len(from) = l /\ Len(group) = m
  BY LenProperties
<1>2. t \in Seq(FileGroups) /\ Len(t) = l + m
  BY <1>1, ConcatProperties
<1>3. SubSeq(t, 1, l) = SubSeq(from, 1, l)
  BY <1>1, SubSeqOfConcat1
<1>4. SubSeq(t, l + 1, l + m) = SubSeq(group, 1, m)
  <2>1. SubSeq(t, l + 1, l + m) = SubSeq(group, l + 1 - l, l + m - l)
    BY <1>1, SubSeqOfConcat2
  <2>2. l + 1 - l = 1 /\ l + m - l = m
    OBVIOUS
  <2>3. QED
    BY <2>1, <2>2
<1>5. SubSeq(group, 1, m) = group
  BY <1>1, SubSeqFull
<1> HIDE DEF t
<1>6. Len(from) <= Len(t) /\ SubSeq(from, 1, Len(from)) = SubSeq(t, 1, Len(from))
  BY <1>1, <1>2, <1>3
<1>7. SubSeq(t, Len(from) + 1, Len(t)) = group
  BY <1>1, <1>2, <1>4, <1>5
<1>8. QED
  BY <1>6, <1>7 DEF Files!IsPrefix, t

LEMMA PrefixBehind ==
  ASSUME NEW from \in Seq(FileGroups), NEW t \in Seq(FileGroups), Files!IsPrefix(from, t)
  PROVE  /\ SubSeq(t, Len(from) + 1, Len(t)) \in Seq(FileGroups)
         /\ t = from \o SubSeq(t, Len(from) + 1, Len(t))
<1>1. PICK l \in Nat, n \in Nat : Len(from) = l /\ Len(t) = n
  BY LenProperties
<1>2. l <= n /\ SubSeq(from, 1, l) = SubSeq(t, 1, l)
  BY <1>1 DEF Files!IsPrefix
<1>3. SubSeq(from, 1, l) = from /\ SubSeq(t, 1, n) = t
  BY <1>1, SubSeqFull
<1>4. SubSeq(t, 1, l) \o SubSeq(t, l + 1, n) = SubSeq(t, 1, n)
  <2>1. 1 \in 1 .. n + 1 /\ l \in 1 - 1 .. n /\ n \in l .. Len(t)
    BY <1>1, <1>2
  <2>2. QED
    BY <1>1, <1>2, <2>1, ConcatAdjacentSubSeq
<1>5. SubSeq(t, l + 1, n) \in Seq(FileGroups)
  <2>1. \A i \in l + 1 .. n : t[i] \in FileGroups
    BY <1>1, ElementOfSeq
  <2>2. QED
    BY <2>1, <1>1, SubSeqProperties
<1>6. QED
  BY <1>1, <1>2, <1>3, <1>4, <1>5

IsMoved(c, store_, from, to) ==
  \E group \in Seq(FileGroups), key \in FileKeys :
    /\ <<from \o group, key>> \in DOMAIN store_
    /\ c = <<to \o group, key, store_[<<from \o group, key>>]>>

LEMMA MovedIs ==
  ASSUME NEW store_, DOMAIN store_ \subseteq FilePlaces,
         NEW from \in Seq(FileGroups), NEW to \in Seq(FileGroups), NEW c
  PROVE  c \in Files!Moved(store_, from, to) <=> IsMoved(c, store_, from, to)
<1>1. ASSUME c \in Files!Moved(store_, from, to)
      PROVE  \E group \in Seq(FileGroups), key \in FileKeys :
               /\ <<from \o group, key>> \in DOMAIN store_
               /\ c = <<to \o group, key, store_[<<from \o group, key>>]>>
  <2>1. PICK e \in DOMAIN store_ :
          /\ Files!IsPrefix(from, e[1])
          /\ c = <<to \o SubSeq(e[1], Len(from) + 1, Len(e[1])), e[2], store_[e]>>
    BY <1>1 DEF Files!Moved
  <2>2. e[1] \in Seq(FileGroups) /\ e[2] \in FileKeys /\ e = <<e[1], e[2]>>
    BY PlaceOf
  <2>3. PICK group : group = SubSeq(e[1], Len(from) + 1, Len(e[1]))
    OBVIOUS
  <2>4. group \in Seq(FileGroups) /\ e[1] = from \o group
    BY <2>1, <2>2, <2>3, PrefixBehind
  <2>5. <<from \o group, e[2]>> = e
    BY <2>2, <2>4
  <2>6. QED
    BY <2>1, <2>2, <2>3, <2>4, <2>5
<1>2. ASSUME NEW group \in Seq(FileGroups), NEW key \in FileKeys,
             <<from \o group, key>> \in DOMAIN store_,
             c = <<to \o group, key, store_[<<from \o group, key>>]>>
      PROVE  c \in Files!Moved(store_, from, to)
  <2>1. PICK e : e = <<from \o group, key>>
    OBVIOUS
  <2>2. e \in DOMAIN store_ /\ e[1] = from \o group /\ e[2] = key
    BY <1>2, <2>1
  <2>3. Files!IsPrefix(from, e[1]) /\ SubSeq(e[1], Len(from) + 1, Len(e[1])) = group
    BY <2>2, BehindPrefix
  <2>4. c = <<to \o SubSeq(e[1], Len(from) + 1, Len(e[1])), e[2], store_[e]>>
    BY <1>2, <2>1, <2>2, <2>3
  <2>5. QED
    BY <2>2, <2>3, <2>4 DEF Files!Moved
<1>3. QED
  BY <1>1, <1>2 DEF IsMoved

LEMMA OneOrNone == (\A i \in 1 .. 1 : i = 1) /\ 1 .. 0 = {} /\ \A n \in Nat : n + 1 = 1 => n = 0
  OBVIOUS

\* When nothing is left in any call, nothing waits: all has been copied.
NoneLeft == Len(frames) = 1 /\ frames[1].keys = {} /\ frames[1].groups = {}

LEMMA NothingLeft ==
  ASSUME FilesInv, copying # "", NoneLeft
  PROVE  /\ path = home /\ filePath = <<>>
         /\ copying = "save" => Files!Content(file) = Files!Moved(source, home, <<>>)
         /\ copying = "load" =>
              LET loaded == Files!Moved(source, <<>>, home) IN
              Files!Content(base) =
                loaded \cup {c \in Files!Content(target) : ~\E l \in loaded : l[1] = c[1] /\ l[2] = c[2]}
<1>1. copying \in {"save", "load"} /\ InCopy /\ CopiedSoFar
  BY DEF FilesInv
<1>3. filePath = <<>> /\ path = home /\ home \in Seq(FileGroups)
  <2>1. Len(filePath) = 0 /\ filePath \in Seq(FileGroups) /\ home \in Seq(FileGroups) /\ path = home \o filePath
    <3>1. /\ filePath \in Seq(FileGroups) /\ home \in Seq(FileGroups) /\ path = home \o filePath
          /\ Len(frames) = Len(filePath) + 1
      BY <1>1 DEF InCopy
    <3>2. PICK n \in Nat : Len(filePath) = n
      BY <3>1, LenProperties
    <3>3. n + 1 = 1
      BY <3>1, <3>2 DEF NoneLeft
    <3>4. n = 0
      BY <3>3, OneOrNone
    <3>5. QED
      BY <3>1, <3>2, <3>4
  <2>2. filePath = <<>>
    BY <2>1, EmptySeq
  <2>3. QED
    BY <2>1, <2>2, ConcatEmptySeq
<1>4. ASSUME NEW group \in Seq(FileGroups), NEW key \in FileKeys
      PROVE  WasCopied(group, key) <=> <<From \o group, key>> \in DOMAIN source
  <2>1. \A i \in 1 .. 1 : i = 1
    BY OneOrNone
  <2>2. ~Waits(group, key)
    BY <2>1 DEF Waits, NoneLeft
  <2>3. QED
    BY <2>2 DEF WasCopied
<1>5. /\ From \in Seq(FileGroups) /\ Onto \in Seq(FileGroups)
      /\ DOMAIN source \subseteq FilePlaces /\ DOMAIN target \subseteq FilePlaces
      /\ DOMAIN Written \subseteq FilePlaces
  <2>1. DOMAIN base \subseteq FilePlaces /\ DOMAIN file \subseteq FilePlaces
    BY DEF FilesInv
  <2>2. QED
    BY <1>1, <2>1, BothPlaces DEF InCopy, Written
<1> DEFINE moved == Files!Moved(source, From, Onto)
<1>6. ASSUME NEW c \in moved
      PROVE  /\ <<c[1], c[2]>> \in FilePlaces /\ IsCopied(<<c[1], c[2]>>)
             /\ Written[<<c[1], c[2]>>] = c[3] /\ c = <<c[1], c[2], c[3]>>
  <2>1. PICK group \in Seq(FileGroups), key \in FileKeys :
          /\ <<From \o group, key>> \in DOMAIN source
          /\ c = <<Onto \o group, key, source[<<From \o group, key>>]>>
    <3>1. PICK from, to, store_ :
            /\ from = From /\ to = Onto /\ store_ = source
            /\ from \in Seq(FileGroups) /\ to \in Seq(FileGroups)
      BY <1>5
    <3>2. DOMAIN store_ \subseteq FilePlaces
      BY <1>5, <3>1
    <3>3. c \in Files!Moved(store_, from, to)
      BY <1>6, <3>1
    <3>4. IsMoved(c, store_, from, to)
      BY <3>1, <3>2, <3>3, MovedIs
    <3>5. QED
      BY <3>1, <3>4 DEF IsMoved
  <2>2. PICK p : p = <<Onto \o group, key>>
    OBVIOUS
  <2>3. WasCopied(group, key)
    BY <1>4, <2>1
  <2>4. IsCopied(p)
    BY <2>2, <2>3 DEF IsCopied
  <2>5. Written[p] = source[<<From \o group, key>>]
    BY <1>1, <2>2, <2>3 DEF CopiedSoFar
  <2>6. Onto \o group \in Seq(FileGroups)
    BY <1>5, ConcatProperties
  <2>7. p \in FilePlaces
    BY <2>2, <2>6 DEF FilePlaces
  <2>8. c[1] = Onto \o group /\ c[2] = key /\ c[3] = source[<<From \o group, key>>]
    BY <2>1
  <2>9. QED
    BY <2>1, <2>2, <2>4, <2>5, <2>7, <2>8
<1>7. ASSUME NEW p \in FilePlaces, IsCopied(p) PROVE <<p[1], p[2], Written[p]>> \in moved
  <2>1. p[2] \in FileKeys /\ p = <<p[1], p[2]>>
    BY PlaceOf
  <2>2. PICK group \in Seq(FileGroups) : p[1] = Onto \o group /\ WasCopied(group, p[2])
    BY <1>7 DEF IsCopied
  <2>3. <<From \o group, p[2]>> \in DOMAIN source
    BY <2>2 DEF WasCopied
  <2>4. p = <<Onto \o group, p[2]>>
    BY <2>1, <2>2
  <2>5. Written[p] = source[<<From \o group, p[2]>>]
    BY <1>1, <2>1, <2>2, <2>4 DEF CopiedSoFar
  <2>6. PICK c : c = <<p[1], p[2], Written[p]>>
    OBVIOUS
  <2>7. c = <<Onto \o group, p[2], source[<<From \o group, p[2]>>]>>
    BY <2>2, <2>5, <2>6
  <2>8. c \in moved
    <3>1. IsMoved(c, source, From, Onto)
      BY <2>1, <2>3, <2>7 DEF IsMoved
    <3>2. QED
      BY <1>5, <3>1, MovedIs
  <2>9. QED
    BY <2>6, <2>8
<1>8. Files!Content(Written) =
        moved \cup {c \in Files!Content(target) : ~\E l \in moved : l[1] = c[1] /\ l[2] = c[2]}
  <2> HIDE DEF moved
  <2>1. ASSUME NEW p \in FilePlaces, NEW l \in moved, l[1] = p[1], l[2] = p[2]
        PROVE  IsCopied(p) /\ l = <<p[1], p[2], Written[p]>>
    <3>1. p = <<l[1], l[2]>>
      BY <2>1, PlaceOf
    <3>2. QED
      BY <1>6, <2>1, <3>1
  <2>2. ASSUME NEW p \in FilePlaces, IsCopied(p)
        PROVE  \E l \in moved : l[1] = p[1] /\ l[2] = p[2]
    <3>1. PICK l : l = <<p[1], p[2], Written[p]>>
      OBVIOUS
    <3>2. l \in moved /\ l[1] = p[1] /\ l[2] = p[2]
      BY <1>7, <2>2, <3>1
    <3>3. QED
      BY <3>2
  <2>3. ASSUME NEW p \in DOMAIN Written
        PROVE  <<p[1], p[2], Written[p]>> \in
                 moved \cup {c \in Files!Content(target) : ~\E l \in moved : l[1] = c[1] /\ l[2] = c[2]}
    <3>1. PICK c : c = <<p[1], p[2], Written[p]>>
      OBVIOUS
    <3>2. p \in FilePlaces
      BY <1>5
    <3>3. ASSUME ~IsCopied(p)
          PROVE  c \in Files!Content(target) /\ ~\E l \in moved : l[1] = c[1] /\ l[2] = c[2]
      <4>1. p \in DOMAIN target /\ Written[p] = target[p]
        BY <1>1, <3>2, <3>3 DEF CopiedSoFar
      <4>2. c[1] = p[1] /\ c[2] = p[2]
        BY <3>1
      <4>3. QED
        BY <2>1, <3>1, <3>2, <3>3, <4>1, <4>2 DEF Files!Content
    <3>4. QED
      BY <1>7, <3>1, <3>2, <3>3
  <2>4. ASSUME NEW c \in moved PROVE c \in Files!Content(Written)
    <3>1. PICK p : p = <<c[1], c[2]>>
      OBVIOUS
    <3>2. p \in FilePlaces /\ IsCopied(p) /\ c = <<p[1], p[2], Written[p]>>
      BY <1>6, <3>1
    <3>3. p \in DOMAIN Written
      BY <1>1, <3>2 DEF CopiedSoFar
    <3>4. QED
      BY <3>2, <3>3 DEF Files!Content
  <2>5. ASSUME NEW c \in Files!Content(target), ~\E l \in moved : l[1] = c[1] /\ l[2] = c[2]
        PROVE  c \in Files!Content(Written)
    <3>1. PICK p \in DOMAIN target : c = <<p[1], p[2], target[p]>>
      BY <2>5 DEF Files!Content
    <3>2. p \in FilePlaces /\ c[1] = p[1] /\ c[2] = p[2]
      BY <1>5, <3>1
    <3>3. ~IsCopied(p)
      BY <2>2, <2>5, <3>2
    <3>4. p \in DOMAIN Written /\ Written[p] = target[p]
      BY <1>1, <3>1, <3>2, <3>3 DEF CopiedSoFar
    <3>5. QED
      BY <3>1, <3>4 DEF Files!Content
  <2>6. PICK old, new : old = Files!Content(target) /\ new = Files!Content(Written)
    OBVIOUS
  <2>7. ASSUME NEW c \in new
        PROVE  c \in moved \/ (c \in old /\ ~\E l \in moved : l[1] = c[1] /\ l[2] = c[2])
    <3>1. PICK p \in DOMAIN Written : c = <<p[1], p[2], Written[p]>>
      BY <2>6, <2>7 DEF Files!Content
    <3>2. QED
      BY <2>3, <2>6, <3>1
  <2>8. new = moved \cup {c \in old : ~\E l \in moved : l[1] = c[1] /\ l[2] = c[2]}
    BY <2>4, <2>5, <2>6, <2>7
  <2>9. QED
    BY <2>6, <2>8
<1>9. ASSUME copying = "save" PROVE Files!Content(file) = Files!Moved(source, home, <<>>)
  <2>1. From = home /\ Onto = <<>> /\ Written = file /\ target = <<>>
    BY <1>1, <1>9 DEF From, Onto, Written, InCopy
  <2>2. DOMAIN target = {}
    <3>1. target \in Seq(FileGroups) /\ Len(target) = 0
      BY <2>1, EmptySeq
    <3>2. DOMAIN target = 1 .. 0
      BY <3>1, LenProperties
    <3>3. QED
      BY <3>2, OneOrNone
  <2>3. Files!Content(target) = {}
    BY <2>2 DEF Files!Content
  <2>4. QED
    BY <1>8, <2>1, <2>3
<1>10. ASSUME copying = "load"
       PROVE  /\ Written = base
              /\ moved = Files!Moved(source, <<>>, home)
  BY <1>10 DEF From, Onto, Written
<1>11. QED
  BY <1>3, <1>8, <1>9, <1>10

LEMMA FilesShow == FilesInv => Files!CopiedWhole
<1> SUFFICES ASSUME FilesInv, copying # "", frames = <<[keys |-> {}, groups |-> {}]>>
             PROVE  NoneLeft
  BY NothingLeft DEF Files!CopiedWhole
<1>1. QED
  BY DEF NoneLeft

-----------------------------------------------------------------------------
(* The program                                                               *)

\* The invariant of the component picked.
HelpersInv ==
  /\ part = "stream"    => StreamInv
  /\ part = "sequences" => SequenceInv
  /\ part = "order"     => OrderInv
  /\ part = "sync"      => SyncInv
  /\ part = "progress"  => CounterInv
  /\ part = "platform"  => PlatformInv
  /\ part = "files"     => FilesInv

LEMMA HelpersInitHold == PartInit => HelpersInv
BY StreamInit, SequenceInit, OrderInit, SyncInit, CounterInit, PlatformInit, FilesBegin
   DEF PartInit, HelpersInv

\* One component makes steps, and no step picks another.
PickedHelpers ==
  /\ part' = part
  /\ part = "stream"    => [Stream!Next]_Stream!vars
  /\ part = "sequences" => [Sequence!Next]_Sequence!vars
  /\ part = "order"     => [Order!Next]_Order!vars
  /\ part = "sync"      => [Sync!Next]_Sync!vars
  /\ part = "progress"  => [Counter!Next]_Counter!vars
  /\ part = "platform"  => [Platform!Next]_Platform!vars
  /\ part = "files"     => [Files!Next]_Files!vars

LEMMA HelperSteps == [PartNext]_partVars => PickedHelpers
<1> SUFFICES ASSUME [PartNext]_partVars PROVE PickedHelpers
  OBVIOUS
<1>1. UNCHANGED partVars => PickedHelpers
  BY DEF PickedHelpers, partVars, sharedVars, settingsOnly, vars, observerVars, objectVars,
     streamOnly, Stream!vars, sequenceOnly, Sequence!vars, orderVars, Order!vars, syncOnly,
     Sync!vars, progressOnly, Counter!vars, platformVars, Platform!vars, filesOnly, Files!vars
<1>2. CASE PartNext
  <2>1. part' = part
    BY <1>2 DEF PartNext, partVars, OthersSettings, OthersHeader, OthersRestorable, OthersBar,
       OthersRegistry, OthersConnector, OthersStream, OthersSequence, OthersFiles, OthersOrder,
       OthersSync, OthersCounter, OthersPlatform, OthersDjvu
  <2>2. /\ part = "stream"    => Stream!Next \/ UNCHANGED partVars
        /\ part = "sequences" => Sequence!Next \/ UNCHANGED partVars
        /\ part = "order"     => Order!Next \/ UNCHANGED partVars
        /\ part = "sync"      => Sync!Next \/ UNCHANGED partVars
        /\ part = "progress"  => Counter!Next \/ UNCHANGED partVars
        /\ part = "platform"  => Platform!Next \/ UNCHANGED partVars
        /\ part = "files"     => Files!Next \/ UNCHANGED partVars
    BY <1>2 DEF PartNext
  <2>3. CASE UNCHANGED partVars
    BY <1>1, <2>3
  <2>4. CASE ~UNCHANGED partVars
    BY <2>1, <2>2, <2>4 DEF PickedHelpers
  <2>5. QED
    BY <2>3, <2>4
<1>3. QED
  BY <1>1, <1>2

LEMMA HelpersInvAlways == PartSpec => []HelpersInv
<1>1. HelpersInv /\ [PartNext]_partVars => HelpersInv'
  <2>1. HelpersInv /\ PickedHelpers => HelpersInv'
    BY StreamStep, SequenceStep, OrderStep, SyncStep, CounterStep, PlatformStep, FilesStep
       DEF HelpersInv, PickedHelpers
  <2>2. QED
    BY <2>1, HelperSteps
<1>2. QED
  BY <1>1, HelpersInitHold, PTL DEF PartSpec

\* The helpers give what they promise: a careful client of the stream adapter reads
\* and writes where it is, ranges, intersections and picture sizes are right, strings
\* have an order, the busy indicator tells of calls and escaped tasks, a progress tells
\* its end and Xerces is initialized while somebody uses it; for devices, buffers,
\* sequences, sides, collations, nesting, threads, totals and users of any number.
THEOREM HelpersRightAlways == PartSpec => []HelpersRight
<1>1. HelpersInv => HelpersRight
  BY SequenceInvRight, OrderInvWeak, CounterInvTells, PlatformInvInUse
     DEF HelpersInv, StreamInv, SyncInv, HelpersRight
<1>2. QED
  BY <1>1, HelpersInvAlways, PTL

\* Save() and Load() of settings/Settings.cpp copy whole: when the outermost Copy()
\* has nothing left, the file has exactly what was stored in the current group and
\* inside it, or all values of the file are in the current group and every other
\* value is as it was, and both objects are in the group they were in; for keys,
\* groups and values of any number and groups inside each other to any depth.
THEOREM CopiedWholeAlways == PartSpec => []CopiedWhole
<1>1. HelpersInv => CopiedWhole
  BY FilesShow DEF HelpersInv, CopiedWhole
<1>2. QED
  BY <1>1, HelpersInvAlways, PTL
=============================================================================
