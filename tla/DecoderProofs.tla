---------------------------- MODULE DecoderProofs ----------------------------
(***************************************************************************)
(* Proofs about Packet, Frames and Decoder, for every stream, however it   *)
(* is cut up in reading, and for every checksum.                           *)
(***************************************************************************)
EXTENDS Decoder, SequenceTheorems, WellFoundedInduction, TLAPS

-----------------------------------------------------------------------------
(* The inductive invariant                                                 *)

Stream == Bytes(sent)

\* How much of the stream has left the buffer.
Base == consumed - bufPos

\* The buffer and what has not been read are what is left of the stream.
Buffered ==
  /\ buf \in Seq(Byte) /\ rest \in Seq(Byte)
  /\ Base \in Nat
  /\ Base + Len(buf) + Len(rest) = Len(Stream)
  /\ \A i \in 1..Len(buf) : buf[i] = Stream[Base + i]
  /\ \A i \in 1..Len(rest) : rest[i] = Stream[Base + Len(buf) + i]

\* The place in the stream of the frame being read, or of the next byte.
At == IF state = "magic" THEN Base + bufPos + 1 ELSE Base + frameStart + 1

\* How much of its frame has been passed over in each state.
Passed ==
  CASE state = "flags"   -> 1
    [] state = "length"  -> 2
    [] state = "opcode"  -> HeadLen(flags)
    [] state = "seq"     -> HeadLen(flags) + OpcodeLen(flags)
    [] state = "body"    -> HeadLen(flags) + OpcodeLen(flags) + SeqLen(flags)
    [] state = "crc"     -> HeadLen(flags) + OpcodeLen(flags) + SeqLen(flags) + bodyLen
    [] state = "padding" -> HeadLen(flags) + FieldsLen(flags) + bodyLen

\* What is known of the frame is what the stream says there.
InFrame ==
  /\ state = "magic" => bodyLen = 0
  /\ state # "magic" => Stream[At] = MagicByte /\ bufPos = frameStart + Passed
  /\ state = "flags" => bodyLen = 0
  /\ state = "length" => HasBodyLen(flags) /\ bodyLen = 0
  /\ state \notin {"magic", "flags"} => flags = Stream[At + 1]
  /\ state \in {"opcode", "seq", "body", "crc", "padding"} =>
       bodyLen = LengthAt(Stream, At, flags) - FieldsLen(flags)
  /\ state = "body" => bodyLen > 0

\* The frames returned and those still to be found are those of the stream.
Progress ==
  /\ decoded \in Seq(PacketsIn(Stream))
  /\ decoded \o FramesFrom(Stream)[At] = FramesOf(Stream)

DecoderInv == TypeOK /\ Buffered /\ InFrame /\ Progress


-----------------------------------------------------------------------------
(* Induction.  The library's rules of induction take a predicate; what is   *)
(* proved here for all numbers is proved of the least one it is not true of *)

LEMMA LeastOf ==
  ASSUME NEW T \in SUBSET Nat, T # {}
  PROVE  \E x \in T : \A y \in T : x <= y
<1> DEFINE R == {ss \in Nat \X Nat : ss[1] < ss[2]}
<1>1. IsWellFoundedOn(R, Nat)
  BY NatLessThanWellFounded DEF OpToRel
<1>2. \A x, y \in Nat : ~(<<y, x>> \in R) => x <= y
  OBVIOUS
<1> HIDE DEF R
<1>3. \E x \in T : \A y \in T : ~(<<y, x>> \in R)
  BY <1>1, WFMin
<1> QED
  BY <1>2, <1>3

-----------------------------------------------------------------------------
(* Bytes and fields *)

LEMMA Widths ==
  ASSUME NEW f
  PROVE  /\ OpcodeLen(f) \in {0, 2, 4} /\ SeqLen(f) \in {0, 2, 4} /\ CRCLen(f) \in {0, 2}
         /\ HeadLen(f) \in {2, 4} /\ FieldsLen(f) \in 0..10
<1>1. OpcodeLen(f) \in {0, 2, 4} /\ SeqLen(f) \in {0, 2, 4}
  BY DEF OpcodeLen, SeqLen, WidthAt
<1>2. CRCLen(f) \in {0, 2} /\ HeadLen(f) \in {2, 4}
  BY DEF CRCLen, HeadLen
<1> QED
  BY <1>1, <1>2 DEF FieldsLen

LEMMA MaxUint16IsNat == MaxUint16 \in Nat /\ 10 <= MaxUint16 /\ 65535 <= MaxUint16
BY SMT DEF MaxUint16

LEMMA PadLenRange ==
  ASSUME NEW n \in Nat
  PROVE  PadLen(n) \in 0..3
BY DEF PadLen

LEMMA CutElements ==
  ASSUME NEW S, NEW s \in Seq(S), NEW i \in Nat \ {0}, NEW n \in Nat, Has(s, i, n)
  PROVE  /\ Cut(s, i, n) \in Seq(S) /\ Len(Cut(s, i, n)) = n
         /\ \A j \in 1..n : Cut(s, i, n)[j] = s[i + j - 1]
BY DEF Cut, Has

LEMMA CutOfOne ==
  ASSUME NEW S, NEW s \in Seq(S), NEW i \in 1..Len(s)
  PROVE  Cut(s, i, 1) = <<s[i]>>
<1>1. i + 1 - 1 = i
  OBVIOUS
<1>2. Cut(s, i, 1) = SubSeq(s, i, i)
  BY <1>1 DEF Cut
<1>3. /\ SubSeq(s, i, i) \in Seq(S) /\ Len(SubSeq(s, i, i)) = 1
      /\ SubSeq(s, i, i)[1] = s[i]
  OBVIOUS
<1> QED
  BY <1>2, <1>3

\* What a stretch of a longer sequence says, the longer one says there.
LEMMA CutOfStretch ==
  ASSUME NEW S, NEW b \in Seq(S), NEW s \in Seq(S), NEW base \in Nat,
         base + Len(b) <= Len(s), \A j \in 1..Len(b) : b[j] = s[base + j],
         NEW i \in Nat \ {0}, NEW n \in Nat, Has(b, i, n)
  PROVE  Cut(b, i, n) = Cut(s, base + i, n)
<1>1. base + i \in Nat \ {0} /\ Has(s, base + i, n)
  BY DEF Has
<1>2. /\ Cut(b, i, n) \in Seq(S) /\ Len(Cut(b, i, n)) = n
      /\ \A j \in 1..n : Cut(b, i, n)[j] = b[i + j - 1]
  BY CutElements
<1>3. /\ Cut(s, base + i, n) \in Seq(S) /\ Len(Cut(s, base + i, n)) = n
      /\ \A j \in 1..n : Cut(s, base + i, n)[j] = s[base + i + j - 1]
  BY <1>1, CutElements
<1>4. ASSUME NEW j \in 1..n PROVE Cut(b, i, n)[j] = Cut(s, base + i, n)[j]
  <2>1. i + j - 1 \in 1..Len(b) /\ base + (i + j - 1) = base + i + j - 1
    BY DEF Has
  <2> QED
    BY <1>2, <1>3, <2>1
<1> QED
  BY <1>2, <1>3, <1>4, SeqEqual

\* b is the stretch of s behind its first base bytes.
Stretch(S, b, s, base) ==
  /\ b \in Seq(S) /\ s \in Seq(S) /\ base \in Nat
  /\ base + Len(b) <= Len(s)
  /\ \A j \in 1..Len(b) : b[j] = s[base + j]

\* What is cut out of a stretch is cut out of the whole, base bytes further on.
LEMMA StretchCut ==
  ASSUME NEW S, NEW b, NEW s, NEW base, Stretch(S, b, s, base),
         NEW i \in Nat \ {0}, NEW n \in Nat, Has(b, i, n)
  PROVE  Cut(b, i, n) = Cut(s, base + i, n)
<1> USE DEF Stretch
<1> QED
  BY CutOfStretch

\* PutUintN and readUint16: two bytes are a number of 16 bits.
LEMMA TwoBytes == \A a, b \in Byte : 256 * a + b \in 0..MaxUint16
<1> TAKE a, b \in Byte
<1> DEFINE both == 256 * a + b
<1>1. a \in 0..255 /\ b \in 0..255
  BY DEF Byte
<1>2. both \in Int /\ 0 <= both /\ both <= 65535
  BY <1>1
<1> HIDE DEF both
<1>3. both \in 0..MaxUint16
  BY <1>2, MaxUint16IsNat
<1> QED
  BY <1>3 DEF both

LEMMA ReadUintNRange ==
  ASSUME NEW s \in Seq(Byte), Len(s) = 2
  PROVE  ReadUintN(s) \in 0..MaxUint16
<1>1. s[1] \in Byte /\ s[2] \in Byte
  <2>1. 1 \in 1..Len(s) /\ 2 \in 1..Len(s)
    OBVIOUS
  <2> QED
    BY <2>1, ElementOfSeq
<1>2. \A a, b \in Byte : 256 * a + b \in 0..MaxUint16
  BY TwoBytes
<1>3. ReadUintN(s) = 256 * s[1] + s[2]
  BY DEF ReadUintN
<1> QED
  BY <1>1, <1>2, <1>3

LEMMA LengthRange ==
  ASSUME NEW s \in Seq(Byte), NEW i \in Nat \ {0}, NEW f, Has(s, i, HeadLen(f))
  PROVE  LengthAt(s, i, f) \in 0..MaxUint16
<1>1. CASE HasBodyLen(f)
  <2> DEFINE j == i + 2
  <2>1. j \in Nat \ {0} /\ Has(s, j, 2)
    BY <1>1 DEF Has, HeadLen
  <2> HIDE DEF j
  <2>2. Cut(s, j, 2) \in Seq(Byte) /\ Len(Cut(s, j, 2)) = 2
    BY <2>1 DEF Cut, Has
  <2>3. ReadUintN(Cut(s, j, 2)) \in 0..MaxUint16
    BY <2>2, ReadUintNRange
  <2> QED
    BY <1>1, <2>3 DEF LengthAt, j
<1>2. CASE ~HasBodyLen(f)
  BY <1>2, Widths, MaxUint16IsNat DEF LengthAt
<1> QED
  BY <1>1, <1>2

LEMMA SizeRange ==
  ASSUME NEW s \in Seq(Byte), NEW i \in Nat \ {0}, NEW f, Has(s, i, HeadLen(f))
  PROVE  SizeAt(s, i, f) \in Nat /\ SizeAt(s, i, f) >= HeadLen(f) + LengthAt(s, i, f)
<1>1. HeadLen(f) + LengthAt(s, i, f) \in Nat
  BY LengthRange, Widths, MaxUint16IsNat
<1> QED
  BY <1>1, PadLenRange DEF SizeAt

-----------------------------------------------------------------------------
(* FramesFrom is what its definition says *)

\* What begins at i ends behind i and not behind the stream.
LEMMA AfterIsFurther ==
  ASSUME NEW s \in Seq(Byte), NEW i \in 1..(Len(s) + 1), ~Incomplete(s, i)
  PROVE  After(s, i) \in (i + 1)..(Len(s) + 1)
<1> DEFINE f == s[i + 1]
<1>1. CASE s[i] # MagicByte
  BY <1>1 DEF After, Incomplete, Has
<1>2. CASE s[i] = MagicByte
  <2>1. Has(s, i, HeadLen(f))
    BY <1>2 DEF Incomplete
  <2>2. LengthAt(s, i, f) \in 0..MaxUint16 /\ HeadLen(f) \in {2, 4} /\ FieldsLen(f) \in 0..10
    BY <2>1, LengthRange, Widths, MaxUint16IsNat
  <2>3. CASE TooShort(s, i, f)
    <3>1. HeadLen(f) = 4
      BY <2>2, <2>3 DEF TooShort, LengthAt, HeadLen
    <3> QED
      BY <1>2, <2>1, <2>3, <3>1 DEF After, Has
  <2>4. CASE ~TooShort(s, i, f)
    <3>1. Has(s, i, SizeAt(s, i, f))
      BY <1>2, <2>4 DEF Incomplete
    <3>2. SizeAt(s, i, f) \in Nat /\ SizeAt(s, i, f) >= 2
      BY <2>1, <2>2, SizeRange
    <3> QED
      BY <1>2, <2>4, <3>1, <3>2 DEF After, Has
  <2> QED
    BY <2>3, <2>4
<1> QED
  BY <1>1, <1>2

LEMMA FoundType ==
  ASSUME NEW s \in Seq(Byte), NEW i \in 1..(Len(s) + 1), ~Incomplete(s, i)
  PROVE  Found(s, i) \in Seq(PacketsIn(s))
<1>1. i \in 1..Len(s)
  BY DEF Incomplete, Has
<1> DEFINE S == PacketsIn(s)
           p == PacketAt(s, i, s[i + 1])
<1>2. Found(s, i) = <<>> \/ Found(s, i) = <<p>>
  BY DEF Found
<1>3. \A x : ToSet(<<x>>) = {x}
  BY DEF ToSet
<1>4. Found(s, i) = <<p>> => p \in S
  BY <1>1, <1>3 DEF PacketsIn
<1> HIDE DEF S, p
<1>5. <<>> \in Seq(S) /\ (p \in S => <<p>> \in Seq(S))
  OBVIOUS
<1>6. Found(s, i) \in Seq(S)
  BY <1>2, <1>4, <1>5
<1> QED
  BY <1>6 DEF S

\* The recursion ends, so the function is what its equation says ...
LEMMA FramesFromEquation ==
  ASSUME NEW s \in Seq(Byte)
  PROVE  FramesFrom(s) = [i \in 1..(Len(s) + 1) |->
                            IF Incomplete(s, i) THEN <<>>
                            ELSE Found(s, i) \o FramesFrom(s)[After(s, i)]]
<1> DEFINE N == Len(s) + 1
           Rhs(g, i) == IF Incomplete(s, i) THEN <<>> ELSE Found(s, i) \o g[After(s, i)]
           Is(g, n) == g = [i \in n..N |-> Rhs(g, i)]
           T == {k \in 0..(N - 1) : ~\E g : Is(g, N - k)}
<1>1. N \in Nat \ {0} /\ \A i \in 1..N : ~Incomplete(s, i) => After(s, i) \in (i + 1)..N
  BY AfterIsFurther
<1>2. FramesFrom(s) = CHOOSE g : Is(g, 1)
  BY DEF FramesFrom
<1> HIDE DEF N
<1>3. \E g : Is(g, N)
  <2> DEFINE g == [i \in N..N |-> <<>>]
  <2>1. ASSUME NEW i \in N..N PROVE Rhs(g, i) = <<>>
    BY <1>1
  <2>2. Is(g, N)
    BY <2>1
  <2> HIDE DEF g, Is
  <2> QED
    BY <2>2
<1>4. ASSUME NEW n \in 1..(N - 1), NEW g, Is(g, n + 1)
      PROVE  \E h : Is(h, n)
  <2> DEFINE h == [i \in n..N |-> IF i = n THEN Rhs(g, n) ELSE g[i]]
  <2>1. \A i \in (n + 1)..N : g[i] = Rhs(g, i)
    BY <1>4
  <2>2. ASSUME NEW i \in n..N PROVE h[i] = Rhs(h, i)
    <3>1. i \in 1..N
      BY <1>1
    <3>2. h[i] = Rhs(g, i)
      <4>1. CASE i = n
        BY <4>1
      <4>2. CASE i # n
        <5>1. i \in (n + 1)..N
          BY <1>1, <4>2
        <5> QED
          BY <2>1, <4>2, <5>1
      <4> QED
        BY <4>1, <4>2
    <3>3. CASE Incomplete(s, i)
      BY <3>2, <3>3
    <3>4. CASE ~Incomplete(s, i)
      <4>1. After(s, i) \in (i + 1)..N
        BY <1>1, <3>1, <3>4
      <4>2. h[After(s, i)] = g[After(s, i)]
        BY <1>1, <4>1
      <4> QED
        BY <3>2, <4>2
    <3> QED
      BY <3>3, <3>4
  <2>3. Is(h, n)
    BY <2>2
  <2> HIDE DEF h, Is
  <2> QED
    BY <2>3
<1>5. T = {}
  <2> SUFFICES ASSUME T # {} PROVE FALSE
    OBVIOUS
  <2> HIDE DEF Is
  <2>1. PICK k \in T : \A y \in T : k <= y
    <3>1. T \in SUBSET Nat
      BY <1>1
    <3> HIDE DEF T
    <3> QED
      BY <3>1, LeastOf
  <2>2. k \in 0..(N - 1) /\ ~\E g : Is(g, N - k)
    OBVIOUS
  <2>3. k # 0
    <3>1. N - 0 = N
      BY <1>1
    <3> QED
      BY <1>3, <2>2, <3>1
  <2>4. k - 1 \in 0..(N - 1) /\ ~(k <= k - 1)
    BY <1>1, <2>2, <2>3
  <2>5. \E g : Is(g, N - (k - 1))
    BY <2>1, <2>4
  <2>6. N - k \in 1..(N - 1) /\ N - (k - 1) = (N - k) + 1
    BY <1>1, <2>2, <2>3
  <2> QED
    BY <1>4, <2>2, <2>5, <2>6
<1>6. \E g : Is(g, 1)
  <2>1. N - 1 \in 0..(N - 1) /\ N - (N - 1) = 1
    BY <1>1
  <2> HIDE DEF Is
  <2>2. \E g : Is(g, N - (N - 1))
    BY <1>5, <2>1
  <2> QED
    BY <2>1, <2>2
<1>7. Is(FramesFrom(s), 1)
  <2> HIDE DEF Is
  <2> QED
    BY <1>2, <1>6
<1> QED
  BY <1>7 DEF N

\* ... and its values are sequences of packets.
LEMMA FramesFromType ==
  ASSUME NEW s \in Seq(Byte)
  PROVE  \A i \in 1..(Len(s) + 1) : FramesFrom(s)[i] \in Seq(PacketsIn(s))
<1> DEFINE N == Len(s) + 1
           T == {k \in 0..(N - 1) : FramesFrom(s)[N - k] \notin Seq(PacketsIn(s))}
<1>1. N \in Nat \ {0}
  OBVIOUS
<1>2. T = {}
  <2> SUFFICES ASSUME T # {} PROVE FALSE
    OBVIOUS
  <2>1. PICK k \in T : \A y \in T : k <= y
    <3>1. T \in SUBSET Nat
      OBVIOUS
    <3> HIDE DEF T
    <3> QED
      BY <3>1, LeastOf
  <2> DEFINE i == N - k
  <2>2. k \in 0..(N - 1) /\ i \in 1..N /\ FramesFrom(s)[i] \notin Seq(PacketsIn(s))
    OBVIOUS
  <2>3. ASSUME NEW j \in (i + 1)..N PROVE FramesFrom(s)[j] \in Seq(PacketsIn(s))
    <3>1. N - j \in 0..(N - 1) /\ ~(k <= N - j) /\ N - (N - j) = j
      BY <2>2
    <3> QED
      BY <2>1, <3>1
  <2> HIDE DEF i, T
  <2>4. FramesFrom(s)[i] = IF Incomplete(s, i) THEN <<>>
                           ELSE Found(s, i) \o FramesFrom(s)[After(s, i)]
    BY <2>2, FramesFromEquation
  <2>5. ~Incomplete(s, i)
    BY <2>2, <2>4
  <2>6. /\ Found(s, i) \in Seq(PacketsIn(s))
        /\ FramesFrom(s)[After(s, i)] \in Seq(PacketsIn(s))
    BY <2>2, <2>3, <2>5, AfterIsFurther, FoundType
  <2> QED
    BY <2>2, <2>4, <2>5, <2>6
<1> QED
  <2> SUFFICES ASSUME NEW i \in 1..N PROVE FramesFrom(s)[i] \in Seq(PacketsIn(s))
    OBVIOUS
  <2>1. N - i \in 0..(N - 1) /\ N - (N - i) = i
    OBVIOUS
  <2> QED
    BY <1>2, <2>1

-----------------------------------------------------------------------------
(* FlattenSeq, by its first k sequences                                      *)

Joined(seqs) ==
  LET flatten[i \in 1..Len(seqs)] ==
        IF i = 1 THEN seqs[i] ELSE flatten[i - 1] \o seqs[i]
  IN  flatten

FirstOf(seqs, k) == IF k = 0 THEN <<>> ELSE Joined(seqs)[k]

LEMMA JoinedEquation ==
  ASSUME NEW S, NEW seqs \in Seq(S)
  PROVE  Joined(seqs) = [i \in 1..Len(seqs) |->
                           IF i = 1 THEN seqs[i] ELSE Joined(seqs)[i - 1] \o seqs[i]]
<1> DEFINE N == Len(seqs)
           Rhs(g, i) == IF i = 1 THEN seqs[i] ELSE g[i - 1] \o seqs[i]
           Is(g, n) == g = [i \in 1..n |-> Rhs(g, i)]
           T == {k \in 0..N : ~\E g : Is(g, k)}
<1>1. N \in Nat
  OBVIOUS
<1>2. Joined(seqs) = CHOOSE g : Is(g, N)
  BY DEF Joined
<1> HIDE DEF N
<1>3. \E g : Is(g, 0)
  <2> DEFINE g == [i \in 1..0 |-> 0]
  <2>1. Is(g, 0)
    OBVIOUS
  <2> HIDE DEF g, Is
  <2> QED
    BY <2>1
<1>4. ASSUME NEW n \in 1..N, NEW g, Is(g, n - 1)
      PROVE  \E h : Is(h, n)
  <2> DEFINE h == [i \in 1..n |-> IF i = n THEN Rhs(g, n) ELSE g[i]]
  <2>1. \A i \in 1..(n - 1) : g[i] = Rhs(g, i)
    BY <1>4
  <2>2. ASSUME NEW i \in 1..n PROVE h[i] = Rhs(h, i)
    <3>1. h[i] = Rhs(g, i)
      <4>1. CASE i = n
        BY <4>1
      <4>2. CASE i # n
        <5>1. i \in 1..(n - 1)
          BY <1>1, <4>2
        <5> QED
          BY <2>1, <4>2, <5>1
      <4> QED
        BY <4>1, <4>2
    <3>2. CASE i = 1
      BY <3>1, <3>2
    <3>3. CASE i # 1
      <4>1. h[i - 1] = g[i - 1]
        BY <1>1, <3>3
      <4> QED
        BY <3>1, <3>3, <4>1
    <3> QED
      BY <3>2, <3>3
  <2>3. Is(h, n)
    BY <2>2
  <2> HIDE DEF h, Is
  <2> QED
    BY <2>3
<1>5. T = {}
  <2> SUFFICES ASSUME T # {} PROVE FALSE
    OBVIOUS
  <2> HIDE DEF Is
  <2>1. PICK k \in T : \A y \in T : k <= y
    <3>1. T \in SUBSET Nat
      BY <1>1
    <3> HIDE DEF T
    <3> QED
      BY <3>1, LeastOf
  <2>2. k \in 0..N /\ ~\E g : Is(g, k)
    OBVIOUS
  <2>3. k # 0
    BY <1>3, <2>2
  <2>4. k - 1 \in 0..N /\ ~(k <= k - 1) /\ k \in 1..N
    BY <1>1, <2>2, <2>3
  <2>5. \E g : Is(g, k - 1)
    BY <2>1, <2>4
  <2> QED
    BY <1>4, <2>2, <2>4, <2>5
<1>6. Is(Joined(seqs), N)
  <2> HIDE DEF Is
  <2>1. N \in 0..N
    BY <1>1
  <2>2. \E g : Is(g, N)
    BY <1>5, <2>1
  <2> QED
    BY <1>2, <2>2
<1> QED
  BY <1>6 DEF N

LEMMA FirstOfSteps ==
  ASSUME NEW S, NEW seqs \in Seq(Seq(S))
  PROVE  /\ FirstOf(seqs, 0) = <<>>
         /\ FlattenSeq(seqs) = FirstOf(seqs, Len(seqs))
         /\ \A k \in 1..Len(seqs) :
              /\ FirstOf(seqs, k) = FirstOf(seqs, k - 1) \o seqs[k]
              /\ FirstOf(seqs, k) \in Seq(S) /\ FirstOf(seqs, k - 1) \in Seq(S)
<1> DEFINE N == Len(seqs)
           T == {k \in 0..N : FirstOf(seqs, k) \notin Seq(S)}
<1>1. N \in Nat /\ \A k \in 1..N : seqs[k] \in Seq(S)
  OBVIOUS
<1>2. FlattenSeq(seqs) = FirstOf(seqs, N)
  <2>1. CASE N = 0
    BY <2>1 DEF FlattenSeq, FirstOf
  <2>2. CASE N # 0
    BY <2>2 DEF FlattenSeq, FirstOf, Joined
  <2> QED
    BY <2>1, <2>2
<1>3. ASSUME NEW k \in 1..N
      PROVE  FirstOf(seqs, k) = FirstOf(seqs, k - 1) \o seqs[k]
  <2>1. Joined(seqs)[k] = IF k = 1 THEN seqs[k] ELSE Joined(seqs)[k - 1] \o seqs[k]
    <3> DEFINE J == Joined(seqs)
               R(i) == IF i = 1 THEN seqs[i] ELSE J[i - 1] \o seqs[i]
    <3>1. J = [i \in 1..N |-> R(i)]
      BY JoinedEquation
    <3> HIDE DEF J, R, N
    <3>2. J[k] = R(k)
      BY <3>1
    <3> QED
      BY <3>2 DEF J, R
  <2>2. CASE k = 1
    BY <1>1, <2>1, <2>2 DEF FirstOf
  <2>3. CASE k # 1
    <3>1. k # 0 /\ k - 1 # 0
      BY <2>3
    <3>2. FirstOf(seqs, k) = Joined(seqs)[k] /\ FirstOf(seqs, k - 1) = Joined(seqs)[k - 1]
      BY <3>1 DEF FirstOf
    <3> QED
      BY <2>1, <2>3, <3>2
  <2> QED
    BY <2>2, <2>3
<1>4. T = {}
  <2> SUFFICES ASSUME T # {} PROVE FALSE
    OBVIOUS
  <2> HIDE DEF N
  <2>1. PICK k \in T : \A y \in T : k <= y
    <3>1. T \in SUBSET Nat
      BY <1>1
    <3> HIDE DEF T
    <3> QED
      BY <3>1, LeastOf
  <2>2. k \in 0..N /\ FirstOf(seqs, k) \notin Seq(S)
    OBVIOUS
  <2>3. k # 0
    BY <2>2 DEF FirstOf
  <2>4. k \in 1..N /\ k - 1 \in 0..N /\ ~(k <= k - 1)
    BY <1>1, <2>2, <2>3
  <2>5. FirstOf(seqs, k - 1) \in Seq(S) /\ seqs[k] \in Seq(S)
    BY <1>1, <2>1, <2>4
  <2>6. FirstOf(seqs, k - 1) \o seqs[k] \in Seq(S)
    BY <2>5, ConcatProperties
  <2> QED
    BY <1>3, <2>2, <2>4, <2>6
<1>5. \A k \in 1..N : k \in 0..N /\ k - 1 \in 0..N
  BY <1>1
<1>6. \A k \in 0..N : FirstOf(seqs, k) \in Seq(S)
  BY <1>4
<1>7. FirstOf(seqs, 0) = <<>>
  BY DEF FirstOf
<1> HIDE DEF T
<1> QED
  BY <1>2, <1>3, <1>5, <1>6, <1>7

LEMMA StreamType ==
  ASSUME TypeOK
  PROVE  Stream \in Seq(Byte)
<1>1. sent \in Seq(Pieces)
  BY BoundsAssumption DEF TypeOK, BoundedSeq, SeqOf
<1> DEFINE seqs == [i \in DOMAIN sent |-> sent[i].bytes]
<1>2. seqs \in Seq(Seq(Byte))
  BY <1>1, PiecesAssumption
<1>3. FlattenSeq(seqs) = FirstOf(seqs, Len(seqs)) /\ FirstOf(seqs, 0) = <<>>
      /\ \A k \in 1..Len(seqs) : FirstOf(seqs, k) \in Seq(Byte)
  BY <1>2, FirstOfSteps
<1>4. Len(seqs) = 0 \/ Len(seqs) \in 1..Len(seqs)
  BY <1>2
<1> QED
  BY <1>3, <1>4 DEF Stream, Bytes

-----------------------------------------------------------------------------
(* The inductive invariant of the decoder                                    *)

LEMMA Numbers ==
  ASSUME DecoderInv
  PROVE  /\ bufPos \in Nat /\ frameStart \in Nat /\ consumed \in Nat /\ Base \in Nat
         /\ frameStart <= bufPos /\ consumed = Base + bufPos
BY DEF DecoderInv, TypeOK, Buffered, Base

LEMMA Lengths ==
  ASSUME DecoderInv
  PROVE  /\ Len(buf) \in Nat /\ Len(Stream) \in Nat /\ Len(rest) \in Nat
         /\ bufPos <= Len(buf) /\ Base + Len(buf) + Len(rest) = Len(Stream)
         /\ Base + Len(buf) <= Len(Stream)
<1>1. Stream \in Seq(Byte) /\ buf \in Seq(Byte) /\ rest \in Seq(Byte)
  BY StreamType DEF DecoderInv, Buffered
<1>2. Len(buf) \in Nat /\ Len(Stream) \in Nat /\ Len(rest) \in Nat
  BY <1>1
<1>3. bufPos <= Len(buf) /\ Base + Len(buf) + Len(rest) = Len(Stream) /\ Base \in Nat
  BY <1>2 DEF DecoderInv, TypeOK, Buffered
<1> QED
  BY <1>2, <1>3

LEMMA Place ==
  ASSUME DecoderInv
  PROVE  /\ Stream \in Seq(Byte)
         /\ At \in 1..(Len(Stream) + 1)
         /\ state = "magic" => At = Base + bufPos + 1
         /\ state # "magic" => At = Base + frameStart + 1
<1>1. /\ state = "magic" => At = Base + bufPos + 1
      /\ state # "magic" => At = Base + frameStart + 1
  BY DEF At
<1>2. At \in 1..(Len(Stream) + 1)
  <2>1. /\ Base \in Nat /\ bufPos \in Nat /\ frameStart \in Nat /\ frameStart <= bufPos
        /\ Len(buf) \in Nat /\ Len(Stream) \in Nat
        /\ bufPos <= Len(buf) /\ Base + Len(buf) <= Len(Stream)
    BY Numbers, Lengths
  <2> QED
    BY ONLY <1>1, <2>1
<1> QED
  BY <1>1, <1>2, StreamType DEF DecoderInv

\* A field in the buffer is what the stream says at its place.
LEMMA FieldInStream ==
  ASSUME DecoderInv, NEW i \in Nat, NEW n \in Nat, i + n <= Len(buf)
  PROVE  FieldAt(i, n) = Cut(Stream, Base + i + 1, n)
<1> DEFINE s == Stream
           base == Base
           j == i + 1
<1>1. buf \in Seq(Byte) /\ s \in Seq(Byte) /\ base \in Nat /\ base + Len(buf) <= Len(s)
  BY Place, Numbers, Lengths DEF DecoderInv, Buffered
<1>2. \A k \in 1..Len(buf) : buf[k] = s[base + k]
  BY DEF DecoderInv, Buffered
<1> HIDE DEF s, base
<1>3. j \in Nat \ {0} /\ base + j = base + i + 1 /\ Has(buf, j, n)
  BY <1>1 DEF Has
<1> HIDE DEF j
<1>4. Cut(buf, j, n) = Cut(s, base + j, n)
  <2>1. Stretch(Byte, buf, s, base)
    BY <1>1, <1>2 DEF Stretch
  <2> QED
    BY <1>3, <2>1, StretchCut
<1>5. FieldAt(i, n) = Cut(s, base + i + 1, n)
  BY <1>3, <1>4 DEF FieldAt, j
<1> QED
  BY <1>5 DEF s, base

LEMMA BufferKept ==
  ASSUME DecoderInv, UNCHANGED <<sent, rest, buf>>, Base' = Base
  PROVE  Buffered' /\ Stream' = Stream
<1>1. Stream' = Stream
  BY DEF Stream
<1> QED
  BY <1>1 DEF DecoderInv, Buffered

\* What is passed over leaves the buffer where it is in the stream.
LEMMA BaseKept ==
  ASSUME DecoderInv, NEW n \in Nat, bufPos' = bufPos + n, consumed' = consumed + n
  PROVE  Base' = Base
BY Numbers DEF Base

\* The numbers of the state stay in range when the position moves on.
LEMMA MovedOn ==
  ASSUME DecoderInv, NEW n \in Nat, bufPos' = bufPos + n, consumed' = consumed + n,
         bufPos + n <= Len(buf)
  PROVE  bufPos' \in 0..Len(buf) /\ frameStart \in 0..bufPos' /\ consumed' \in Nat
<1>1. /\ bufPos \in Nat /\ frameStart \in Nat /\ consumed \in Nat
      /\ frameStart <= bufPos /\ Len(buf) \in Nat
  BY Numbers, Lengths
<1>2. bufPos' \in Nat /\ bufPos' <= Len(buf) /\ frameStart <= bufPos' /\ consumed' \in Nat
  BY <1>1
<1> QED
  BY ONLY <1>1, <1>2

\* What is complete is found, and the rest is found after it.
LEMMA ProgressOn ==
  ASSUME DecoderInv, ~Incomplete(Stream, At)
  PROVE  /\ decoded \o Found(Stream, At) \in Seq(PacketsIn(Stream))
         /\ (decoded \o Found(Stream, At)) \o FramesFrom(Stream)[After(Stream, At)]
              = FramesOf(Stream)
<1> DEFINE a == decoded
           b == Found(Stream, At)
           c == FramesFrom(Stream)[After(Stream, At)]
           S == PacketsIn(Stream)
           whole == FramesOf(Stream)
<1>1. FramesFrom(Stream)[At] = b \o c
  BY Place, FramesFromEquation
<1>2. After(Stream, At) \in 1..(Len(Stream) + 1)
  BY Place, AfterIsFurther
<1>3. a \in Seq(S) /\ b \in Seq(S) /\ c \in Seq(S) /\ a \o FramesFrom(Stream)[At] = whole
  BY <1>2, Place, FoundType, FramesFromType DEF DecoderInv, Progress
<1>4. a \o (b \o c) = whole
  BY <1>1, <1>3
<1> HIDE DEF a, b, c, S, whole
<1>5. a \o b \in Seq(S)
  BY <1>3, ConcatProperties
<1>6. (a \o b) \o c = a \o (b \o c)
  BY <1>3, ConcatAssociative
<1>7. a \o b \in Seq(S) /\ (a \o b) \o c = whole
  BY <1>4, <1>5, <1>6
<1> QED
  BY <1>7 DEF a, b, c, S, whole

LEMMA DecoderInit == Init => DecoderInv
<1> SUFFICES ASSUME Init PROVE DecoderInv
  OBVIOUS
<1> USE DEF Init
<1>1. TypeOK
  <2>1. Len(rest) = Len(Bytes(sent)) /\ Len(buf) = 0
    OBVIOUS
  <2>2. Len(Bytes(sent)) <= Len(Bytes(sent)) /\ bodyLen \in 0..MaxUint16
    BY MaxUint16IsNat
  <2> QED
    BY <2>1, <2>2 DEF TypeOK, Byte
<1>2. Stream \in Seq(Byte)
  BY <1>1, StreamType
<1>3. Base = 0
  BY DEF Base
<1>4. Buffered
  BY <1>2, <1>3 DEF Buffered, Stream
<1>5. InFrame
  BY DEF InFrame
<1>6. At = 1 /\ decoded = <<>>
  BY <1>3 DEF At
<1>7. FramesFrom(Stream)[1] \in Seq(PacketsIn(Stream))
  BY <1>2, FramesFromType
<1>8. Progress
  BY <1>6, <1>7 DEF Progress, FramesOf
<1> QED
  BY <1>1, <1>4, <1>5, <1>8 DEF DecoderInv

LEMMA ReadStep ==
  ASSUME DecoderInv, Read
  PROVE  DecoderInv'
<1>1. PICK n \in 1..MaxRead :
        /\ n <= Len(rest)
        /\ buf' = buf \o SubSeq(rest, 1, n)
        /\ rest' = SubSeq(rest, n + 1, Len(rest))
  BY DEF Read
<1>2. UNCHANGED <<sent, bufPos, state, frameStart, flags, bodyLen, consumed, decoded>>
  BY DEF Read, frameVars
<1>3. Stream' = Stream /\ Base' = Base
  BY <1>2 DEF Stream, Base
<1>4. At' = At
  BY <1>2, <1>3 DEF At
<1>5. /\ buf \in Seq(Byte) /\ rest \in Seq(Byte) /\ Base \in Nat
      /\ Base + Len(buf) + Len(rest) = Len(Stream)
      /\ \A i \in 1..Len(buf) : buf[i] = Stream[Base + i]
      /\ \A i \in 1..Len(rest) : rest[i] = Stream[Base + Len(buf) + i]
  BY DEF DecoderInv, Buffered
<1>6. n \in Nat /\ n \in 1..Len(rest)
  BY <1>1, <1>5, BoundsAssumption
<1>7. /\ SubSeq(rest, 1, n) \in Seq(Byte) /\ Len(SubSeq(rest, 1, n)) = n
      /\ \A i \in 1..n : SubSeq(rest, 1, n)[i] = rest[i]
      /\ rest' \in Seq(Byte) /\ Len(rest') = Len(rest) - n
      /\ \A i \in 1..Len(rest') : rest'[i] = rest[n + i]
  BY <1>1, <1>5, <1>6
<1>8. /\ buf' \in Seq(Byte) /\ Len(buf') = Len(buf) + n
      /\ \A i \in 1..Len(buf) : buf'[i] = buf[i]
      /\ \A i \in 1..n : buf'[Len(buf) + i] = rest[i]
  BY <1>1, <1>5, <1>6, <1>7
<1>9. Buffered'
  <2>1. ASSUME NEW i \in 1..Len(buf') PROVE buf'[i] = Stream[Base + i]
    <3>1. CASE i <= Len(buf)
      BY <1>5, <1>8, <3>1
    <3>2. CASE ~(i <= Len(buf))
      <4>1. i - Len(buf) \in 1..n /\ Len(buf) + (i - Len(buf)) = i
        BY <1>5, <1>6, <1>8, <3>2
      <4>2. buf'[i] = rest[i - Len(buf)]
        BY <1>8, <4>1
      <4>3. i - Len(buf) \in 1..Len(rest) /\ Base + Len(buf) + (i - Len(buf)) = Base + i
        BY <1>5, <1>6, <4>1
      <4> QED
        BY <1>5, <4>2, <4>3
    <3> QED
      BY <3>1, <3>2
  <2>2. ASSUME NEW i \in 1..Len(rest') PROVE rest'[i] = Stream[Base + Len(buf') + i]
    <3>1. n + i \in 1..Len(rest) /\ Base + Len(buf) + (n + i) = Base + Len(buf') + i
      BY <1>5, <1>6, <1>7, <1>8
    <3> QED
      BY <1>5, <1>7, <3>1
  <2>3. Base + Len(buf') + Len(rest') = Len(Stream)
    BY <1>5, <1>6, <1>7, <1>8
  <2> QED
    BY <1>3, <1>5, <1>7, <1>8, <2>1, <2>2, <2>3 DEF Buffered
<1>10. TypeOK'
  <2>1. bufPos \in 0..Len(buf') /\ Len(rest') <= Len(Bytes(sent))
    BY <1>5, <1>6, <1>7, <1>8 DEF DecoderInv, TypeOK, Stream
  <2> QED
    BY <1>2, <2>1 DEF DecoderInv, TypeOK
<1>11. InFrame'
  BY <1>2, <1>3, <1>4 DEF DecoderInv, InFrame, Passed
<1>12. Progress'
  BY <1>2, <1>3, <1>4 DEF DecoderInv, Progress
<1> QED
  BY <1>9, <1>10, <1>11, <1>12 DEF DecoderInv

LEMMA NextByte ==
  ASSUME DecoderInv, state \in {"magic", "flags"}, ~Missing
  PROVE  /\ bufPos + 1 <= Len(buf) /\ Base + bufPos + 1 \in 1..Len(Stream)
         /\ buf[bufPos + 1] = Stream[Base + bufPos + 1]
         /\ FieldAt(bufPos, 1) = <<Stream[Base + bufPos + 1]>>
<1>1. Need = 1 /\ buf \in Seq(Byte)
  BY DEF Need, DecoderInv, Buffered
<1>2. bufPos + 1 <= Len(buf) /\ Base + bufPos + 1 \in 1..Len(Stream)
  BY <1>1, Numbers, Lengths DEF Missing
<1>3. bufPos + 1 \in 1..Len(buf)
  BY <1>2, Numbers, Lengths
<1>4. buf[bufPos + 1] = Stream[Base + (bufPos + 1)]
  BY <1>3 DEF DecoderInv, Buffered
<1>5. Base + (bufPos + 1) = Base + bufPos + 1
  BY Numbers
<1>6. FieldAt(bufPos, 1) = <<buf[bufPos + 1]>>
  BY <1>1, <1>3, CutOfOne DEF FieldAt
<1> QED
  BY <1>2, <1>4, <1>5, <1>6

LEMMA SkipByteStep ==
  ASSUME DecoderInv, SkipByte
  PROVE  DecoderInv'
<1>1. /\ state = "magic" /\ ~Missing /\ FieldAt(bufPos, 1) # <<MagicByte>>
      /\ bufPos' = bufPos + 1 /\ consumed' = consumed + 1
      /\ UNCHANGED <<sent, rest, buf, state, frameStart, flags, bodyLen, decoded>>
  BY DEF SkipByte, Consume, bufVars, frameVars
<1>2. Base' = Base /\ At = Base + bufPos + 1 /\ At' = At + 1
  <2>1. Base' = Base
    BY <1>1, BaseKept
  <2>2. At = Base + bufPos + 1 /\ At' = Base' + bufPos' + 1
    BY <1>1 DEF At
  <2> QED
    BY <1>1, <2>1, <2>2, Numbers
<1>3. Buffered' /\ Stream' = Stream
  BY <1>1, <1>2, BufferKept
<1>4. bufPos + 1 <= Len(buf) /\ At \in 1..Len(Stream) /\ Stream[At] # MagicByte
  BY <1>1, <1>2, NextByte
<1>5. ~Incomplete(Stream, At) /\ After(Stream, At) = At + 1 /\ Found(Stream, At) = <<>>
  BY <1>4, Lengths DEF Incomplete, Has, After, Found
<1>6. TypeOK'
  BY <1>1, <1>4, Numbers, Lengths DEF DecoderInv, TypeOK
<1>7. InFrame'
  BY <1>1 DEF DecoderInv, InFrame
<1>8. Progress'
  <2>1. decoded \o <<>> = decoded
    BY DEF DecoderInv, Progress
  <2> QED
    BY <1>1, <1>2, <1>3, <1>5, <2>1, ProgressOn DEF Progress
<1> QED
  BY <1>3, <1>6, <1>7, <1>8 DEF DecoderInv

LEMMA ReadMagicStep ==
  ASSUME DecoderInv, ReadMagic
  PROVE  DecoderInv'
<1>1. /\ state = "magic" /\ ~Missing /\ FieldAt(bufPos, 1) = <<MagicByte>>
      /\ bufPos' = bufPos + 1 /\ consumed' = consumed + 1
      /\ frameStart' = bufPos /\ state' = "flags"
      /\ UNCHANGED <<sent, rest, buf, flags, bodyLen, decoded>>
  BY DEF ReadMagic, Consume, bufVars
<1>2. Base' = Base /\ At = Base + bufPos + 1 /\ At' = At
  <2>1. Base' = Base
    BY <1>1, BaseKept
  <2>2. At = Base + bufPos + 1 /\ At' = Base' + frameStart' + 1
    BY <1>1 DEF At
  <2> QED
    BY <1>1, <2>1, <2>2
<1>3. Buffered' /\ Stream' = Stream
  BY <1>1, <1>2, BufferKept
<1>4. bufPos + 1 <= Len(buf) /\ At \in 1..Len(Stream) /\ Stream[At] = MagicByte
  BY <1>1, <1>2, NextByte
<1>5. TypeOK'
  BY <1>1, <1>4, Numbers, Lengths DEF DecoderInv, TypeOK
<1>6. InFrame'
  BY <1>1, <1>2, <1>3, <1>4 DEF DecoderInv, InFrame, Passed
<1>7. Progress'
  BY <1>1, <1>2, <1>3 DEF DecoderInv, Progress
<1> QED
  BY <1>3, <1>5, <1>6, <1>7 DEF DecoderInv

LEMMA ReadFlagsStep ==
  ASSUME DecoderInv, ReadFlags
  PROVE  DecoderInv'
<1>1. /\ state = "flags" /\ ~Missing
      /\ flags' = buf[frameStart + 2] /\ bufPos' = frameStart + 2 /\ consumed' = consumed + 1
      /\ state' = IF HasBodyLen(flags') THEN "length" ELSE "opcode"
      /\ UNCHANGED <<sent, rest, buf, frameStart, bodyLen, decoded>>
  BY DEF ReadFlags, bufVars
<1>2. bufPos = frameStart + 1 /\ bodyLen = 0 /\ Stream[At] = MagicByte
  BY <1>1 DEF DecoderInv, InFrame, Passed
<1>3. Base' = Base /\ At = Base + frameStart + 1 /\ At' = At
  <2>1. bufPos' = bufPos + 1
    BY <1>1, <1>2, Numbers
  <2>2. Base' = Base
    BY <1>1, <2>1, BaseKept
  <2> QED
    BY <1>1, <2>2 DEF At
<1>4. Buffered' /\ Stream' = Stream
  BY <1>1, <1>3, BufferKept
<1>5. bufPos + 1 <= Len(buf) /\ flags' = Stream[At + 1] /\ At + 1 \in 1..Len(Stream)
  <2>1. bufPos + 1 = frameStart + 2 /\ Base + bufPos + 1 = At + 1
    BY <1>2, <1>3, Numbers
  <2> QED
    BY <1>1, <2>1, NextByte
<1>6. flags' \in Byte
  BY <1>5, Place, ElementOfSeq
<1>7. TypeOK'
  <2>1. bufPos' \in 0..Len(buf) /\ frameStart \in 0..bufPos' /\ consumed' \in Nat
    <3>1. bufPos' = bufPos + 1 /\ bufPos + 1 <= Len(buf) /\ consumed' = consumed + 1
      BY <1>1, <1>2, <1>5, Numbers
    <3> DEFINE n == 1
    <3>2. n \in Nat /\ bufPos' = bufPos + n /\ bufPos + n <= Len(buf) /\ consumed' = consumed + n
      BY <3>1
    <3> HIDE DEF n
    <3> QED
      BY <3>2, MovedOn
  <2> QED
    BY <1>1, <1>6, <2>1 DEF DecoderInv, TypeOK
<1>8. InFrame'
  <2>1. Passed' = 2
    BY <1>1 DEF Passed, HeadLen
  <2>2. state' = "opcode" => LengthAt(Stream, At, flags') = FieldsLen(flags')
    BY <1>1 DEF LengthAt
  <2>3. FieldsLen(flags') \in Nat
    BY Widths
  <2> QED
    BY <1>1, <1>2, <1>3, <1>4, <1>5, <2>1, <2>2, <2>3 DEF InFrame
<1>9. Progress'
  BY <1>1, <1>3, <1>4 DEF DecoderInv, Progress
<1> QED
  BY <1>4, <1>7, <1>8, <1>9 DEF DecoderInv

LEMMA ReadLengthStep ==
  ASSUME DecoderInv, ReadLength
  PROVE  DecoderInv'
<1> DEFINE length == ReadUintN(FieldAt(frameStart + 2, 2))
<1>1. /\ state = "length" /\ ~Missing
      /\ bufPos' = frameStart + 4 /\ consumed' = consumed + 2
      /\ UNCHANGED <<sent, rest, buf, frameStart, decoded>>
      /\ IF length < FieldsLen(flags)
         THEN state' = "magic" /\ flags' = 0 /\ bodyLen' = 0
         ELSE state' = "opcode" /\ bodyLen' = length - FieldsLen(flags) /\ flags' = flags
  BY DEF ReadLength, ResetFrame, bufVars
<1> HIDE DEF length
<1>2. /\ bufPos = frameStart + 2 /\ HasBodyLen(flags) /\ Stream[At] = MagicByte
      /\ flags = Stream[At + 1]
  BY <1>1 DEF DecoderInv, InFrame, Passed
<1>3. Base' = Base /\ At = Base + frameStart + 1
  <2>1. bufPos' = bufPos + 2
    BY <1>1, <1>2, Numbers
  <2> QED
    BY <1>1, <2>1, BaseKept DEF At
<1>4. Buffered' /\ Stream' = Stream
  BY <1>1, <1>3, BufferKept
<1>5. bufPos + 2 <= Len(buf)
  BY <1>1, Numbers, Lengths DEF Missing, Need
<1>6. (frameStart + 2) + 2 <= Len(buf) /\ At + 3 <= Len(Stream)
  <2>1. (frameStart + 2) + 2 = bufPos + 2 /\ At + 3 = Base + (bufPos + 2)
    BY <1>2, <1>3, Numbers
  <2>2. /\ Base \in Nat /\ bufPos \in Nat /\ Len(buf) \in Nat /\ Len(Stream) \in Nat
        /\ Base + Len(buf) <= Len(Stream)
    BY Numbers, Lengths
  <2> QED
    BY ONLY <1>5, <2>1, <2>2
<1>7. length = LengthAt(Stream, At, flags)
  <2> DEFINE i == frameStart + 2
  <2>1. i \in Nat /\ i + 2 <= Len(buf) /\ Base + i + 1 = At + 2
    <3>1. frameStart \in Nat /\ Base \in Nat
      BY Numbers
    <3> QED
      BY ONLY <1>3, <1>6, <3>1
  <2> HIDE DEF i
  <2>2. FieldAt(i, 2) = Cut(Stream, Base + i + 1, 2)
    BY <2>1, FieldInStream
  <2> QED
    BY <1>2, <2>1, <2>2 DEF LengthAt, i, length
<1>8. HeadLen(flags) = 4 /\ Has(Stream, At, 4) /\ Has(Stream, At, 2) /\ Has(Stream, At, 1)
  BY <1>2, <1>6, Lengths, Place DEF HeadLen, Has
<1>9. length \in 0..MaxUint16 /\ FieldsLen(flags) \in 0..10
  <2>1. At \in Nat \ {0} /\ Stream \in Seq(Byte)
    BY Place
  <2> QED
    BY <1>7, <1>8, <2>1, LengthRange, Widths
<1>10. CASE length < FieldsLen(flags)
  <2>1. TypeOK'
    BY <1>1, <1>2, <1>5, <1>10, Numbers, Lengths, MaxUint16IsNat DEF DecoderInv, TypeOK, Byte
  <2>2. InFrame'
    BY <1>1, <1>10 DEF InFrame
  <2>3. TooShort(Stream, At, flags)
    BY <1>7, <1>10 DEF TooShort
  <2>4. ~Incomplete(Stream, At) /\ After(Stream, At) = At + 4 /\ Found(Stream, At) = <<>>
    BY <1>2, <1>8, <2>3 DEF Incomplete, After, Found
  <2>5. At' = At + 4
    <3>1. At' = Base + (frameStart + 4) + 1
      BY <1>1, <1>3, <1>10 DEF At
    <3> QED
      BY <1>3, <3>1, Numbers
  <2>6. decoded \o <<>> = decoded
    BY DEF DecoderInv, Progress
  <2>7. Progress'
    BY <1>1, <1>4, <2>4, <2>5, <2>6, ProgressOn DEF Progress
  <2> QED
    BY <1>4, <2>1, <2>2, <2>7 DEF DecoderInv
<1>11. CASE ~(length < FieldsLen(flags))
  <2>1. bodyLen' \in 0..MaxUint16
    BY <1>1, <1>9, <1>11, MaxUint16IsNat
  <2>2. TypeOK'
    BY <1>1, <1>2, <1>5, <1>11, <2>1, Numbers, Lengths DEF DecoderInv, TypeOK
  <2>3. At' = At
    BY <1>1, <1>3, <1>11 DEF At
  <2>4. Passed' = 4
    BY <1>1, <1>8, <1>11 DEF Passed
  <2>5. InFrame'
    BY <1>1, <1>2, <1>4, <1>7, <1>11, <2>3, <2>4 DEF InFrame
  <2>6. Progress'
    BY <1>1, <1>4, <2>3 DEF DecoderInv, Progress
  <2> QED
    BY <1>4, <2>2, <2>5, <2>6 DEF DecoderInv
<1> QED
  BY <1>10, <1>11

\* Behind the length, it is known where the frame ends and what is in it.
LEMMA KnownFrame ==
  ASSUME DecoderInv, state \in {"opcode", "seq", "body", "crc", "padding"}
  PROVE  /\ At = Base + frameStart + 1 /\ Stream[At] = MagicByte /\ flags = Stream[At + 1]
         /\ bufPos = frameStart + Passed /\ Passed \in Nat
         /\ Passed >= HeadLen(flags)
         /\ At + HeadLen(flags) - 1 <= Len(Stream)
         /\ LengthAt(Stream, At, flags) = FieldsLen(flags) + bodyLen
         /\ bodyLen \in Nat
         /\ ~TooShort(Stream, At, flags)
         /\ SizeAt(Stream, At, flags)
              = HeadLen(flags) + FieldsLen(flags) + bodyLen
                  + PadLen(HeadLen(flags) + FieldsLen(flags) + bodyLen)
<1>1. /\ Stream[At] = MagicByte /\ bufPos = frameStart + Passed /\ flags = Stream[At + 1]
      /\ bodyLen = LengthAt(Stream, At, flags) - FieldsLen(flags)
      /\ bodyLen \in Nat
  BY MaxUint16IsNat DEF DecoderInv, InFrame, TypeOK
<1>2. At = Base + frameStart + 1
  BY DEF At
<1>3. Passed \in Nat /\ Passed >= HeadLen(flags)
  BY <1>1, Widths DEF Passed, FieldsLen
<1>4. HeadLen(flags) \in {2, 4} /\ FieldsLen(flags) \in Nat
  BY Widths
<1>5. At + HeadLen(flags) - 1 <= Base + bufPos
  BY <1>1, <1>2, <1>3, <1>4, Numbers
<1>6. At + HeadLen(flags) - 1 <= Len(Stream)
  <2>1. Base + bufPos <= Len(Stream)
    BY Numbers, Lengths
  <2>2. At + HeadLen(flags) - 1 \in Nat
    BY <1>2, <1>4, Numbers
  <2> QED
    BY <1>5, <2>1, <2>2, Numbers, Lengths
<1>7. LengthAt(Stream, At, flags) \in Nat
  <2>1. At \in Nat \ {0} /\ Stream \in Seq(Byte)
    BY Place
  <2>2. Has(Stream, At, HeadLen(flags))
    BY <1>4, <1>6, <2>1, Lengths DEF Has
  <2> QED
    BY <2>1, <2>2, LengthRange, MaxUint16IsNat
<1>8. LengthAt(Stream, At, flags) = FieldsLen(flags) + bodyLen
  BY <1>1, <1>4, <1>7
<1>9. /\ ~TooShort(Stream, At, flags)
      /\ HeadLen(flags) + LengthAt(Stream, At, flags) = HeadLen(flags) + FieldsLen(flags) + bodyLen
  BY <1>1, <1>4, <1>8 DEF TooShort
<1> QED
  BY <1>1, <1>2, <1>3, <1>6, <1>8, <1>9 DEF SizeAt

LEMMA PassFieldStep ==
  ASSUME DecoderInv, PassField
  PROVE  DecoderInv'
<1>1. /\ state \in {"opcode", "seq", "body", "crc"} /\ ~Missing
      /\ bufPos' = bufPos + Need /\ consumed' = consumed + Need /\ state' = Following
      /\ UNCHANGED <<sent, rest, buf, frameStart, flags, bodyLen, decoded>>
  BY DEF PassField, Consume, bufVars
<1>2. Need \in Nat
  BY <1>1, KnownFrame, Widths DEF Need
<1>3. Base' = Base
  BY <1>1, <1>2, BaseKept
<1>4. Buffered' /\ Stream' = Stream
  BY <1>1, <1>3, BufferKept
<1>5. state' \in {"seq", "body", "crc", "padding"}
  BY <1>1 DEF Following
<1>6. At' = At
  BY <1>1, <1>3, <1>5 DEF At
<1>7. bufPos + Need <= Len(buf)
  <2>1. bufPos \in Nat /\ Len(buf) \in Nat /\ ~(Len(buf) - bufPos < Need)
    BY <1>1, Numbers, Lengths DEF Missing
  <2> QED
    BY ONLY <1>2, <2>1
<1>8. TypeOK'
  <2>1. bufPos' \in 0..Len(buf) /\ frameStart \in 0..bufPos' /\ consumed' \in Nat
    BY <1>1, <1>2, <1>7, MovedOn
  <2> QED
    BY <1>1, <1>5, <2>1 DEF DecoderInv, TypeOK
<1>9. Passed' = Passed + Need /\ (state' = "body" => bodyLen > 0)
  <2>1. /\ HeadLen(flags) \in Nat /\ OpcodeLen(flags) \in Nat /\ SeqLen(flags) \in Nat
        /\ CRCLen(flags) \in Nat /\ bodyLen \in Nat
    BY <1>1, KnownFrame, Widths
  <2> QED
    BY <1>1, <2>1 DEF Passed, Need, Following, FieldsLen
<1>10. InFrame'
  <2>1. bufPos' = frameStart + Passed'
    <3>1. /\ frameStart \in Nat /\ Passed \in Nat /\ bufPos = frameStart + Passed
          /\ bufPos' = bufPos + Need /\ Passed' = Passed + Need
      BY <1>1, <1>9, Numbers, KnownFrame
    <3> QED
      BY ONLY <1>2, <3>1
  <2> QED
    BY <1>1, <1>4, <1>5, <1>6, <1>9, <2>1 DEF DecoderInv, InFrame
<1>11. Progress'
  BY <1>1, <1>4, <1>6 DEF DecoderInv, Progress
<1> QED
  BY <1>4, <1>8, <1>10, <1>11 DEF DecoderInv

\* At the end of a frame the buffer holds all of it, and what is built from the
\* buffer is what the stream says.
LEMMA WholeFrame ==
  ASSUME DecoderInv, state = "padding", ~Missing
  PROVE  /\ Padding \in Nat /\ bufPos + Padding <= Len(buf)
         /\ ~Incomplete(Stream, At)
         /\ After(Stream, At) = Base + bufPos + Padding + 1
         /\ Body0 \in Nat /\ Body0 + bodyLen + CRCLen(flags) = bufPos
         /\ Acceptable <=> AcceptableAt(Stream, At, flags)
         /\ Built = PacketAt(Stream, At, flags)
<1> DEFINE o == OpcodeLen(flags)
           q == SeqLen(flags)
           c == CRCLen(flags)
           h == HeadLen(flags)
           whole == h + FieldsLen(flags) + bodyLen
           b == Body0 + bodyLen
<1>1. /\ At = Base + frameStart + 1 /\ Stream[At] = MagicByte /\ flags = Stream[At + 1]
      /\ bodyLen \in Nat /\ ~TooShort(Stream, At, flags)
      /\ LengthAt(Stream, At, flags) = FieldsLen(flags) + bodyLen
      /\ SizeAt(Stream, At, flags) = whole + PadLen(whole)
  BY KnownFrame
<1>2. bufPos = frameStart + whole
  BY KnownFrame DEF Passed
<1>3. /\ o \in Nat /\ q \in Nat /\ c \in Nat /\ h \in {2, 4}
      /\ FieldsLen(flags) = o + q + c
  BY Widths DEF FieldsLen
<1>4. whole \in Nat /\ whole = h + o + q + c + bodyLen
  BY <1>1, <1>3
<1>5. Padding = PadLen(whole) /\ Padding \in Nat
  <2>1. bufPos - frameStart = whole
    BY <1>2, <1>4, Numbers
  <2> QED
    BY <1>4, <2>1, PadLenRange DEF Padding
<1>6. bufPos + Padding <= Len(buf)
  BY <1>5, Numbers, Lengths DEF Missing, Need
<1>7. Body0 = frameStart + h + o + q
  BY DEF Body0
<1> HIDE DEF o, q, c, h, whole
<1>8. Body0 \in Nat /\ b \in Nat /\ b + c = bufPos
  BY <1>1, <1>2, <1>3, <1>4, <1>7, Numbers
<1>9. At + SizeAt(Stream, At, flags) = Base + bufPos + Padding + 1
  BY <1>1, <1>2, <1>4, <1>5, Numbers
<1>10. ~Incomplete(Stream, At) /\ After(Stream, At) = Base + bufPos + Padding + 1
  <2>1. At + SizeAt(Stream, At, flags) <= Len(Stream) + 1
    <3>1. Base + (bufPos + Padding) <= Len(Stream)
      BY <1>5, <1>6, Numbers, Lengths
    <3>2. Base + bufPos + Padding + 1 = Base + (bufPos + Padding) + 1
      BY <1>5, Numbers
    <3>3. Base + (bufPos + Padding) \in Nat
      BY <1>5, Numbers
    <3>4. Base + (bufPos + Padding) + 1 <= Len(Stream) + 1
      BY <3>1, <3>3, Lengths
    <3> QED
      BY <1>9, <3>2, <3>4
  <2>2. SizeAt(Stream, At, flags) \in Nat /\ SizeAt(Stream, At, flags) >= h /\ At \in Nat
    BY <1>1, <1>3, <1>4, <1>5, Numbers
  <2>3. Has(Stream, At, 1) /\ Has(Stream, At, 2) /\ Has(Stream, At, h)
        /\ Has(Stream, At, SizeAt(Stream, At, flags))
    BY <1>3, <2>1, <2>2, Lengths DEF Has
  <2> QED
    BY <1>1, <1>9, <2>3 DEF Incomplete, After, h
<1>11. BodyAt(At, flags) = Base + Body0 + 1 /\ CRCAt(Stream, At, flags) = Base + b + 1
  <2>1. BodyAt(At, flags) = At + h + o + q
    BY DEF BodyAt, h, o, q
  <2>2. CRCAt(Stream, At, flags) = At + h + (o + q + c + bodyLen) - c
    BY <1>1, <1>3 DEF CRCAt, h, c
  <2>3. b = Body0 + bodyLen
    OBVIOUS
  <2> HIDE DEF b
  <2> QED
    BY <1>1, <1>3, <1>7, <2>1, <2>2, <2>3, Numbers
<1>12. b <= bufPos /\ bufPos <= Len(buf)
  BY <1>3, <1>8, Numbers, Lengths
<1>13. b + c <= Len(buf)
  BY <1>8, <1>12
<1> HIDE DEF b
<1>14. Acceptable <=> AcceptableAt(Stream, At, flags)
  <2>1. FieldAt(b, c) = Cut(Stream, CRCAt(Stream, At, flags), c)
    BY <1>3, <1>8, <1>11, <1>13, FieldInStream
  <2>2. FieldAt(frameStart + 1, b - frameStart - 1)
          = Cut(Stream, At + 1, CRCAt(Stream, At, flags) - At - 1)
    <3> DEFINE n == b - frameStart - 1
               i == frameStart + 1
    <3>1. b >= frameStart + h
      BY <1>1, <1>3, <1>7, Numbers DEF b
    <3>2. i \in Nat /\ n \in Nat /\ i + n = b
      BY <1>3, <1>8, <3>1, Numbers
    <3>3. Base + i + 1 = At + 1 /\ n = CRCAt(Stream, At, flags) - At - 1
      BY <1>1, <1>8, <1>11, Numbers
    <3> HIDE DEF n, i
    <3>4. i + n <= Len(buf)
      BY <1>8, <1>12, <3>2, Numbers, Lengths
    <3>5. FieldAt(i, n) = Cut(Stream, Base + i + 1, n)
      BY <3>2, <3>4, FieldInStream
    <3> QED
      BY <3>3, <3>5 DEF n, i
  <2>3. (bodyLen > 0) = (CRCAt(Stream, At, flags) > BodyAt(At, flags))
    BY <1>1, <1>8, <1>11, Numbers DEF b
  <2>4. Validate(flags, bodyLen > 0) <=> Validate(flags, CRCAt(Stream, At, flags) > BodyAt(At, flags))
    BY <2>3 DEF Validate
  <2>5. Acceptable <=>
          /\ FieldAt(b, c) = ComputeCRC(FieldAt(frameStart + 1, b - frameStart - 1), c)
          /\ Validate(flags, bodyLen > 0)
    <3>1. /\ FieldAt(Body0 + bodyLen, c) = FieldAt(b, c)
          /\ FieldAt(frameStart + 1, Body0 + bodyLen - frameStart - 1)
               = FieldAt(frameStart + 1, b - frameStart - 1)
      <4>1. Body0 + bodyLen = b /\ b \in Nat /\ frameStart \in Nat /\ Body0 \in Nat
            /\ bodyLen \in Nat
        BY <1>1, <1>8, Numbers DEF b
      <4>2. Body0 + bodyLen - frameStart - 1 = b - frameStart - 1
        BY <4>1
      <4> QED
        BY <4>1, <4>2
    <3> QED
      BY <3>1, Zenon DEF Acceptable, c
  <2>6. AcceptableAt(Stream, At, flags) <=>
          /\ Cut(Stream, CRCAt(Stream, At, flags), c)
               = ComputeCRC(Cut(Stream, At + 1, CRCAt(Stream, At, flags) - At - 1), c)
          /\ Validate(flags, CRCAt(Stream, At, flags) > BodyAt(At, flags))
    BY Zenon DEF AcceptableAt, c
  <2> QED
    BY <2>1, <2>2, <2>4, <2>5, <2>6
<1>15. Built = PacketAt(Stream, At, flags)
  <2> DEFINE i == Body0 - q - o
             j == Body0 - q
  <2>1. /\ i \in Nat /\ i = frameStart + h /\ j \in Nat /\ j = frameStart + h + o
        /\ i + o <= b /\ j + q <= b /\ Body0 + bodyLen <= b
    BY <1>1, <1>3, <1>7, Numbers DEF b
  <2>2. Base + i + 1 = At + h /\ Base + j + 1 = At + h + o
    BY <1>1, <1>3, <2>1, Numbers
  <2>3. bodyLen = CRCAt(Stream, At, flags) - BodyAt(At, flags)
    BY <1>1, <1>8, <1>11, Numbers DEF b
  <2> HIDE DEF i, j
  <2>4. i + o <= Len(buf) /\ j + q <= Len(buf) /\ Body0 + bodyLen <= Len(buf)
    <3>1. bodyLen \in Nat
      BY <1>1
    <3> QED
      <4>1. \A x \in Nat : x <= b => x <= Len(buf)
        BY <1>8, <1>12, Numbers, Lengths
      <4>2. i + o \in Nat /\ j + q \in Nat /\ Body0 + bodyLen \in Nat
        BY <1>3, <1>8, <2>1, <3>1
      <4> QED
        BY <2>1, <4>1, <4>2
  <2>5. FieldAt(i, o) = Cut(Stream, At + h, o)
    BY <1>3, <2>1, <2>2, <2>4, FieldInStream
  <2>6. FieldAt(j, q) = Cut(Stream, At + h + o, q)
    BY <1>3, <2>1, <2>2, <2>4, FieldInStream
  <2>7. FieldAt(Body0, bodyLen)
          = Cut(Stream, BodyAt(At, flags), CRCAt(Stream, At, flags) - BodyAt(At, flags))
    <3>1. FieldAt(Body0, bodyLen) = Cut(Stream, Base + Body0 + 1, bodyLen)
      BY <1>1, <1>8, <2>4, FieldInStream
    <3> QED
      BY <1>11, <2>3, <3>1
  <2> QED
    BY <2>5, <2>6, <2>7 DEF Built, PacketAt, i, j, o, q, h
<1> QED
  BY <1>5, <1>6, <1>8, <1>10, <1>14, <1>15 DEF b, c

LEMMA RejectStep ==
  ASSUME DecoderInv, Reject
  PROVE  DecoderInv'
<1>1. /\ state = "padding" /\ ~Missing /\ ~Acceptable
      /\ bufPos' = bufPos + Padding /\ consumed' = consumed + Padding
      /\ state' = "magic" /\ flags' = 0 /\ bodyLen' = 0
      /\ UNCHANGED <<sent, rest, buf, frameStart, decoded>>
  BY DEF Reject, Consume, ResetFrame, bufVars
<1>2. /\ Padding \in Nat /\ bufPos + Padding <= Len(buf) /\ ~Incomplete(Stream, At)
      /\ After(Stream, At) = Base + bufPos + Padding + 1
      /\ ~AcceptableAt(Stream, At, flags)
  BY <1>1, WholeFrame
<1>3. Base' = Base
  BY <1>1, <1>2, BaseKept
<1>4. At' = After(Stream, At)
  <2>1. At' = Base + (bufPos + Padding) + 1
    BY <1>1, <1>3 DEF At
  <2> QED
    BY <1>2, <2>1, Numbers
<1>5. Buffered' /\ Stream' = Stream
  BY <1>1, <1>3, BufferKept
<1>6. TypeOK'
  <2>1. bufPos' \in 0..Len(buf) /\ frameStart \in 0..bufPos' /\ consumed' \in Nat
    <3>1. bufPos' = bufPos + Padding /\ consumed' = consumed + Padding
      BY <1>1
    <3> QED
      BY <1>2, <3>1, MovedOn
  <2> QED
    BY <1>1, <2>1, MaxUint16IsNat DEF DecoderInv, TypeOK, Byte
<1>7. InFrame'
  BY <1>1 DEF InFrame
<1>8. Found(Stream, At) = <<>>
  <2>1. flags = Stream[At + 1]
    BY <1>1, KnownFrame
  <2> QED
    BY <1>2, <2>1 DEF Found
<1>9. decoded \o <<>> = decoded
  BY DEF DecoderInv, Progress
<1>10. Progress'
  BY <1>1, <1>2, <1>4, <1>5, <1>8, <1>9, ProgressOn DEF Progress
<1> QED
  BY <1>5, <1>6, <1>7, <1>10 DEF DecoderInv

LEMMA ReturnStep ==
  ASSUME DecoderInv, Return
  PROVE  DecoderInv'
<1> DEFINE n == bufPos + Padding
<1>1. /\ state = "padding" /\ ~Missing /\ Acceptable
      /\ decoded' = Append(decoded, Built) /\ consumed' = consumed + Padding
      /\ buf' = SubSeq(buf, n + 1, Len(buf)) /\ frameStart' = 0 /\ bufPos' = 0
      /\ state' = "magic" /\ flags' = 0 /\ bodyLen' = 0
      /\ UNCHANGED <<sent, rest>>
  BY DEF Return, Compact, ResetFrame
<1>2. /\ Padding \in Nat /\ n <= Len(buf) /\ ~Incomplete(Stream, At)
      /\ After(Stream, At) = Base + bufPos + Padding + 1
      /\ AcceptableAt(Stream, At, flags) /\ Built = PacketAt(Stream, At, flags)
  BY <1>1, WholeFrame
<1>3. n \in Nat /\ Base + bufPos + Padding = Base + n
  BY <1>2, Numbers
<1>4. Base' = Base + n /\ Base' \in Nat /\ consumed' \in Nat
  <2>1. Base' = consumed + Padding
    BY <1>1, <1>2, Numbers DEF Base
  <2>2. consumed \in Nat /\ Base \in Nat /\ bufPos \in Nat /\ consumed = Base + bufPos
    BY Numbers
  <2>3. consumed' = consumed + Padding /\ Padding \in Nat
    BY <1>1, <1>2
  <2> QED
    BY ONLY <2>1, <2>2, <2>3
<1>5. At' = After(Stream, At)
  <2>1. At' = Base' + 0 + 1
    BY <1>1 DEF At
  <2> QED
    BY <1>2, <1>3, <1>4, <2>1
<1> HIDE DEF n
<1>6. Stream' = Stream
  BY <1>1 DEF Stream
<1>7. /\ buf \in Seq(Byte) /\ rest \in Seq(Byte)
      /\ Base + Len(buf) + Len(rest) = Len(Stream)
      /\ \A i \in 1..Len(buf) : buf[i] = Stream[Base + i]
      /\ \A i \in 1..Len(rest) : rest[i] = Stream[Base + Len(buf) + i]
  BY DEF DecoderInv, Buffered
<1>8. /\ buf' \in Seq(Byte) /\ Len(buf') = Len(buf) - n
      /\ \A i \in 1..Len(buf') : buf'[i] = buf[n + i]
  BY <1>1, <1>2, <1>3, <1>7
<1>9. Buffered'
  <2>1. ASSUME NEW i \in 1..Len(buf') PROVE buf'[i] = Stream[Base' + i]
    <3>1. n + i \in 1..Len(buf)
      BY <1>2, <1>3, <1>8, Lengths
    <3>2. Base + (n + i) = Base' + i
      BY <1>3, <1>4, <1>8, Numbers
    <3> QED
      BY <1>7, <1>8, <3>1, <3>2
  <2>2. Base' + Len(buf') = Base + Len(buf)
    BY <1>3, <1>4, <1>8, Numbers, Lengths
  <2> QED
    BY <1>1, <1>4, <1>6, <1>7, <1>8, <2>1, <2>2 DEF Buffered
<1>10. TypeOK'
  <2>1. Len(buf') \in Nat
    BY <1>8
  <2>2. 0 \in 0..Len(buf') /\ 0 \in 0..0 /\ 0 \in 0..MaxUint16 /\ 0 \in 0..255
    BY <2>1, MaxUint16IsNat
  <2>3. sent' \in BoundedSeq(Pieces, MaxPieces) /\ Len(rest') <= Len(Bytes(sent'))
    BY <1>1 DEF DecoderInv, TypeOK
  <2> QED
    BY <1>1, <1>4, <2>2, <2>3 DEF TypeOK, Byte
<1>11. InFrame'
  BY <1>1 DEF InFrame
<1>12. Found(Stream, At) = <<Built>>
  <2>1. flags = Stream[At + 1] /\ Stream[At] = MagicByte /\ ~TooShort(Stream, At, flags)
    BY <1>1, KnownFrame
  <2> QED
    BY <1>2, <2>1 DEF Found
<1>13. decoded' = decoded \o <<Built>>
  BY <1>1 DEF DecoderInv, Progress
<1>14. Progress'
  BY <1>2, <1>5, <1>6, <1>12, <1>13, ProgressOn DEF Progress
<1> QED
  BY <1>9, <1>10, <1>11, <1>14 DEF DecoderInv

LEMMA DecoderStep ==
  ASSUME DecoderInv, [Next]_vars
  PROVE  DecoderInv'
<1>1. CASE Read
  BY <1>1, ReadStep
<1>2. CASE SkipByte
  BY <1>2, SkipByteStep
<1>3. CASE ReadMagic
  BY <1>3, ReadMagicStep
<1>4. CASE ReadFlags
  BY <1>4, ReadFlagsStep
<1>5. CASE ReadLength
  BY <1>5, ReadLengthStep
<1>6. CASE PassField
  BY <1>6, PassFieldStep
<1>7. CASE Reject
  BY <1>7, RejectStep
<1>8. CASE Return
  BY <1>8, ReturnStep
<1>9. CASE UNCHANGED vars
  <2>1. UNCHANGED <<sent, rest, buf, bufPos, state, frameStart, flags, bodyLen, consumed, decoded>>
    BY <1>9 DEF vars, bufVars, frameVars
  <2>2. Base' = Base /\ Stream' = Stream
    BY <2>1 DEF Base, Stream
  <2>3. At' = At
    BY <2>1, <2>2 DEF At
  <2>4. TypeOK' /\ Buffered'
    BY <2>1, <2>2 DEF DecoderInv, TypeOK, Buffered
  <2>5. InFrame' /\ Progress'
    BY <2>1, <2>2, <2>3 DEF DecoderInv, InFrame, Passed, Progress
  <2> QED
    BY <2>4, <2>5 DEF DecoderInv
<1> QED
  BY <1>1, <1>2, <1>3, <1>4, <1>5, <1>6, <1>7, <1>8, <1>9 DEF Next

\* What is in the buffer and what is unread are what is left of the stream; what
\* is known of a frame is what the stream says; and the packets returned and those
\* still to be found are the packets of the stream.
THEOREM DecoderInvariant == Spec => []DecoderInv
<1>1. Init => DecoderInv
  BY DecoderInit
<1>2. DecoderInv /\ [Next]_vars => DecoderInv'
  BY DecoderStep
<1> QED
  BY <1>1, <1>2, PTL DEF Spec

\* Every field of the decoder keeps its type, and its offsets stay in the buffer.
THEOREM TypeCorrect == Spec => []TypeOK
<1>1. DecoderInv => TypeOK
  BY DEF DecoderInv
<1> QED
  BY <1>1, DecoderInvariant, PTL

-----------------------------------------------------------------------------
(* What Decode has returned by io.EOF                                        *)

\* Decode returns io.EOF with nothing complete left at the place it has come to.
LEMMA NothingLeft ==
  ASSUME DecoderInv, Ended
  PROVE  FramesFrom(Stream)[At] = <<>>
<1>1. Missing /\ rest = <<>>
  BY DEF Ended
<1>2. Base + Len(buf) = Len(Stream)
  BY <1>1, Numbers, Lengths
<1>3. Need \in Nat => Base + bufPos + Need > Len(Stream)
  BY <1>1, <1>2, Numbers, Lengths DEF Missing
<1>4. state \in {"magic", "flags", "length", "opcode", "seq", "body", "crc", "padding"}
  BY DEF DecoderInv, TypeOK
<1>5. Incomplete(Stream, At)
  <2>1. CASE state = "magic"
    <3>1. At = Base + bufPos + 1 /\ Need = 1
      BY <2>1 DEF At, Need
    <3> QED
      BY <1>3, <3>1, Numbers, Lengths DEF Incomplete, Has
  <2>2. CASE state = "flags"
    <3>1. At = Base + frameStart + 1 /\ Need = 1 /\ Stream[At] = MagicByte
      BY <2>2 DEF At, Need, DecoderInv, InFrame
    <3>2. bufPos = frameStart + 1
      BY <2>2 DEF DecoderInv, InFrame, Passed
    <3>3. ~Has(Stream, At, 2)
      <4>1. Base + bufPos + Need = At + 1 /\ At \in Nat
        BY <3>1, <3>2, Numbers
      <4>2. At + 1 > Len(Stream)
        BY <1>3, <3>1, <4>1
      <4> QED
        BY <4>1, <4>2, Lengths DEF Has
    <3> QED
      BY <3>1, <3>3 DEF Incomplete
  <2>3. CASE state = "length"
    <3>1. At = Base + frameStart + 1 /\ Need = 2 /\ Stream[At] = MagicByte
          /\ flags = Stream[At + 1] /\ HeadLen(flags) = 4
      BY <2>3 DEF At, Need, DecoderInv, InFrame, HeadLen
    <3>2. bufPos = frameStart + 2
      BY <2>3 DEF DecoderInv, InFrame, Passed
    <3>3. ~Has(Stream, At, 4)
      <4>1. Base + bufPos + Need = At + 3 /\ At \in Nat
        BY <3>1, <3>2, Numbers
      <4>2. At + 3 > Len(Stream)
        BY <1>3, <3>1, <4>1
      <4> QED
        BY <4>1, <4>2, Lengths DEF Has
    <3> QED
      BY <3>1, <3>3 DEF Incomplete
  <2>4. CASE state \in {"opcode", "seq", "body", "crc", "padding"}
    <3> DEFINE size == SizeAt(Stream, At, flags)
               whole == HeadLen(flags) + FieldsLen(flags) + bodyLen
    <3>1. /\ At = Base + frameStart + 1 /\ Stream[At] = MagicByte /\ flags = Stream[At + 1]
          /\ bufPos = frameStart + Passed /\ Passed \in Nat /\ bodyLen \in Nat
          /\ ~TooShort(Stream, At, flags) /\ size = whole + PadLen(whole)
      BY <2>4, KnownFrame
    <3>2. whole \in Nat /\ PadLen(whole) \in Nat
      BY <3>1, Widths, PadLenRange
    <3>3. Need \in Nat /\ Passed + Need <= size
      <4>1. CASE state = "padding"
        <5>1. Passed = whole
          BY <4>1 DEF Passed
        <5>2. bufPos - frameStart = whole
          BY <3>1, <3>2, <5>1, Numbers
        <5>3. Need = PadLen(whole)
          BY <4>1, <5>2 DEF Need, Padding
        <5> QED
          BY <3>1, <3>2, <5>1, <5>3
      <4>2. CASE state # "padding"
        <5>1. Need \in Nat /\ Passed + Need <= whole
          BY <2>4, <3>1, <4>2, Widths DEF Passed, Need, FieldsLen
        <5> HIDE DEF whole
        <5> QED
          BY <3>1, <3>2, <5>1
      <4> QED
        BY <4>1, <4>2
    <3>4. ~Has(Stream, At, size)
      <4>1. Base + bufPos + Need = Base + frameStart + (Passed + Need)
        BY <3>1, <3>3, Numbers
      <4>2. size \in Nat
        BY <3>1, <3>2
      <4> HIDE DEF size
      <4>3. At + size > Len(Stream) + 1
        <5> DEFINE place == Base + frameStart
        <5>1. place \in Nat /\ At = place + 1 /\ place + (Passed + Need) > Len(Stream)
          <6>1. place + (Passed + Need) > Len(Stream)
            BY <1>3, <3>3, <4>1
          <6>2. place \in Nat /\ At = place + 1
            BY <3>1, Numbers
          <6> QED
            BY <6>1, <6>2
        <5>2. Passed + Need \in Nat /\ Passed + Need <= size
          BY <3>1, <3>3
        <5> HIDE DEF place
        <5>3. place + size > Len(Stream)
          BY <4>2, <5>1, <5>2, Lengths
        <5> QED
          BY <4>2, <5>1, <5>3, Lengths
      <4> QED
        BY <4>2, <4>3, Lengths, Place DEF Has
    <3> QED
      BY <3>1, <3>4 DEF Incomplete
  <2> QED
    BY <1>4, <2>1, <2>2, <2>3, <2>4
<1> QED
  BY <1>5, Place, FramesFromEquation

LEMMA PrefixOf ==
  ASSUME NEW S, NEW a \in Seq(S), NEW b \in Seq(S)
  PROVE  IsPrefix(a, a \o b)
<1>1. /\ a \o b \in Seq(S) /\ Len(a \o b) = Len(a) + Len(b)
      /\ \A i \in 1..Len(a) : (a \o b)[i] = a[i]
  BY ConcatProperties
<1>2. Len(a) <= Len(a \o b)
  BY <1>1
<1>3. SubSeq(a \o b, 1, Len(a)) \in Seq(S) /\ Len(SubSeq(a \o b, 1, Len(a))) = Len(a)
      /\ \A i \in 1..Len(a) : SubSeq(a \o b, 1, Len(a))[i] = a[i]
  BY <1>1, <1>2
<1>4. SubSeq(a \o b, 1, Len(a)) = a
  BY <1>3, SeqEqual
<1>5. SubSeq(a, 1, Len(a)) = a
  OBVIOUS
<1> QED
  BY <1>2, <1>4, <1>5 DEF IsPrefix

\* However the stream is cut up in reading, Decode returns the packets that are
\* in it and no others, in order, all of them by io.EOF; and every byte is accounted for.
THEOREM CutsNeverMatter == Spec => []CutsDoNotMatter
<1>1. ASSUME DecoderInv PROVE CutsDoNotMatter
  <2> DEFINE S == PacketsIn(Stream)
             left == FramesFrom(Stream)[At]
  <2>1. decoded \in Seq(S) /\ left \in Seq(S) /\ decoded \o left = FramesOf(Stream)
    BY <1>1, Place, FramesFromType DEF DecoderInv, Progress
  <2> HIDE DEF S
  <2>2. IsPrefix(decoded, FramesOf(Stream))
    BY <2>1, PrefixOf
  <2>3. Ended => decoded = FramesOf(Stream)
    BY <1>1, <2>1, NothingLeft, ConcatEmptySeq
  <2>4. consumed + (Len(buf) - bufPos) + Len(rest) = Len(Stream)
    BY <1>1, Numbers, Lengths
  <2> QED
    BY <2>2, <2>3, <2>4 DEF CutsDoNotMatter, Stream
<1> QED
  BY <1>1, DecoderInvariant, PTL

-----------------------------------------------------------------------------
(* What Encode makes of a packet is a frame in which the packet is found      *)

\* The n bytes from the i-th on of what is joined are those of its left or its
\* right part.
LEMMA CutLeft ==
  ASSUME NEW S, NEW x \in Seq(S), NEW y \in Seq(S), NEW i \in Nat \ {0}, NEW n \in Nat, Has(x, i, n)
  PROVE  Has(x \o y, i, n) /\ Cut(x \o y, i, n) = Cut(x, i, n)
<1> DEFINE z == x \o y
<1>1. /\ z \in Seq(S) /\ Len(z) = Len(x) + Len(y) /\ Len(x) \in Nat /\ Len(y) \in Nat
      /\ \A j \in 1..Len(x) : z[j] = x[j]
  BY ConcatProperties
<1> HIDE DEF z
<1>2. Has(z, i, n)
  BY <1>1 DEF Has
<1>3. Stretch(S, x, z, 0)
  BY <1>1 DEF Stretch
<1>4. Cut(x, i, n) = Cut(z, 0 + i, n)
  BY <1>3, StretchCut
<1>5. 0 + i = i
  OBVIOUS
<1> QED
  BY <1>2, <1>4, <1>5 DEF z

LEMMA CutRight ==
  ASSUME NEW S, NEW x \in Seq(S), NEW y \in Seq(S), NEW i \in Nat \ {0}, NEW n \in Nat, Has(y, i, n)
  PROVE  Has(x \o y, Len(x) + i, n) /\ Cut(x \o y, Len(x) + i, n) = Cut(y, i, n)
<1> DEFINE z == x \o y
           base == Len(x)
<1>1. /\ z \in Seq(S) /\ Len(z) = base + Len(y) /\ base \in Nat /\ Len(y) \in Nat
      /\ \A j \in 1..Len(y) : y[j] = z[base + j]
  <2>1. /\ z \in Seq(S) /\ Len(z) = Len(x) + Len(y) /\ Len(x) \in Nat /\ Len(y) \in Nat
        /\ \A j \in 1 .. Len(x) + Len(y) : z[j] = IF j <= Len(x) THEN x[j] ELSE y[j - Len(x)]
    BY ConcatProperties
  <2>2. ASSUME NEW j \in 1..Len(y) PROVE y[j] = z[base + j]
    <3>1. base + j \in 1..(Len(x) + Len(y)) /\ ~(base + j <= Len(x)) /\ base + j - Len(x) = j
      BY <2>1
    <3> QED
      BY <2>1, <3>1
  <2> QED
    BY <2>1, <2>2
<1> HIDE DEF z, base
<1>2. Has(z, base + i, n)
  BY <1>1 DEF Has
<1>3. Cut(y, i, n) = Cut(z, base + i, n)
  <2>1. Stretch(S, y, z, base)
    BY <1>1 DEF Stretch
  <2> QED
    BY <2>1, StretchCut
<1> QED
  BY <1>2, <1>3 DEF z, base

\* All of it.
LEMMA CutWhole ==
  ASSUME NEW S, NEW x \in Seq(S)
  PROVE  Has(x, 1, Len(x)) /\ Cut(x, 1, Len(x)) = x
<1>1. 1 + Len(x) - 1 = Len(x) /\ Len(x) \in Nat
  OBVIOUS
<1>2. Cut(x, 1, Len(x)) = SubSeq(x, 1, Len(x))
  BY <1>1 DEF Cut
<1>3. SubSeq(x, 1, Len(x)) = x
  OBVIOUS
<1> QED
  BY <1>1, <1>2, <1>3 DEF Has

\* What stands between two others.
LEMMA CutBetween ==
  ASSUME NEW S, NEW x \in Seq(S), NEW y \in Seq(S), NEW z \in Seq(S)
  PROVE  Has((x \o y) \o z, Len(x) + 1, Len(y)) /\ Cut((x \o y) \o z, Len(x) + 1, Len(y)) = y
<1>1. Has(y, 1, Len(y)) /\ Cut(y, 1, Len(y)) = y
  BY CutWhole
<1> DEFINE n == Len(y)
           i == Len(x) + 1
           k == 1
           w == x \o y
<1>2. n \in Nat /\ k \in Nat \ {0} /\ i \in Nat \ {0} /\ w \in Seq(S) /\ i = Len(x) + k
  BY ConcatProperties
<1>3. Has(y, k, n) /\ Cut(y, k, n) = y
  BY <1>1
<1> HIDE DEF n, k
<1>4. Has(w, i, n) /\ Cut(w, i, n) = y
  BY <1>2, <1>3, CutRight
<1> HIDE DEF i, w
<1>5. Has(w \o z, i, n) /\ Cut(w \o z, i, n) = y
  BY <1>2, <1>4, CutLeft
<1> QED
  BY <1>5 DEF w, i, n

\* What fits is read as it was put.
LEMMA PutAndRead ==
  ASSUME NEW v \in Nat, NEW n \in {0, 2, 4},
         Fits(v, n)
  PROVE  /\ PutUintN(v, n) \in Seq(Nat) /\ Len(PutUintN(v, n)) = n
         /\ ReadUintN(PutUintN(v, n)) = v
<1>1. CASE n = 0
  BY <1>1 DEF PutUintN, ReadUintN, Fits
<1>2. CASE n = 2
  <2> DEFINE a == (v \div 256) % 256
             b == v % 256
             t == <<a, b>>
  <2>1. a \in Nat /\ b \in Nat /\ 256 * a + b = v
    BY SMT, <1>2 DEF Fits, MaxUint16
  <2>2. PutUintN(v, n) = t
    BY <1>2 DEF PutUintN
  <2> HIDE DEF a, b
  <2>3. ReadUintN(t) = v
    BY <2>1 DEF ReadUintN
  <2>4. t \in Seq(Nat) /\ Len(t) = 2
    BY <2>1
  <2> HIDE DEF t
  <2> QED
    BY <1>2, <2>2, <2>3, <2>4
<1>3. CASE n = 4
  <2> DEFINE a == (v \div 16777216) % 256
             b == (v \div 65536) % 256
             c == (v \div 256) % 256
             d == v % 256
             t == <<a, b, c, d>>
  <2>1. a \in Nat /\ b \in Nat /\ c \in Nat /\ d \in Nat
    BY SMT
  <2>2. 16777216 * a + 65536 * b + 256 * c + d = v
    BY SMT, <1>3 DEF Fits, MaxUint16
  <2>3. PutUintN(v, n) = t
    BY <1>3 DEF PutUintN
  <2> HIDE DEF a, b, c, d
  <2>4. ReadUintN(t) = 16777216 * a + 65536 * b + 256 * c + d
    BY SMT DEF ReadUintN
  <2>5. t \in Seq(Nat) /\ Len(t) = 4
    BY <2>1
  <2> HIDE DEF t
  <2>6. ReadUintN(t) = v
    BY SMT, <2>2, <2>4
  <2> QED
    BY <1>3, <2>3, <2>5, <2>6
<1> QED
  BY <1>1, <1>2, <1>3

\* The n bytes from the i-th on of what stands between two others.
LEMMA CutInside ==
  ASSUME NEW S, NEW m \in Seq(S), NEW x \in Seq(S), NEW z \in Seq(S),
         NEW i \in Nat \ {0}, NEW n \in Nat, Has(x, i, n)
  PROVE  Has((m \o x) \o z, Len(m) + i, n) /\ Cut((m \o x) \o z, Len(m) + i, n) = Cut(x, i, n)
<1> DEFINE w == m \o x
           k == Len(m) + i
<1>1. w \in Seq(S) /\ k \in Nat \ {0}
  BY ConcatProperties
<1>2. Has(w, k, n) /\ Cut(w, k, n) = Cut(x, i, n)
  BY CutRight
<1> HIDE DEF w, k
<1>3. Has(w \o z, k, n) /\ Cut(w \o z, k, n) = Cut(w, k, n)
  BY <1>1, <1>2, CutLeft
<1>4. Has(w \o z, k, n) /\ Cut(w \o z, k, n) = Cut(x, i, n)
  BY <1>2, <1>3
<1> QED
  BY <1>4 DEF w, k

\* Flags, length, opcode, sequence number and body, one behind the other, are x.
CoveredIs(x, S, fl, le, op, sq, bd) ==
  /\ x \in Seq(S) /\ Len(x) = Len(fl) + Len(le) + Len(op) + Len(sq) + Len(bd)
  /\ Has(x, 1, Len(fl)) /\ Cut(x, 1, Len(fl)) = fl
  /\ Has(x, Len(fl) + 1, Len(le)) /\ Cut(x, Len(fl) + 1, Len(le)) = le
  /\ Has(x, Len(fl) + Len(le) + 1, Len(op))
  /\ Cut(x, Len(fl) + Len(le) + 1, Len(op)) = op
  /\ Has(x, Len(fl) + Len(le) + Len(op) + 1, Len(sq))
  /\ Cut(x, Len(fl) + Len(le) + Len(op) + 1, Len(sq)) = sq
  /\ Has(x, Len(fl) + Len(le) + Len(op) + Len(sq) + 1, Len(bd))
  /\ Cut(x, Len(fl) + Len(le) + Len(op) + Len(sq) + 1, Len(bd)) = bd

LEMMA CoveredLayout ==
  ASSUME NEW S, NEW fl \in Seq(S), NEW le \in Seq(S), NEW op \in Seq(S), NEW sq \in Seq(S),
         NEW bd \in Seq(S)
  PROVE  CoveredIs(fl \o le \o op \o sq \o bd, S, fl, le, op, sq, bd)
<1> DEFINE x == fl \o le \o op \o sq \o bd
           a == fl \o le
           b == a \o op
           c == b \o sq
<1>1. a \in Seq(S) /\ Len(a) = Len(fl) + Len(le)
  BY ConcatProperties
<1> HIDE DEF a
<1>2. b \in Seq(S) /\ Len(b) = Len(a) + Len(op)
  BY <1>1, ConcatProperties
<1> HIDE DEF b
<1>3. c \in Seq(S) /\ Len(c) = Len(b) + Len(sq)
  BY <1>2, ConcatProperties
<1> HIDE DEF c
<1>4. x = c \o bd
  BY DEF a, b, c
<1> HIDE DEF x
<1>5. x \in Seq(S) /\ Len(x) = Len(c) + Len(bd)
  BY <1>3, <1>4, ConcatProperties
<1>6. /\ Len(fl) \in Nat /\ Len(le) \in Nat /\ Len(op) \in Nat /\ Len(sq) \in Nat /\ Len(bd) \in Nat
      /\ Len(a) \in Nat /\ Len(b) \in Nat /\ Len(c) \in Nat
  BY <1>1, <1>2, <1>3
<1>7. ASSUME NEW i \in Nat \ {0}, NEW n \in Nat, NEW y, Has(c, i, n), Cut(c, i, n) = y
      PROVE  Has(x, i, n) /\ Cut(x, i, n) = y
  BY <1>3, <1>4, <1>7, CutLeft
<1>8. ASSUME NEW i \in Nat \ {0}, NEW n \in Nat, NEW y, Has(b, i, n), Cut(b, i, n) = y
      PROVE  Has(x, i, n) /\ Cut(x, i, n) = y
  <2>1. Has(c, i, n) /\ Cut(c, i, n) = y
    BY <1>2, <1>8, CutLeft DEF c
  <2> QED
    BY <1>7, <2>1
<1>9. ASSUME NEW i \in Nat \ {0}, NEW n \in Nat, NEW y, Has(a, i, n), Cut(a, i, n) = y
      PROVE  Has(x, i, n) /\ Cut(x, i, n) = y
  <2>1. Has(b, i, n) /\ Cut(b, i, n) = y
    BY <1>1, <1>9, CutLeft DEF b
  <2> QED
    BY <1>8, <2>1
<1>10. Has(x, 1, Len(fl)) /\ Cut(x, 1, Len(fl)) = fl
  <2> DEFINE i == 1
             n == Len(fl)
  <2>1. i \in Nat \ {0} /\ n \in Nat /\ Has(fl, i, n) /\ Cut(fl, i, n) = fl
    BY CutWhole
  <2> HIDE DEF i, n
  <2>2. Has(a, i, n) /\ Cut(a, i, n) = fl
    BY <2>1, CutLeft DEF a
  <2>3. Has(x, i, n) /\ Cut(x, i, n) = fl
    BY <1>9, <2>1, <2>2
  <2> QED
    BY <2>3 DEF i, n
<1>11. Has(x, Len(fl) + 1, Len(le)) /\ Cut(x, Len(fl) + 1, Len(le)) = le
  <2> DEFINE i == Len(fl) + 1
             n == Len(le)
  <2>1. i \in Nat \ {0} /\ n \in Nat
    BY <1>6
  <2>2. Has(b, i, n) /\ Cut(b, i, n) = le
    BY CutBetween DEF a, b
  <2> HIDE DEF i, n
  <2>3. Has(x, i, n) /\ Cut(x, i, n) = le
    BY <1>8, <2>1, <2>2
  <2> QED
    BY <2>3 DEF i, n
<1>12. Has(x, Len(a) + 1, Len(op)) /\ Cut(x, Len(a) + 1, Len(op)) = op
  <2> DEFINE i == Len(a) + 1
             n == Len(op)
  <2>1. i \in Nat \ {0} /\ n \in Nat
    BY <1>6
  <2>2. Has(c, i, n) /\ Cut(c, i, n) = op
    BY <1>1, CutBetween DEF b, c
  <2> HIDE DEF i, n
  <2>3. Has(x, i, n) /\ Cut(x, i, n) = op
    BY <1>7, <2>1, <2>2
  <2> QED
    BY <2>3 DEF i, n
<1>13. Has(x, Len(b) + 1, Len(sq)) /\ Cut(x, Len(b) + 1, Len(sq)) = sq
  <2>1. Has((b \o sq) \o bd, Len(b) + 1, Len(sq)) /\ Cut((b \o sq) \o bd, Len(b) + 1, Len(sq)) = sq
    BY <1>2, CutBetween
  <2>2. x = (b \o sq) \o bd
    BY <1>4 DEF c
  <2> QED
    BY <2>1, <2>2
<1>14. Has(x, Len(c) + 1, Len(bd)) /\ Cut(x, Len(c) + 1, Len(bd)) = bd
  <2> DEFINE i == 1
             n == Len(bd)
  <2>1. i \in Nat \ {0} /\ n \in Nat /\ Has(bd, i, n) /\ Cut(bd, i, n) = bd
    BY CutWhole
  <2> HIDE DEF i, n
  <2>2. Has(c \o bd, Len(c) + i, n) /\ Cut(c \o bd, Len(c) + i, n) = bd
    <3>1. c \in Seq(S)
      BY <1>3
    <3> QED
      BY <2>1, <3>1, CutRight
  <2> QED
    BY <1>4, <2>2 DEF i, n
<1>15. /\ Len(x) = Len(fl) + Len(le) + Len(op) + Len(sq) + Len(bd)
       /\ Len(a) + 1 = Len(fl) + Len(le) + 1 /\ Len(b) + 1 = Len(fl) + Len(le) + Len(op) + 1
       /\ Len(c) + 1 = Len(fl) + Len(le) + Len(op) + Len(sq) + 1
  BY <1>1, <1>2, <1>3, <1>5
<1> QED
  <2>1. CoveredIs(x, S, fl, le, op, sq, bd)
    BY <1>5, <1>10, <1>11, <1>12, <1>13, <1>14, <1>15 DEF CoveredIs
  <2> QED
    BY <2>1 DEF x

\* The fields of a packet, as Encode puts them.
LEMMA FieldsOfPacket ==
  ASSUME NEW p, Encodable(p)
  PROVE  LET f == p.flags
             n == Len(p.body)
             le == IF HasBodyLen(f) THEN PutUintN(FieldsLen(f) + n, 2) ELSE <<>>
             op == PutUintN(p.opcode, OpcodeLen(f))
             sq == PutUintN(p.seq, SeqLen(f))
         IN  /\ f \in Byte /\ p.body \in Seq(Nat) /\ n \in Nat
             /\ p = [flags |-> f, opcode |-> p.opcode, seq |-> p.seq, body |-> p.body]
             /\ le \in Seq(Nat) /\ Len(le) = HeadLen(f) - 2
             /\ HasBodyLen(f) => ReadUintN(le) = FieldsLen(f) + n
             /\ ~HasBodyLen(f) => n = 0
             /\ op \in Seq(Nat) /\ Len(op) = OpcodeLen(f) /\ ReadUintN(op) = p.opcode
             /\ sq \in Seq(Nat) /\ Len(sq) = SeqLen(f) /\ ReadUintN(sq) = p.seq
             /\ Validate(f, n > 0)
<1> DEFINE f == p.flags
           n == Len(p.body)
           L == FieldsLen(f) + n
           le == IF HasBodyLen(f) THEN PutUintN(L, 2) ELSE <<>>
           op == PutUintN(p.opcode, OpcodeLen(f))
           sq == PutUintN(p.seq, SeqLen(f))
<1>1. /\ p \in [flags : Byte, opcode : Nat, seq : Nat, body : Seq(Byte)]
      /\ Validate(f, p.body # <<>>) /\ L <= MaxUint16
      /\ Fits(p.opcode, OpcodeLen(f)) /\ Fits(p.seq, SeqLen(f))
  BY DEF Encodable
<1>2. /\ p = [flags |-> f, opcode |-> p.opcode, seq |-> p.seq, body |-> p.body]
      /\ f \in Byte /\ p.opcode \in Nat /\ p.seq \in Nat /\ p.body \in Seq(Byte)
  BY <1>1
<1>3. p.body \in Seq(Nat) /\ n \in Nat /\ (p.body # <<>> <=> n > 0)
  <2>1. Byte \subseteq Nat
    BY DEF Byte
  <2>2. p.body \in Seq(Nat)
    BY <1>2, <2>1
  <2> QED
    BY <2>2, EmptySeq
<1>4. OpcodeLen(f) \in {0, 2, 4} /\ SeqLen(f) \in {0, 2, 4} /\ FieldsLen(f) \in Nat
  BY Widths
<1>5. op \in Seq(Nat) /\ Len(op) = OpcodeLen(f) /\ ReadUintN(op) = p.opcode
  <2> DEFINE v == p.opcode
             w == OpcodeLen(f)
  <2>1. v \in Nat /\ w \in {0, 2, 4} /\ Fits(v, w)
    BY <1>1, <1>2, <1>4
  <2> HIDE DEF v, w
  <2>2. PutUintN(v, w) \in Seq(Nat) /\ Len(PutUintN(v, w)) = w /\ ReadUintN(PutUintN(v, w)) = v
    BY <2>1, PutAndRead
  <2> QED
    BY <2>2 DEF v, w
<1>6. sq \in Seq(Nat) /\ Len(sq) = SeqLen(f) /\ ReadUintN(sq) = p.seq
  <2> DEFINE v == p.seq
             w == SeqLen(f)
  <2>1. v \in Nat /\ w \in {0, 2, 4} /\ Fits(v, w)
    BY <1>1, <1>2, <1>4
  <2> HIDE DEF v, w
  <2>2. PutUintN(v, w) \in Seq(Nat) /\ Len(PutUintN(v, w)) = w /\ ReadUintN(PutUintN(v, w)) = v
    BY <2>1, PutAndRead
  <2> QED
    BY <2>2 DEF v, w
<1>7. /\ le \in Seq(Nat) /\ Len(le) = HeadLen(f) - 2
      /\ HasBodyLen(f) => ReadUintN(le) = L
  <2> DEFINE w == 2
  <2>1. w \in {0, 2, 4} /\ L \in Nat /\ w = 2 /\ Fits(L, w)
    BY <1>1, <1>3, <1>4 DEF Fits
  <2>2. PutUintN(L, w) \in Seq(Nat) /\ Len(PutUintN(L, w)) = w /\ ReadUintN(PutUintN(L, w)) = L
    <3> HIDE DEF w, L
    <3> QED
      BY <2>1, PutAndRead
  <2>3. CASE HasBodyLen(f)
    <3>1. HeadLen(f) - 2 = 2
      BY <2>3 DEF HeadLen
    <3> QED
      BY <2>2, <2>3, <3>1
  <2>4. CASE ~HasBodyLen(f)
    <3>1. HeadLen(f) - 2 = 0
      BY <2>4 DEF HeadLen
    <3> QED
      BY <2>4, <3>1
  <2> QED
    BY <2>3, <2>4
<1>8. Validate(f, n > 0) /\ (~HasBodyLen(f) => n = 0)
  BY <1>1, <1>3 DEF Validate
<1> QED
  BY <1>2, <1>3, <1>5, <1>6, <1>7, <1>8

\* Magic byte, what is covered, CRC and padding, one behind the other, are e.
FrameIs(e, S, m, x, cr, pd) ==
  /\ e \in Seq(S) /\ Len(e) = Len(m) + Len(x) + Len(cr) + Len(pd)
  /\ Cut(e, 1, Len(m)) = m
  /\ \A i \in Nat \ {0}, n \in Nat : Has(x, i, n) => Cut(e, Len(m) + i, n) = Cut(x, i, n)
  /\ Cut(e, Len(m) + Len(x) + 1, Len(cr)) = cr

\* Which is where concatenation puts them.
LEMMA FrameLayout ==
  ASSUME NEW S, NEW m \in Seq(S), NEW x \in Seq(S), NEW cr \in Seq(S), NEW pd \in Seq(S)
  PROVE  FrameIs(((m \o x) \o cr) \o pd, S, m, x, cr, pd)
<1> DEFINE e == ((m \o x) \o cr) \o pd
           a == m \o x
           b == a \o cr
<1>1. a \in Seq(S) /\ Len(a) = Len(m) + Len(x)
  BY ConcatProperties
<1>2. b \in Seq(S) /\ Len(b) = Len(a) + Len(cr)
  <2> HIDE DEF a
  <2> QED
    BY <1>1, ConcatProperties
<1>3. e = b \o pd
  OBVIOUS
<1> HIDE DEF e
<1>4. b \o pd \in Seq(S) /\ Len(b \o pd) = Len(b) + Len(pd)
  <2> HIDE DEF b
  <2> QED
    BY <1>2, ConcatProperties
<1>5. Has(e, 1, Len(m)) /\ Cut(e, 1, Len(m)) = m
  <2> DEFINE i == 1
             n == Len(m)
  <2>1. i \in Nat \ {0} /\ n \in Nat /\ Has(m, i, n) /\ Cut(m, i, n) = m
    BY CutWhole
  <2> HIDE DEF i, n
  <2>2. Has(a, i, n) /\ Cut(a, i, n) = m
    BY <2>1, CutLeft
  <2> HIDE DEF a
  <2>3. Has(b, i, n) /\ Cut(b, i, n) = m
    BY <1>1, <2>1, <2>2, CutLeft
  <2> HIDE DEF b
  <2>4. Has(b \o pd, i, n) /\ Cut(b \o pd, i, n) = m
    BY <1>2, <2>1, <2>3, CutLeft
  <2> QED
    BY <1>3, <2>4 DEF i, n
<1>6. ASSUME NEW i \in Nat \ {0}, NEW n \in Nat, Has(x, i, n)
      PROVE  Has(e, Len(m) + i, n) /\ Cut(e, Len(m) + i, n) = Cut(x, i, n)
  <2> DEFINE k == Len(m) + i
  <2>1. Has(b, k, n) /\ Cut(b, k, n) = Cut(x, i, n)
    BY <1>6, CutInside
  <2>2. k \in Nat \ {0}
    OBVIOUS
  <2> HIDE DEF k, b
  <2>3. Has(b \o pd, k, n) /\ Cut(b \o pd, k, n) = Cut(x, i, n)
    BY <1>2, <2>1, <2>2, CutLeft
  <2> QED
    BY <1>3, <2>3 DEF k
<1>7. Has(e, Len(a) + 1, Len(cr)) /\ Cut(e, Len(a) + 1, Len(cr)) = cr
  <2> HIDE DEF a
  <2>1. Has((a \o cr) \o pd, Len(a) + 1, Len(cr)) /\ Cut((a \o cr) \o pd, Len(a) + 1, Len(cr)) = cr
    BY <1>1, CutBetween
  <2> QED
    BY <1>3, <2>1
<1> HIDE DEF a, b
<1>8. e \in Seq(S) /\ Len(e) = Len(m) + Len(x) + Len(cr) + Len(pd)
  BY <1>1, <1>2, <1>3, <1>4
<1>9. Len(a) + 1 = Len(m) + Len(x) + 1
  BY <1>1
<1> QED
  <2>1. FrameIs(e, S, m, x, cr, pd)
    BY <1>5, <1>6, <1>7, <1>8, <1>9 DEF FrameIs
  <2> QED
    BY <2>1 DEF e

\* Where what a frame is made of stands in it.
Placed(e, x, m, fl, le, op, sq, bd, cr, pd) ==
  /\ Len(e) = 2 + Len(le) + Len(op) + Len(sq) + Len(bd) + Len(cr) + Len(pd)
  /\ Cut(e, 1, 1) = m /\ Cut(e, 2, 1) = fl
  /\ Cut(e, 3, Len(le)) = le
  /\ Cut(e, 3 + Len(le), Len(op)) = op
  /\ Cut(e, 3 + Len(le) + Len(op), Len(sq)) = sq
  /\ Cut(e, 3 + Len(le) + Len(op) + Len(sq), Len(bd)) = bd
  /\ Cut(e, 2, 1 + Len(le) + Len(op) + Len(sq) + Len(bd)) = x
  /\ Cut(e, 3 + Len(le) + Len(op) + Len(sq) + Len(bd), Len(cr)) = cr

LEMMA FramePlaces ==
  ASSUME NEW S, NEW m \in Seq(S), NEW fl \in Seq(S), NEW le \in Seq(S), NEW op \in Seq(S),
         NEW sq \in Seq(S), NEW bd \in Seq(S), NEW cr \in Seq(S), NEW pd \in Seq(S),
         Len(m) = 1, Len(fl) = 1
  PROVE  LET x == fl \o le \o op \o sq \o bd
         IN  Placed(((m \o x) \o cr) \o pd, x, m, fl, le, op, sq, bd, cr, pd)
<1> DEFINE x == fl \o le \o op \o sq \o bd
           e == ((m \o x) \o cr) \o pd
<1>1. /\ x \in Seq(S) /\ Len(x) = Len(fl) + Len(le) + Len(op) + Len(sq) + Len(bd)
      /\ Has(x, 1, Len(fl)) /\ Cut(x, 1, Len(fl)) = fl
      /\ Has(x, Len(fl) + 1, Len(le)) /\ Cut(x, Len(fl) + 1, Len(le)) = le
      /\ Has(x, Len(fl) + Len(le) + 1, Len(op)) /\ Cut(x, Len(fl) + Len(le) + 1, Len(op)) = op
      /\ Has(x, Len(fl) + Len(le) + Len(op) + 1, Len(sq))
      /\ Cut(x, Len(fl) + Len(le) + Len(op) + 1, Len(sq)) = sq
      /\ Has(x, Len(fl) + Len(le) + Len(op) + Len(sq) + 1, Len(bd))
      /\ Cut(x, Len(fl) + Len(le) + Len(op) + Len(sq) + 1, Len(bd)) = bd
  <2>1. CoveredIs(x, S, fl, le, op, sq, bd)
    BY CoveredLayout
  <2> HIDE DEF x
  <2> QED
    BY <2>1 DEF CoveredIs
<1> HIDE DEF x
<1>2. /\ e \in Seq(S) /\ Len(e) = Len(m) + Len(x) + Len(cr) + Len(pd)
      /\ Cut(e, 1, Len(m)) = m
      /\ \A i \in Nat \ {0}, n \in Nat : Has(x, i, n) => Cut(e, Len(m) + i, n) = Cut(x, i, n)
      /\ Cut(e, Len(m) + Len(x) + 1, Len(cr)) = cr
  <2>1. FrameIs(e, S, m, x, cr, pd)
    BY <1>1, FrameLayout
  <2> HIDE DEF e
  <2> QED
    BY <2>1 DEF FrameIs
<1> HIDE DEF e
<1>3. ASSUME NEW i \in Nat \ {0}, NEW n \in Nat, NEW y, NEW k, Has(x, i, n), Cut(x, i, n) = y, k = 1 + i
      PROVE  Cut(e, k, n) = y
  BY <1>2, <1>3
<1>4. /\ Len(le) \in Nat /\ Len(op) \in Nat /\ Len(sq) \in Nat /\ Len(bd) \in Nat
      /\ Len(cr) \in Nat /\ Len(pd) \in Nat
  OBVIOUS
<1>5. Len(x) = 1 + Len(le) + Len(op) + Len(sq) + Len(bd) /\ Len(x) \in Nat
  BY <1>1, <1>4
<1>6. Cut(e, 1, 1) = m
  BY <1>2
<1>7. Cut(e, 2, 1) = fl
  <2> DEFINE i == 1
             n == Len(fl)
  <2>1. i \in Nat \ {0} /\ n \in Nat /\ 2 = 1 + i /\ n = 1
    OBVIOUS
  <2>2. Has(x, i, n) /\ Cut(x, i, n) = fl
    BY <1>1
  <2> HIDE DEF i, n
  <2>3. Cut(e, 2, n) = fl
    BY <1>3, <2>1, <2>2
  <2> QED
    BY <2>1, <2>3
<1>8. Cut(e, 3, Len(le)) = le
  <2> DEFINE i == Len(fl) + 1
             n == Len(le)
  <2>1. i \in Nat \ {0} /\ n \in Nat /\ 3 = 1 + i
    BY <1>4
  <2>2. Has(x, i, n) /\ Cut(x, i, n) = le
    BY <1>1
  <2> HIDE DEF i, n
  <2>3. Cut(e, 3, n) = le
    BY <1>3, <2>1, <2>2
  <2> QED
    BY <2>3 DEF n
<1>9. Cut(e, 3 + Len(le), Len(op)) = op
  <2> DEFINE i == Len(fl) + Len(le) + 1
             n == Len(op)
             k == 3 + Len(le)
  <2>1. i \in Nat \ {0} /\ n \in Nat /\ k = 1 + i
    BY <1>4
  <2>2. Has(x, i, n) /\ Cut(x, i, n) = op
    BY <1>1
  <2> HIDE DEF i, n, k
  <2>3. Cut(e, k, n) = op
    BY <1>3, <2>1, <2>2
  <2> QED
    BY <2>3 DEF n, k
<1>10. Cut(e, 3 + Len(le) + Len(op), Len(sq)) = sq
  <2> DEFINE i == Len(fl) + Len(le) + Len(op) + 1
             n == Len(sq)
             k == 3 + Len(le) + Len(op)
  <2>1. i \in Nat \ {0} /\ n \in Nat /\ k = 1 + i
    BY <1>4
  <2>2. Has(x, i, n) /\ Cut(x, i, n) = sq
    BY <1>1
  <2> HIDE DEF i, n, k
  <2>3. Cut(e, k, n) = sq
    BY <1>3, <2>1, <2>2
  <2> QED
    BY <2>3 DEF n, k
<1>11. Cut(e, 3 + Len(le) + Len(op) + Len(sq), Len(bd)) = bd
  <2> DEFINE i == Len(fl) + Len(le) + Len(op) + Len(sq) + 1
             n == Len(bd)
             k == 3 + Len(le) + Len(op) + Len(sq)
  <2>1. i \in Nat \ {0} /\ n \in Nat /\ k = 1 + i
    BY <1>4
  <2>2. Has(x, i, n) /\ Cut(x, i, n) = bd
    BY <1>1
  <2> HIDE DEF i, n, k
  <2>3. Cut(e, k, n) = bd
    BY <1>3, <2>1, <2>2
  <2> QED
    BY <2>3 DEF n, k
<1>12. Cut(e, 2, 1 + Len(le) + Len(op) + Len(sq) + Len(bd)) = x
  <2> DEFINE i == 1
             n == Len(x)
  <2>1. i \in Nat \ {0} /\ n \in Nat /\ 2 = 1 + i
    BY <1>5
  <2>2. Has(x, i, n) /\ Cut(x, i, n) = x
    BY <1>1, CutWhole
  <2> HIDE DEF i, n
  <2>3. Cut(e, 2, n) = x
    BY <1>3, <2>1, <2>2
  <2> QED
    BY <1>5, <2>3 DEF n
<1>13. Len(m) + Len(x) + 1 = 3 + Len(le) + Len(op) + Len(sq) + Len(bd)
  BY <1>4, <1>5
<1>14. Cut(e, 3 + Len(le) + Len(op) + Len(sq) + Len(bd), Len(cr)) = cr
  BY <1>2, <1>13
<1>15. Len(e) = 2 + Len(le) + Len(op) + Len(sq) + Len(bd) + Len(cr) + Len(pd)
  BY <1>2, <1>4, <1>5
<1> QED
  <2>1. Placed(e, x, m, fl, le, op, sq, bd, cr, pd)
    BY <1>6, <1>7, <1>8, <1>9, <1>10, <1>11, <1>12, <1>14, <1>15 DEF Placed
  <2> QED
    BY <2>1 DEF x, e

\* What makes a frame with the flags f of its parts.
FrameParts(S, e, x, f, le, op, sq, bd, cr, pd) ==
  /\ e \in Seq(S) /\ bd \in Seq(S)
  /\ Placed(e, x, <<MagicByte>>, <<f>>, le, op, sq, bd, cr, pd)
  /\ Len(le) = HeadLen(f) - 2 /\ Len(op) = OpcodeLen(f) /\ Len(sq) = SeqLen(f)
  /\ Len(cr) = CRCLen(f) /\ Len(pd) = PadLen(HeadLen(f) + FieldsLen(f) + Len(bd))
  /\ HasBodyLen(f) => ReadUintN(le) = FieldsLen(f) + Len(bd)
  /\ ~HasBodyLen(f) => Len(bd) = 0
  /\ cr = ComputeCRC(x, CRCLen(f)) /\ Validate(f, Len(bd) > 0)

\* What is laid out like a frame is a frame, and what is found in it was put there.
LEMMA FrameRead ==
  ASSUME NEW S, NEW e, NEW x, NEW f, NEW le, NEW op, NEW sq, NEW bd, NEW cr, NEW pd,
         FrameParts(S, e, x, f, le, op, sq, bd, cr, pd)
  PROVE  /\ ~Incomplete(e, 1) /\ After(e, 1) = Len(e) + 1
         /\ Found(e, 1) = <<[flags |-> f, opcode |-> ReadUintN(op), seq |-> ReadUintN(sq), body |-> bd]>>
<1> DEFINE h == HeadLen(f)
           o == OpcodeLen(f)
           q == SeqLen(f)
           c == CRCLen(f)
           n == Len(bd)
           L == FieldsLen(f) + n
<1>1. /\ Len(e) = 2 + Len(le) + Len(op) + Len(sq) + n + Len(cr) + Len(pd)
      /\ Cut(e, 1, 1) = <<MagicByte>> /\ Cut(e, 2, 1) = <<f>>
      /\ Cut(e, 3, Len(le)) = le
      /\ Cut(e, 3 + Len(le), Len(op)) = op
      /\ Cut(e, 3 + Len(le) + Len(op), Len(sq)) = sq
      /\ Cut(e, 3 + Len(le) + Len(op) + Len(sq), n) = bd
      /\ Cut(e, 2, 1 + Len(le) + Len(op) + Len(sq) + n) = x
      /\ Cut(e, 3 + Len(le) + Len(op) + Len(sq) + n, Len(cr)) = cr
  BY DEF FrameParts, Placed
<1>2. /\ o \in {0, 2, 4} /\ q \in {0, 2, 4} /\ c \in {0, 2} /\ h \in {2, 4}
      /\ FieldsLen(f) = o + q + c
  BY Widths DEF FieldsLen
<1>3. e \in Seq(S) /\ n \in Nat
  BY DEF FrameParts
<1>4. /\ Len(le) = h - 2 /\ Len(op) = o /\ Len(sq) = q /\ Len(cr) = c
      /\ Len(pd) = PadLen(h + FieldsLen(f) + n)
  BY DEF FrameParts
<1>5. /\ HasBodyLen(f) => ReadUintN(le) = L
      /\ ~HasBodyLen(f) => n = 0
  BY DEF FrameParts
<1>6. cr = ComputeCRC(x, c) /\ Validate(f, n > 0)
  BY DEF FrameParts
<1> HIDE DEF h, o, q, c, n
<1>7. L \in Nat /\ L = o + q + c + n /\ h + L \in Nat /\ PadLen(h + L) \in Nat
  BY <1>2, <1>3, PadLenRange
<1>8. h + FieldsLen(f) + n = h + L
  BY <1>2, <1>3
<1>9. Len(e) = h + L + PadLen(h + L)
  <2>1. Len(e) = 2 + (h - 2) + o + q + n + c + PadLen(h + L)
    BY <1>1, <1>8, <1>4
  <2> HIDE DEF L
  <2> QED
    BY <1>2, <1>3, <1>7, <2>1
<1>10. e[1] = MagicByte /\ e[2] = f
  <2>1. 1 \in 1..Len(e) /\ 2 \in 1..Len(e)
    <3>1. \A a, b \in Nat : 2 <= a => 1 \in 1..(a + b) /\ 2 \in 1..(a + b)
      OBVIOUS
    <3>2. h + L >= 2
      BY <1>2, <1>3, <1>7
    <3> QED
      BY <1>7, <1>9, <3>1, <3>2
  <2>2. Cut(e, 1, 1) = <<e[1]>> /\ Cut(e, 2, 1) = <<e[2]>>
    BY <1>3, <2>1, CutOfOne
  <2>3. <<e[1]>> = <<MagicByte>> /\ <<e[2]>> = <<f>>
    BY <1>1, <2>2
  <2> QED
    BY <2>3
<1>11. LengthAt(e, 1, f) = L
  <2>1. CASE HasBodyLen(f)
    <3>1. Len(le) = 2 /\ ReadUintN(le) = L
      <4>1. h = 4
        BY <2>1 DEF HeadLen, h
      <4>2. Len(le) = 4 - 2
        BY <1>4, <4>1
      <4>3. ReadUintN(le) = L
        BY <1>5, <2>1
      <4> QED
        BY <4>2, <4>3
    <3>2. 1 + 2 = 3 /\ Cut(e, 3, 2) = le
      BY <1>1, <3>1
    <3> QED
      BY <2>1, <3>1, <3>2 DEF LengthAt
  <2>2. CASE ~HasBodyLen(f)
    <3>1. n = 0 /\ FieldsLen(f) \in Nat
      <4>1. n = 0
        BY <1>5, <2>2
      <4> QED
        BY <1>2, <4>1
    <3>2. L = FieldsLen(f)
      BY <3>1
    <3> QED
      BY <2>2, <3>2 DEF LengthAt
  <2> QED
    BY <2>1, <2>2
<1>12. ~TooShort(e, 1, f)
  BY <1>2, <1>3, <1>7, <1>11 DEF TooShort
<1>13. SizeAt(e, 1, f) = Len(e)
  BY <1>9, <1>11 DEF SizeAt, h
<1>14. ~Incomplete(e, 1) /\ After(e, 1) = Len(e) + 1
  <2>1. Len(e) \in Nat /\ Len(e) >= h
    BY <1>2, <1>7, <1>9
  <2>2. Has(e, 1, 1) /\ Has(e, 1, 2) /\ Has(e, 1, h) /\ Has(e, 1, Len(e))
    BY <1>2, <2>1 DEF Has
  <2> QED
    BY <1>10, <1>12, <1>13, <2>1, <2>2 DEF Incomplete, After, h
<1>15. CRCAt(e, 1, f) = 1 + h + o + q + n /\ BodyAt(1, f) = 1 + h + o + q
  <2>1. CRCAt(e, 1, f) = 1 + h + L - c /\ BodyAt(1, f) = 1 + h + o + q
    BY <1>11 DEF CRCAt, BodyAt, h, o, q, c
  <2> QED
    BY <1>2, <1>3, <1>7, <2>1
<1>16. /\ 3 + Len(le) = 1 + h /\ 3 + Len(le) + Len(op) = 1 + h + o
       /\ 3 + Len(le) + Len(op) + Len(sq) = 1 + h + o + q
       /\ 3 + Len(le) + Len(op) + Len(sq) + n = 1 + h + o + q + n
       /\ 1 + Len(le) + Len(op) + Len(sq) + n = CRCAt(e, 1, f) - 1 - 1
       /\ n = CRCAt(e, 1, f) - BodyAt(1, f)
  <2>1. /\ 3 + (h - 2) = 1 + h
        /\ 1 + (h - 2) + o + q + n = (1 + h + o + q + n) - 1 - 1
        /\ n = (1 + h + o + q + n) - (1 + h + o + q)
    BY <1>2, <1>3
  <2> QED
    BY <1>15, <1>4, <2>1
<1>17. AcceptableAt(e, 1, f)
  <2>1. Cut(e, CRCAt(e, 1, f), c) = cr
    BY <1>1, <1>15, <1>16, <1>4
  <2>2. Cut(e, 1 + 1, CRCAt(e, 1, f) - 1 - 1) = x
    BY <1>1, <1>16
  <2>3. Validate(f, CRCAt(e, 1, f) > BodyAt(1, f))
    <3>1. (n > 0) <=> (CRCAt(e, 1, f) > BodyAt(1, f))
      BY <1>2, <1>3, <1>15
    <3> QED
      BY <1>6, <3>1 DEF Validate
  <2> QED
    BY <1>6, <2>1, <2>2, <2>3 DEF AcceptableAt, c
<1>18. PacketAt(e, 1, f) = [flags |-> f, opcode |-> ReadUintN(op), seq |-> ReadUintN(sq), body |-> bd]
  <2>1. Cut(e, 1 + h, o) = op
    BY <1>1, <1>16, <1>4
  <2>2. Cut(e, 1 + h + o, q) = sq
    BY <1>1, <1>16, <1>4
  <2>3. Cut(e, BodyAt(1, f), CRCAt(e, 1, f) - BodyAt(1, f)) = bd
    BY <1>1, <1>15, <1>16
  <2> QED
    BY <2>1, <2>2, <2>3 DEF PacketAt, h, o, q
<1>19. Found(e, 1) = <<PacketAt(e, 1, f)>>
  BY <1>10, <1>12, <1>17 DEF Found
<1> QED
  BY <1>14, <1>18, <1>19

\* What Encode makes of a packet is one whole frame, of every width of its fields,
\* and the packet found in it is the one that was encoded.
THEOREM EncodedIsFound ==
  ASSUME NEW p, Encodable(p)
  PROVE  /\ ~Incomplete(Encode(p), 1) /\ After(Encode(p), 1) = Len(Encode(p)) + 1
         /\ Found(Encode(p), 1) = <<p>>
<1> DEFINE f == p.flags
           c == CRCLen(f)
           le == IF HasBodyLen(f) THEN PutUintN(FieldsLen(f) + Len(p.body), 2) ELSE <<>>
           op == PutUintN(p.opcode, OpcodeLen(f))
           sq == PutUintN(p.seq, SeqLen(f))
           bd == p.body
           m == <<MagicByte>>
           fl == <<f>>
           x == fl \o le \o op \o sq \o bd
           v == CRC16(x)
           S == Nat \cup {(v \div 256) % 256, v % 256}
           cr == ComputeCRC(x, c)
           frame == (m \o x) \o cr
           k == PadLen(Len(frame))
           pd == [i \in 1..k |-> 0]
           e == frame \o pd
<1>1. /\ f \in Byte /\ bd \in Seq(Nat)
      /\ p = [flags |-> f, opcode |-> p.opcode, seq |-> p.seq, body |-> bd]
      /\ le \in Seq(Nat) /\ Len(le) = HeadLen(f) - 2
      /\ HasBodyLen(f) => ReadUintN(le) = FieldsLen(f) + Len(bd)
      /\ ~HasBodyLen(f) => Len(bd) = 0
      /\ op \in Seq(Nat) /\ Len(op) = OpcodeLen(f) /\ ReadUintN(op) = p.opcode
      /\ sq \in Seq(Nat) /\ Len(sq) = SeqLen(f) /\ ReadUintN(sq) = p.seq
      /\ Validate(f, Len(bd) > 0)
  BY FieldsOfPacket
<1>2. /\ OpcodeLen(f) \in Nat /\ SeqLen(f) \in Nat /\ c \in {0, 2} /\ HeadLen(f) \in {2, 4}
      /\ FieldsLen(f) = OpcodeLen(f) + SeqLen(f) + c
  BY Widths DEF FieldsLen
<1>3. Encode(p) = e
  BY DEF Encode, Covered
<1> HIDE DEF f, le, op, sq, bd
<1>4. cr \in Seq(S) /\ Len(cr) = c
  <2>1. CASE c = 2
    <3>1. cr = <<(v \div 256) % 256, v % 256>>
      BY <2>1 DEF ComputeCRC, PutUintN
    <3>2. (v \div 256) % 256 \in S /\ v % 256 \in S
      OBVIOUS
    <3>3. \A a, b \in S : <<a, b>> \in Seq(S) /\ Len(<<a, b>>) = 2
      <4> HIDE DEF S
      <4> QED
        OBVIOUS
    <3> HIDE DEF S, v, cr, c
    <3> QED
      BY <2>1, <3>1, <3>2, <3>3
  <2>2. CASE c = 0
    <3>1. cr = <<>>
      BY <2>2 DEF ComputeCRC, PutUintN
    <3>2. <<>> \in Seq(S) /\ Len(<<>>) = 0
      OBVIOUS
    <3> HIDE DEF S, cr, c
    <3> QED
      BY <2>2, <3>1, <3>2
  <2> QED
    BY <1>2, <2>1, <2>2
<1>5. Nat \subseteq S
  OBVIOUS
<1> HIDE DEF S, v
<1>6. Seq(Nat) \subseteq Seq(S) /\ \A a \in S : <<a>> \in Seq(S) /\ Len(<<a>>) = 1
  BY <1>5
<1>7. MagicByte \in S /\ f \in S /\ 0 \in S
  <2>1. MagicByte \in Nat
    BY DEF MagicByte
  <2>2. f \in Nat
    <3>1. f \in Byte
      BY <1>1
    <3> QED
      BY <3>1 DEF Byte
  <2>3. 0 \in Nat
    OBVIOUS
  <2> QED
    BY <1>5, <2>1, <2>2, <2>3
<1>8. /\ m \in Seq(S) /\ Len(m) = 1 /\ fl \in Seq(S) /\ Len(fl) = 1
      /\ le \in Seq(S) /\ op \in Seq(S) /\ sq \in Seq(S) /\ bd \in Seq(S)
  BY <1>1, <1>6, <1>7
<1>9. x \in Seq(S) /\ Len(x) = Len(fl) + Len(le) + Len(op) + Len(sq) + Len(bd)
  <2>1. CoveredIs(x, S, fl, le, op, sq, bd)
    <3> HIDE DEF fl
    <3> QED
      BY <1>8, CoveredLayout
  <2> HIDE DEF x
  <2> QED
    BY <2>1 DEF CoveredIs
<1>10. Len(frame) = HeadLen(f) + FieldsLen(f) + Len(bd) /\ Len(frame) \in Nat
  <2> DEFINE a == m \o x
  <2>1. a \in Seq(S) /\ Len(a) = 1 + Len(x)
    <3> HIDE DEF m, x
    <3>1. a \in Seq(S) /\ Len(a) = Len(m) + Len(x)
      BY <1>8, <1>9, ConcatProperties
    <3> QED
      BY <1>8, <3>1
  <2>2. Len(a \o cr) = Len(a) + c
    <3> HIDE DEF a, cr, c
    <3> QED
      BY <1>4, <2>1, ConcatProperties
  <2>3. 1 + (1 + (HeadLen(f) - 2) + OpcodeLen(f) + SeqLen(f) + Len(bd)) + c
          = HeadLen(f) + FieldsLen(f) + Len(bd)
    BY <1>2, <1>8
  <2>4. HeadLen(f) + FieldsLen(f) + Len(bd) \in Nat
    BY <1>2, <1>8
  <2> HIDE DEF a, x, cr, m, fl
  <2> QED
    BY <1>1, <1>8, <1>9, <2>1, <2>2, <2>3, <2>4 DEF a
<1>11. k \in Nat /\ k = PadLen(HeadLen(f) + FieldsLen(f) + Len(bd))
  BY <1>10, PadLenRange
<1>12. pd \in Seq(S) /\ Len(pd) = k
  <2> HIDE DEF k
  <2> QED
    BY <1>7, <1>11
<1>13. Placed(e, x, m, fl, le, op, sq, bd, cr, pd)
  <2> HIDE DEF m, fl, cr, pd
  <2> QED
    BY <1>4, <1>8, <1>12, FramePlaces
<1>14. e \in Seq(S)
  <2>1. FrameIs(e, S, m, x, cr, pd)
    <3> HIDE DEF m, x, cr, pd
    <3> QED
      BY <1>4, <1>8, <1>9, <1>12, FrameLayout
  <2> QED
    BY <2>1 DEF FrameIs
<1> HIDE DEF x, cr, e, k, pd
<1>15. FrameParts(S, e, x, f, le, op, sq, bd, cr, pd)
  BY <1>1, <1>4, <1>8, <1>11, <1>12, <1>13, <1>14 DEF FrameParts, cr
<1>16. /\ ~Incomplete(e, 1) /\ After(e, 1) = Len(e) + 1
       /\ Found(e, 1) = <<[flags |-> f, opcode |-> ReadUintN(op), seq |-> ReadUintN(sq), body |-> bd]>>
  BY <1>15, FrameRead
<1> QED
  BY <1>1, <1>3, <1>16

-----------------------------------------------------------------------------
(* What begins a stretch of the stream                                      *)

\* A byte of a stretch is one of the whole.
LEMMA StretchByte ==
  ASSUME NEW b, NEW s, NEW base, Stretch(Byte, b, s, base), NEW i \in 1..Len(b)
  PROVE  /\ Len(b) \in Nat /\ Len(s) \in Nat /\ base \in Nat
         /\ base + Len(b) <= Len(s) /\ s[base + i] = b[i] /\ base + i \in 1..Len(s)
<1>1. /\ Len(b) \in Nat /\ Len(s) \in Nat /\ base \in Nat
      /\ base + Len(b) <= Len(s) /\ s[base + i] = b[i]
  BY DEF Stretch
<1> QED
  BY <1>1

\* A frame that begins a stretch has the same length in it as in the whole.
LEMMA StretchLength ==
  ASSUME NEW b, NEW s, NEW base, Stretch(Byte, b, s, base), NEW f, Has(b, 1, HeadLen(f))
  PROVE  LengthAt(s, base + 1, f) = LengthAt(b, 1, f) /\ LengthAt(b, 1, f) \in Nat
<1>1. base \in Nat /\ Len(b) \in Nat /\ b \in Seq(Byte)
  BY DEF Stretch
<1>2. LengthAt(b, 1, f) \in Nat
  BY <1>1, LengthRange, MaxUint16IsNat
<1>3. CASE HasBodyLen(f)
  <2>1. Has(b, 3, 2)
    BY <1>1, <1>3 DEF HeadLen, Has
  <2> DEFINE i == 3
             n == 2
  <2>2. Cut(b, i, n) = Cut(s, base + i, n)
    <3>1. i \in Nat \ {0} /\ n \in Nat /\ Has(b, i, n)
      BY <2>1
    <3> HIDE DEF i, n
    <3> QED
      BY <3>1, StretchCut
  <2>3. (base + 1) + 2 = base + i /\ 1 + 2 = i
    BY <1>1
  <2> QED
    BY <1>2, <1>3, <2>2, <2>3 DEF LengthAt
<1>4. CASE ~HasBodyLen(f)
  BY <1>2, <1>4 DEF LengthAt
<1> QED
  BY <1>3, <1>4

\* And is the same packet.
LEMMA StretchPacket ==
  ASSUME NEW b, NEW s, NEW base, Stretch(Byte, b, s, base), NEW f,
         Has(b, 1, HeadLen(f)), ~TooShort(b, 1, f), Has(b, 1, SizeAt(b, 1, f))
  PROVE  /\ PacketAt(s, base + 1, f) = PacketAt(b, 1, f)
         /\ AcceptableAt(s, base + 1, f) <=> AcceptableAt(b, 1, f)
<1> DEFINE h == HeadLen(f)
           o == OpcodeLen(f)
           q == SeqLen(f)
           c == CRCLen(f)
           n == LengthAt(b, 1, f)
           i1 == 1 + h
           i2 == 1 + h + o
           i3 == 1 + h + o + q
           i4 == 1 + h + n - c
           i5 == 2
           n3 == i4 - i3
           n5 == i4 - 1 - 1
<1>1. /\ h \in {2, 4} /\ o \in Nat /\ q \in Nat /\ c \in Nat /\ n \in Nat /\ base \in Nat
      /\ Len(b) \in Nat
  <2>1. base \in Nat /\ Len(b) \in Nat
    BY DEF Stretch
  <2>2. n \in Nat
    BY StretchLength
  <2> QED
    BY <2>1, <2>2, Widths
<1>2. n >= o + q + c
  BY <1>1 DEF TooShort, FieldsLen
<1>3. Len(b) >= h + n
  <2>1. SizeAt(b, 1, f) \in Nat /\ SizeAt(b, 1, f) >= h + n
    <3>1. b \in Seq(Byte)
      BY DEF Stretch
    <3> QED
      BY <3>1, SizeRange
  <2>2. 1 + SizeAt(b, 1, f) <= Len(b) + 1
    BY DEF Has
  <2> HIDE DEF h, n
  <2> QED
    BY <1>1, <2>1, <2>2
<1>4. LengthAt(s, base + 1, f) = n
  BY StretchLength
<1> HIDE DEF h, o, q, c, n
<1>5. /\ i1 \in Nat \ {0} /\ i2 \in Nat \ {0} /\ i3 \in Nat \ {0} /\ i4 \in Nat \ {0}
      /\ i5 \in Nat \ {0} /\ n3 \in Nat /\ n5 \in Nat
  BY <1>1, <1>2
<1>6. /\ Has(b, i1, o) /\ Has(b, i2, q) /\ Has(b, i3, n3) /\ Has(b, i4, c) /\ Has(b, i5, n5)
  BY <1>1, <1>2, <1>3 DEF Has
<1>7. /\ CRCAt(b, 1, f) = i4 /\ BodyAt(1, f) = i3
      /\ CRCAt(s, base + 1, f) = base + i4 /\ BodyAt(base + 1, f) = base + i3
  <2>1. CRCAt(b, 1, f) = i4 /\ BodyAt(1, f) = i3
    BY DEF CRCAt, BodyAt, h, o, q, c, n
  <2>2. CRCAt(s, base + 1, f) = (base + 1) + h + n - c
    BY <1>4 DEF CRCAt, h, c
  <2>3. BodyAt(base + 1, f) = (base + 1) + h + o + q
    BY DEF BodyAt, h, o, q
  <2> QED
    BY <1>1, <2>1, <2>2, <2>3
<1> HIDE DEF i1, i2, i3, i4, i5, n3, n5
<1>8. /\ Cut(b, i1, o) = Cut(s, base + i1, o) /\ Cut(b, i2, q) = Cut(s, base + i2, q)
      /\ Cut(b, i3, n3) = Cut(s, base + i3, n3) /\ Cut(b, i4, c) = Cut(s, base + i4, c)
      /\ Cut(b, i5, n5) = Cut(s, base + i5, n5)
  BY <1>1, <1>5, <1>6, StretchCut
<1>9. /\ (base + 1) + h = base + i1 /\ (base + 1) + h + o = base + i2
      /\ (base + i4) - (base + i3) = n3 /\ (base + 1) + 1 = base + i5
      /\ (base + i4) - (base + 1) - 1 = n5 /\ 1 + 1 = i5
      /\ (base + i4 > base + i3) <=> (i4 > i3)
  BY <1>1, <1>5 DEF i1, i2, n3, i5, n5
<1>10. PacketAt(b, 1, f) = [flags |-> f, opcode |-> ReadUintN(Cut(b, i1, o)),
                            seq |-> ReadUintN(Cut(b, i2, q)), body |-> Cut(b, i3, n3)]
  BY <1>7 DEF PacketAt, h, o, q, i1, i2, n3
<1>11. PacketAt(s, base + 1, f)
         = [flags |-> f, opcode |-> ReadUintN(Cut(s, base + i1, o)),
            seq |-> ReadUintN(Cut(s, base + i2, q)), body |-> Cut(s, base + i3, n3)]
  BY <1>7, <1>9 DEF PacketAt, h, o, q
<1>12. AcceptableAt(b, 1, f) <=> /\ Cut(b, i4, c) = ComputeCRC(Cut(b, i5, n5), c)
                                 /\ Validate(f, i4 > i3)
  BY <1>7, <1>9 DEF AcceptableAt, c, n5
<1>13. AcceptableAt(s, base + 1, f) <=> /\ Cut(s, base + i4, c) = ComputeCRC(Cut(s, base + i5, n5), c)
                                        /\ Validate(f, i4 > i3)
  <2>1. AcceptableAt(s, base + 1, f) <=> /\ Cut(s, base + i4, c) = ComputeCRC(Cut(s, base + i5, n5), c)
                                         /\ Validate(f, base + i4 > base + i3)
    BY <1>7, <1>9 DEF AcceptableAt, c
  <2>2. CASE i4 > i3
    <3>1. (base + i4 > base + i3) = TRUE /\ (i4 > i3) = TRUE
      BY <1>9, <2>2
    <3> QED
      BY <2>1, <3>1
  <2>3. CASE ~(i4 > i3)
    <3>1. (base + i4 > base + i3) = FALSE /\ (i4 > i3) = FALSE
      BY <1>9, <2>3
    <3> QED
      BY <2>1, <3>1
  <2> QED
    BY <2>2, <2>3
<1> QED
  BY <1>8, <1>10, <1>11, <1>12, <1>13

\* What is whole and begins a stretch is found there in the whole as well.
LEMMA StretchFound ==
  ASSUME NEW b, NEW s, NEW base, Stretch(Byte, b, s, base), ~Incomplete(b, 1)
  PROVE  /\ ~Incomplete(s, base + 1)
         /\ Found(s, base + 1) = Found(b, 1)
         /\ After(s, base + 1) = base + After(b, 1)
<1> DEFINE f == b[2]
<1>1. Len(b) \in Nat /\ Len(s) \in Nat /\ base \in Nat /\ base + Len(b) <= Len(s)
  BY DEF Stretch
<1>2. Has(b, 1, 1) /\ 1 \in 1..Len(b) /\ Has(s, base + 1, 1)
  BY <1>1 DEF Incomplete, Has
<1>3. s[base + 1] = b[1]
  BY <1>2, StretchByte
<1>4. CASE b[1] # MagicByte
  BY <1>1, <1>2, <1>3, <1>4 DEF Incomplete, Found, After
<1>5. CASE b[1] = MagicByte
  <2>1. /\ Has(b, 1, 2) /\ Has(b, 1, HeadLen(f))
        /\ ~TooShort(b, 1, f) => Has(b, 1, SizeAt(b, 1, f))
    BY <1>5 DEF Incomplete
  <2>2. 2 \in 1..Len(b) /\ Has(s, base + 1, 2) /\ (base + 1) + 1 = base + 2
    BY <1>1, <2>1 DEF Has
  <2>3. s[base + 2] = f
    BY <2>2, StretchByte
  <2>4. s[(base + 1) + 1] = f
    BY <2>2, <2>3
  <2> HIDE DEF f
  <2>5. Has(s, base + 1, HeadLen(f))
    BY <1>1, <2>1, Widths DEF Has
  <2>6. LengthAt(s, base + 1, f) = LengthAt(b, 1, f)
    BY <2>1, StretchLength
  <2>7. /\ TooShort(s, base + 1, f) <=> TooShort(b, 1, f)
        /\ SizeAt(s, base + 1, f) = SizeAt(b, 1, f)
    BY <2>6 DEF TooShort, SizeAt
  <2>8. SizeAt(b, 1, f) \in Nat
    <3>1. b \in Seq(Byte)
      BY DEF Stretch
    <3> QED
      BY <2>1, <3>1, SizeRange
  <2>9. ~TooShort(b, 1, f) => Has(s, base + 1, SizeAt(s, base + 1, f))
    <3>1. ASSUME NEW n \in Nat, Has(b, 1, n)
          PROVE  Has(s, base + 1, n)
      BY <1>1, <3>1 DEF Has
    <3> QED
      BY <2>1, <2>7, <2>8, <3>1
  <2>10. ~Incomplete(s, base + 1)
    BY <1>2, <2>2, <2>4, <2>5, <2>7, <2>9 DEF Incomplete
  <2>11. b[1 + 1] = f
    BY DEF f
  <2>12. Found(s, base + 1) = Found(b, 1)
    <3>1. CASE TooShort(b, 1, f)
      BY <2>4, <2>7, <2>11, <3>1 DEF Found
    <3>2. CASE ~TooShort(b, 1, f)
      <4>1. /\ PacketAt(s, base + 1, f) = PacketAt(b, 1, f)
            /\ AcceptableAt(s, base + 1, f) <=> AcceptableAt(b, 1, f)
        BY <2>1, <3>2, StretchPacket
      <4>2. Found(s, base + 1) = IF AcceptableAt(s, base + 1, f) THEN <<PacketAt(s, base + 1, f)>> ELSE <<>>
        BY <1>3, <1>5, <2>4, <2>7, <3>2 DEF Found
      <4>3. Found(b, 1) = IF AcceptableAt(b, 1, f) THEN <<PacketAt(b, 1, f)>> ELSE <<>>
        BY <1>5, <2>11, <3>2 DEF Found
      <4> QED
        BY <4>1, <4>2, <4>3
    <3> QED
      BY <3>1, <3>2
  <2>13. After(s, base + 1) = base + After(b, 1)
    <3>1. CASE TooShort(b, 1, f)
      <4>1. After(s, base + 1) = (base + 1) + 4
        BY <1>3, <1>5, <2>4, <2>7, <3>1 DEF After
      <4>2. After(b, 1) = 1 + 4
        BY <1>5, <2>11, <3>1 DEF After
      <4> QED
        BY <1>1, <4>1, <4>2
    <3>2. CASE ~TooShort(b, 1, f)
      <4>1. After(s, base + 1) = (base + 1) + SizeAt(b, 1, f)
        BY <1>3, <1>5, <2>4, <2>7, <3>2 DEF After
      <4>2. After(b, 1) = 1 + SizeAt(b, 1, f)
        BY <1>5, <2>11, <3>2 DEF After
      <4> QED
        BY <1>1, <2>8, <4>1, <4>2
    <3> QED
      BY <3>1, <3>2
  <2> QED
    BY <2>10, <2>12, <2>13
<1> QED
  BY <1>4, <1>5

-----------------------------------------------------------------------------
(* The stream, piece by piece                                                *)

\* Every sequence of a concatenation lies behind those before it.
LEMMA FirstOfPlaces ==
  ASSUME NEW S, NEW seqs \in Seq(Seq(S)), NEW i \in 1..Len(seqs)
  PROVE  /\ Stretch(S, seqs[i], FlattenSeq(seqs), Len(FirstOf(seqs, i - 1)))
         /\ Len(FirstOf(seqs, i)) = Len(FirstOf(seqs, i - 1)) + Len(seqs[i])
         /\ Len(FirstOf(seqs, i - 1)) \in Nat /\ Len(seqs[i]) \in Nat
<1> DEFINE N == Len(seqs)
           s == FlattenSeq(seqs)
           Begins(a) == /\ Len(a) <= Len(s) /\ \A j \in 1..Len(a) : s[j] = a[j]
           T == {d \in 0..N : ~Begins(FirstOf(seqs, N - d))}
<1>1. N \in Nat /\ \A k \in 1..N : seqs[k] \in Seq(S)
  OBVIOUS
<1>2. /\ FirstOf(seqs, 0) = <<>> /\ s = FirstOf(seqs, N)
      /\ \A k \in 1..N : /\ FirstOf(seqs, k) = FirstOf(seqs, k - 1) \o seqs[k]
                         /\ FirstOf(seqs, k) \in Seq(S) /\ FirstOf(seqs, k - 1) \in Seq(S)
  BY FirstOfSteps
<1>3. ASSUME NEW k \in 1..N
      PROVE  LET a == FirstOf(seqs, k - 1)
                 b == FirstOf(seqs, k)
             IN  /\ a \in Seq(S) /\ b \in Seq(S) /\ Len(b) = Len(a) + Len(seqs[k])
                 /\ \A j \in 1..Len(a) : b[j] = a[j]
                 /\ \A j \in 1..Len(seqs[k]) : b[Len(a) + j] = seqs[k][j]
  <2> DEFINE a == FirstOf(seqs, k - 1)
             b == FirstOf(seqs, k)
             x == seqs[k]
  <2>1. a \in Seq(S) /\ b \in Seq(S) /\ x \in Seq(S) /\ b = a \o x
    BY <1>1, <1>2
  <2> HIDE DEF a, b, x
  <2>2. /\ Len(b) = Len(a) + Len(x)
        /\ \A j \in 1..Len(a) : b[j] = a[j]
        /\ \A j \in 1..Len(x) : b[Len(a) + j] = x[j]
    BY <2>1, ConcatProperties
  <2> QED
    BY <2>1, <2>2 DEF a, b, x
<1>4. s \in Seq(S)
  <2>1. N = 0 \/ N \in 1..N
    BY <1>1
  <2>2. <<>> \in Seq(S)
    OBVIOUS
  <2> HIDE DEF s, N
  <2>3. CASE N = 0
    BY <1>2, <2>2, <2>3
  <2>4. CASE N \in 1..N
    BY <1>2, <2>4
  <2> QED
    BY <2>1, <2>3, <2>4
<1> HIDE DEF s, N
<1>5. T = {}
  <2> SUFFICES ASSUME T # {} PROVE FALSE
    OBVIOUS
  <2>1. PICK d \in T : \A y \in T : d <= y
    <3>1. T \in SUBSET Nat
      BY <1>1
    <3> HIDE DEF T
    <3> QED
      BY <3>1, LeastOf
  <2>2. d \in 0..N /\ ~Begins(FirstOf(seqs, N - d))
    OBVIOUS
  <2>3. d # 0
    <3>1. Len(s) \in Nat
      BY <1>4
    <3>2. N - 0 = N
      BY <1>1
    <3>3. Begins(s)
      BY <3>1
    <3> HIDE DEF Begins, T
    <3> QED
      BY <1>2, <2>2, <3>2, <3>3
  <2> DEFINE k == N - d + 1
             a == FirstOf(seqs, k - 1)
             b == FirstOf(seqs, k)
  <2>4. /\ k \in 1..N /\ d - 1 \in 0..N /\ N - (d - 1) = k /\ N - d = k - 1
        /\ ~(d <= d - 1)
    BY <1>1, <2>2, <2>3
  <2>5. Begins(b)
    BY <2>1, <2>4
  <2> HIDE DEF k
  <2>6. /\ Len(a) \in Nat /\ Len(b) \in Nat /\ Len(s) \in Nat /\ Len(a) <= Len(b)
        /\ \A j \in 1..Len(a) : b[j] = a[j]
    <3>1. a \in Seq(S) /\ b \in Seq(S) /\ Len(b) = Len(a) + Len(seqs[k])
          /\ \A j \in 1..Len(a) : b[j] = a[j]
      BY <1>3, <2>4
    <3>2. seqs[k] \in Seq(S)
      BY <1>1, <2>4
    <3> HIDE DEF a, b
    <3>3. Len(a) \in Nat /\ Len(b) \in Nat /\ Len(s) \in Nat
      BY <1>4, <3>1
    <3>4. Len(seqs[k]) \in Nat
      BY <3>2
    <3> QED
      BY <3>1, <3>3, <3>4
  <2>7. ~Begins(a)
    BY <2>2, <2>4
  <2> HIDE DEF a, b
  <2> QED
    BY <2>5, <2>6, <2>7
<1>6. ASSUME NEW k \in 0..N PROVE Begins(FirstOf(seqs, k))
  <2>1. N - k \in 0..N /\ N - (N - k) = k
    BY <1>1
  <2> QED
    BY <1>5, <2>1
<1> DEFINE a == FirstOf(seqs, i - 1)
           b == FirstOf(seqs, i)
           x == seqs[i]
<1>7. i \in 1..N /\ i \in 0..N
  BY <1>1 DEF N
<1>8. /\ a \in Seq(S) /\ b \in Seq(S) /\ x \in Seq(S) /\ Len(b) = Len(a) + Len(x)
      /\ \A j \in 1..Len(x) : b[Len(a) + j] = x[j]
  BY <1>1, <1>3, <1>7
<1>9. Len(b) <= Len(s) /\ \A j \in 1..Len(b) : s[j] = b[j]
  BY <1>6, <1>7
<1> HIDE DEF a, b, x
<1>10. Len(a) \in Nat /\ Len(x) \in Nat /\ Len(b) \in Nat /\ Len(s) \in Nat
  BY <1>4, <1>8
<1>11. ASSUME NEW j \in 1..Len(x) PROVE x[j] = s[Len(a) + j]
  <2>1. Len(a) + j \in 1..Len(b)
    BY <1>8, <1>10
  <2> QED
    BY <1>8, <1>9, <2>1
<1>12. Stretch(S, x, s, Len(a))
  BY <1>4, <1>8, <1>9, <1>10, <1>11 DEF Stretch
<1> QED
  BY <1>8, <1>10, <1>12 DEF a, b, x, s

\* What a piece adds to the packets of the stream.
Kept(p) == IF p.tag = "packet" THEN <<p.packet>> ELSE <<>>

\* Nothing is found in noise.
LEMMA NoiseIsPassedOver ==
  ASSUME NEW b, NEW s, NEW base, Stretch(Byte, b, s, base),
         \A j \in 1..Len(b) : b[j] # MagicByte
  PROVE  FramesFrom(s)[base + 1] = FramesFrom(s)[base + Len(b) + 1]
<1> DEFINE F == FramesFrom(s)
           N == Len(b)
           T == {j \in 0..N : F[base + 1] # F[base + j + 1]}
<1>1. N \in Nat /\ base \in Nat /\ Len(s) \in Nat /\ base + N <= Len(s) /\ s \in Seq(Byte)
  BY DEF Stretch
<1>2. ASSUME NEW j \in 1..N PROVE F[base + j] = F[base + j + 1]
  <2>1. s[base + j] # MagicByte /\ base + j \in 1..Len(s)
    BY StretchByte
  <2>2. ~Incomplete(s, base + j)
    BY <1>1, <2>1 DEF Incomplete, Has
  <2>3. Found(s, base + j) = <<>> /\ After(s, base + j) = base + j + 1
    BY <2>1 DEF Found, After
  <2>4. base + j \in 1..(Len(s) + 1) /\ base + j + 1 \in 1..(Len(s) + 1)
    BY <1>1
  <2>5. F[base + j] = <<>> \o F[base + j + 1]
    BY <1>1, <2>2, <2>3, <2>4, FramesFromEquation
  <2>6. F[base + j + 1] \in Seq(PacketsIn(s))
    BY <1>1, <2>4, FramesFromType
  <2> HIDE DEF F
  <2> QED
    BY <2>5, <2>6, ConcatEmptySeq
<1> HIDE DEF F, N
<1>3. T = {}
  <2> SUFFICES ASSUME T # {} PROVE FALSE
    OBVIOUS
  <2>1. PICK j \in T : \A y \in T : j <= y
    <3>1. T \in SUBSET Nat
      BY <1>1
    <3> HIDE DEF T
    <3> QED
      BY <3>1, LeastOf
  <2>2. j \in 0..N /\ F[base + 1] # F[base + j + 1]
    OBVIOUS
  <2>3. j # 0
    <3>1. base + 0 + 1 = base + 1
      BY <1>1
    <3> QED
      BY <2>2, <3>1
  <2>4. j \in 1..N /\ j - 1 \in 0..N /\ ~(j <= j - 1) /\ base + (j - 1) + 1 = base + j
    BY <1>1, <2>2, <2>3
  <2>5. F[base + 1] = F[base + j]
    BY <2>1, <2>4
  <2> QED
    BY <1>2, <2>2, <2>4, <2>5
<1>4. N \in 0..N
  BY <1>1
<1> QED
  BY <1>3, <1>4 DEF F, N

\* A piece that is not stray adds its packet and nothing else, whatever is behind it.
LEMMA PieceFrames ==
  ASSUME NEW p \in Pieces, p.tag # "stray", NEW s, NEW base, Stretch(Byte, p.bytes, s, base)
  PROVE  FramesFrom(s)[base + 1] = Kept(p) \o FramesFrom(s)[base + Len(p.bytes) + 1]
<1> DEFINE b == p.bytes
           F == FramesFrom(s)
<1>1. /\ b \in Seq(Byte) /\ p.tag \in {"packet", "rejected", "noise", "stray"}
  BY PiecesAssumption
<1>2. Len(b) \in Nat /\ base \in Nat /\ Len(s) \in Nat /\ base + Len(b) <= Len(s) /\ s \in Seq(Byte)
  BY DEF Stretch
<1>3. base + 1 \in 1..(Len(s) + 1) /\ base + Len(b) + 1 \in 1..(Len(s) + 1)
      /\ base + (Len(b) + 1) = base + Len(b) + 1
  <2> HIDE DEF b
  <2> QED
    BY <1>2
<1>4. ASSUME ~Incomplete(b, 1), After(b, 1) = Len(b) + 1, Found(b, 1) = Kept(p)
      PROVE  F[base + 1] = Kept(p) \o F[base + Len(b) + 1]
  <2>1. /\ ~Incomplete(s, base + 1) /\ Found(s, base + 1) = Kept(p)
        /\ After(s, base + 1) = base + Len(b) + 1
    BY <1>3, <1>4, StretchFound
  <2>2. F[base + 1] = IF Incomplete(s, base + 1) THEN <<>>
                      ELSE Found(s, base + 1) \o F[After(s, base + 1)]
    BY <1>2, <1>3, FramesFromEquation
  <2> QED
    BY <2>1, <2>2
<1>5. CASE p.tag = "packet"
  <2>1. Encodable(p.packet) /\ b = Encode(p.packet)
    BY <1>5, PiecesAssumption
  <2>2. ~Incomplete(b, 1) /\ After(b, 1) = Len(b) + 1 /\ Found(b, 1) = <<p.packet>>
    BY <2>1, EncodedIsFound
  <2> QED
    BY <1>4, <1>5, <2>2 DEF Kept
<1>6. CASE p.tag = "rejected"
  <2>1. ~Incomplete(b, 1) /\ After(b, 1) = Len(b) + 1 /\ Found(b, 1) = <<>>
    BY <1>6, PiecesAssumption
  <2> QED
    BY <1>4, <1>6, <2>1 DEF Kept
<1>7. CASE p.tag = "noise"
  <2>1. \A j \in 1..Len(b) : b[j] # MagicByte
    BY <1>1, <1>7, PiecesAssumption
  <2>2. F[base + 1] = F[base + Len(b) + 1]
    BY <2>1, NoiseIsPassedOver
  <2>3. F[base + Len(b) + 1] \in Seq(PacketsIn(s))
    BY <1>2, <1>3, FramesFromType
  <2>4. Kept(p) = <<>>
    BY <1>7 DEF Kept
  <2> HIDE DEF F, b
  <2>5. <<>> \o F[base + Len(b) + 1] = F[base + Len(b) + 1]
    BY <2>3, ConcatEmptySeq
  <2> QED
    BY <2>2, <2>4, <2>5 DEF F, b
<1> QED
  BY <1>1, <1>5, <1>6, <1>7

\* The frames of a stream in which nothing is stray are the packets that were sent.
LEMMA FramesAreThePackets ==
  ASSUME TypeOK, \A i \in DOMAIN sent : sent[i].tag # "stray"
  PROVE  FramesOf(Stream) = Packets
<1> DEFINE N == Len(sent)
           bs == [i \in DOMAIN sent |-> sent[i].bytes]
           ks == [i \in DOMAIN sent |-> IF sent[i].tag = "packet" THEN <<sent[i].packet>> ELSE <<>>]
           s == Stream
           F == FramesFrom(s)
           S == PacketsIn(s) \cup {p.packet : p \in Pieces}
           o(i) == Len(FirstOf(bs, i))
           T == {i \in 0..N : FirstOf(ks, i) \o F[o(i) + 1] # F[1]}
<1>1. sent \in Seq(Pieces)
  BY BoundsAssumption DEF TypeOK, BoundedSeq, SeqOf
<1>2. bs \in Seq(Seq(Byte)) /\ Len(bs) = N /\ N \in Nat
  BY <1>1, PiecesAssumption
<1>3. ks \in Seq(Seq(S)) /\ Len(ks) = N
  <2>1. \A p \in Pieces : p.packet \in S
    OBVIOUS
  <2> HIDE DEF S
  <2>2. \A x \in S : <<x>> \in Seq(S)
    OBVIOUS
  <2>3. <<>> \in Seq(S)
    OBVIOUS
  <2>4. ASSUME NEW i \in 1..N
        PROVE  (IF sent[i].tag = "packet" THEN <<sent[i].packet>> ELSE <<>>) \in Seq(S)
    <3>1. sent[i] \in Pieces
      BY <1>1
    <3> QED
      BY <2>1, <2>2, <2>3, <3>1
  <2>5. DOMAIN sent = 1..N /\ N \in Nat
    BY <1>1
  <2>6. ks = [i \in 1..N |-> ks[i]] /\ \A i \in 1..N : ks[i] \in Seq(S)
    BY <2>4, <2>5
  <2> HIDE DEF ks, N
  <2> QED
    BY <2>5, <2>6
<1>4. \A i \in 1..N : sent[i] \in Pieces /\ sent[i].tag # "stray" /\ bs[i] = sent[i].bytes
                      /\ ks[i] = Kept(sent[i])
  BY <1>1 DEF Kept
<1>5. s = FlattenSeq(bs) /\ Packets = FlattenSeq(ks) /\ s \in Seq(Byte)
  BY StreamType DEF Stream, Bytes, Packets
<1> HIDE DEF bs, ks, s
<1>6. /\ FirstOf(bs, 0) = <<>> /\ s = FirstOf(bs, N)
  BY <1>2, <1>5, FirstOfSteps
<1>7. /\ FirstOf(ks, 0) = <<>> /\ Packets = FirstOf(ks, N)
      /\ \A i \in 1..N : /\ FirstOf(ks, i) = FirstOf(ks, i - 1) \o ks[i]
                         /\ FirstOf(ks, i) \in Seq(S) /\ FirstOf(ks, i - 1) \in Seq(S)
  <2> HIDE DEF S
  <2> QED
    BY <1>3, <1>5, FirstOfSteps
<1>8. \A i \in 1..(Len(s) + 1) : F[i] \in Seq(S)
  <2>1. \A i \in 1..(Len(s) + 1) : F[i] \in Seq(PacketsIn(s))
    BY <1>5, FramesFromType
  <2>2. Seq(PacketsIn(s)) \subseteq Seq(S)
    OBVIOUS
  <2> QED
    BY <2>1, <2>2
<1> HIDE DEF S, F, N
<1>9. ASSUME NEW i \in 1..N
      PROVE  /\ FirstOf(ks, i - 1) \o F[o(i - 1) + 1] = FirstOf(ks, i) \o F[o(i) + 1]
  <2>1. /\ Stretch(Byte, sent[i].bytes, s, o(i - 1)) /\ o(i) = o(i - 1) + Len(sent[i].bytes)
        /\ o(i - 1) \in Nat /\ Len(sent[i].bytes) \in Nat
    <3>1. i \in 1..Len(bs)
      BY <1>2
    <3> QED
      BY <1>2, <1>4, <1>5, <3>1, FirstOfPlaces
  <2>2. F[o(i - 1) + 1] = Kept(sent[i]) \o F[o(i - 1) + Len(sent[i].bytes) + 1]
    BY <1>4, <2>1, PieceFrames DEF F
  <2> DEFINE a == FirstOf(ks, i - 1)
             k == ks[i]
             c == F[o(i) + 1]
  <2>3. F[o(i - 1) + 1] = k \o c
    BY <1>4, <2>1, <2>2
  <2>4. a \in Seq(S) /\ k \in Seq(S) /\ FirstOf(ks, i) = a \o k
    BY <1>3, <1>7
  <2>5. c \in Seq(S)
    <3>1. o(i - 1) + Len(sent[i].bytes) <= Len(s) /\ Len(s) \in Nat
      <4> HIDE DEF o
      <4> QED
        BY <2>1 DEF Stretch
    <3>2. o(i) + 1 \in 1..(Len(s) + 1)
      <4> HIDE DEF o
      <4> QED
        BY <2>1, <3>1
    <3> QED
      BY <1>8, <3>2
  <2> HIDE DEF a, k, c
  <2>6. (a \o k) \o c = a \o (k \o c)
    BY <2>4, <2>5, ConcatAssociative
  <2> QED
    BY <2>3, <2>4, <2>6 DEF a, c
<1>10. T = {}
  <2> SUFFICES ASSUME T # {} PROVE FALSE
    OBVIOUS
  <2>1. PICK i \in T : \A y \in T : i <= y
    <3>1. T \in SUBSET Nat
      BY <1>2
    <3> HIDE DEF T
    <3> QED
      BY <3>1, LeastOf
  <2>2. i \in 0..N /\ FirstOf(ks, i) \o F[o(i) + 1] # F[1]
    OBVIOUS
  <2>3. i # 0
    <3>1. o(0) + 1 = 1
      BY <1>6
    <3>2. F[1] \in Seq(S)
      <4>1. 1 \in 1..(Len(s) + 1)
        BY <1>5
      <4> QED
        BY <1>8, <4>1
    <3>3. <<>> \o F[1] = F[1]
      BY <3>2, ConcatEmptySeq
    <3> HIDE DEF o, T
    <3> QED
      BY <1>7, <2>2, <3>1, <3>3
  <2>4. i \in 1..N /\ i - 1 \in 0..N /\ ~(i <= i - 1)
    BY <1>2, <2>2, <2>3
  <2>5. FirstOf(ks, i - 1) \o F[o(i - 1) + 1] = F[1]
    BY <2>1, <2>4
  <2> HIDE DEF o, T
  <2> QED
    BY <1>9, <2>2, <2>4, <2>5
<1>11. N \in 0..N
  BY <1>2
<1>12. FirstOf(ks, N) \o F[o(N) + 1] = F[1]
  BY <1>10, <1>11
<1>13. F[o(N) + 1] = <<>>
  <2>1. o(N) = Len(s)
    BY <1>6
  <2>2. Len(s) + 1 \in 1..(Len(s) + 1) /\ Incomplete(s, Len(s) + 1)
    <3>1. Len(s) \in Nat
      BY <1>5
    <3> QED
      BY <3>1 DEF Incomplete, Has
  <2>3. F[Len(s) + 1] = <<>>
    BY <1>5, <2>2, FramesFromEquation DEF F
  <2> QED
    BY <2>1, <2>3
<1>14. Packets \in Seq(S)
  <2>1. N = 0 \/ N \in 1..N
    BY <1>2
  <2>2. <<>> \in Seq(S)
    OBVIOUS
  <2> QED
    BY <1>7, <2>1, <2>2
<1>15. Packets \o <<>> = Packets
  BY <1>14, ConcatEmptySeq
<1> QED
  BY <1>7, <1>12, <1>13, <1>15 DEF FramesOf, F, s

\* Noise without a magic byte, and frames rejected for their CRC or flags, cost
\* the stream nothing else: by io.EOF Decode has returned every packet that was
\* encoded into it, as it was, and in order.
THEOREM OthersAlwaysSurvive == Spec => []OthersSurvive
<1>1. ASSUME TypeOK, CutsDoNotMatter PROVE OthersSurvive
  <2> SUFFICES ASSUME Ended, \A i \in DOMAIN sent : sent[i].tag # "stray"
               PROVE  decoded = Packets
    BY DEF OthersSurvive
  <2>1. decoded = FramesOf(Stream)
    BY <1>1 DEF CutsDoNotMatter, Stream
  <2> QED
    BY <1>1, <2>1, FramesAreThePackets
<1> QED
  BY <1>1, TypeCorrect, CutsNeverMatter, PTL

\* Without stray bytes nothing is ever made up, with or without a checksum: at any
\* moment Decode has returned the first of the packets that were sent.
THEOREM PacketsComeInOrder ==
  Spec => []((\A i \in DOMAIN sent : sent[i].tag # "stray") => IsPrefix(decoded, Packets))
<1>1. ASSUME TypeOK, CutsDoNotMatter, \A i \in DOMAIN sent : sent[i].tag # "stray"
      PROVE  IsPrefix(decoded, Packets)
  <2>1. FramesOf(Stream) = Packets
    BY <1>1, FramesAreThePackets
  <2> QED
    BY <1>1, <2>1 DEF CutsDoNotMatter, Stream
<1> QED
  BY <1>1, TypeCorrect, CutsNeverMatter, PTL

-----------------------------------------------------------------------------
(* What a checksum vouches for                                               *)

\* A packet in a stream is read at a place where there is one.
LEMMA WhereFound ==
  ASSUME NEW s \in Seq(Byte), NEW x \in PacketsIn(s)
  PROVE  \E i \in 1..Len(s) :
           /\ ~Incomplete(s, i) /\ s[i] = MagicByte
           /\ ~TooShort(s, i, s[i + 1]) /\ AcceptableAt(s, i, s[i + 1])
           /\ Found(s, i) = <<x>> /\ x.flags = s[i + 1]
<1>1. PICK i \in {j \in 1..Len(s) : ~Incomplete(s, j)} : x \in ToSet(Found(s, i))
  BY DEF PacketsIn
<1> DEFINE p == PacketAt(s, i, s[i + 1])
<1>2. ToSet(<<>>) = {} /\ ToSet(<<p>>) = {p}
  BY DEF ToSet
<1>3. /\ s[i] = MagicByte /\ ~TooShort(s, i, s[i + 1]) /\ AcceptableAt(s, i, s[i + 1])
      /\ Found(s, i) = <<p>> /\ x = p
  BY <1>1, <1>2 DEF Found
<1>4. p.flags = s[i + 1]
  BY DEF PacketAt
<1> HIDE DEF p
<1> QED
  BY <1>1, <1>3, <1>4

\* A sequence of one that is joined with others is in what they make.
LEMMA JoinedHolds ==
  ASSUME NEW S, NEW seqs \in Seq(Seq(S)), NEW i \in 1..Len(seqs), NEW x, seqs[i] = <<x>>
  PROVE  x \in ToSet(FlattenSeq(seqs))
<1> DEFINE s == FlattenSeq(seqs)
           b == <<x>>
           n == Len(FirstOf(seqs, i - 1))
<1>1. Stretch(S, b, s, n) /\ n \in Nat
  BY FirstOfPlaces
<1>2. Len(b) = 1 /\ b[1] = x
  OBVIOUS
<1> HIDE DEF s, b, n
<1>3. s \in Seq(S) /\ n + 1 <= Len(s) /\ s[n + 1] = x
  BY <1>1, <1>2 DEF Stretch
<1>4. n + 1 \in DOMAIN s
  BY <1>1, <1>3
<1>5. x \in ToSet(s)
  BY <1>3, <1>4 DEF ToSet
<1> QED
  BY <1>5 DEF s

\* A packet that was put into the stream is one of its packets.
LEMMA SentIsAPacket ==
  ASSUME TypeOK, NEW k \in DOMAIN sent, sent[k].tag = "packet"
  PROVE  sent[k].packet \in ToSet(Packets)
<1> DEFINE N == Len(sent)
           S == {p.packet : p \in Pieces}
           ks == [i \in DOMAIN sent |-> IF sent[i].tag = "packet" THEN <<sent[i].packet>> ELSE <<>>]
<1>1. sent \in Seq(Pieces)
  BY BoundsAssumption DEF TypeOK, BoundedSeq, SeqOf
<1>2. DOMAIN sent = 1..N /\ N \in Nat
  BY <1>1
<1>3. \A p \in Pieces : p.packet \in S
  OBVIOUS
<1> HIDE DEF S
<1>4. ASSUME NEW i \in 1..N
      PROVE  (IF sent[i].tag = "packet" THEN <<sent[i].packet>> ELSE <<>>) \in Seq(S)
  <2>1. sent[i] \in Pieces
    BY <1>1
  <2>2. \A x \in S : <<x>> \in Seq(S)
    OBVIOUS
  <2>3. <<>> \in Seq(S)
    OBVIOUS
  <2> QED
    BY <1>3, <2>1, <2>2, <2>3
<1>5. ks[k] = <<sent[k].packet>> /\ k \in 1..N
  BY <1>2
<1>6. ks = [i \in 1..N |-> ks[i]] /\ \A i \in 1..N : ks[i] \in Seq(S)
  BY <1>2, <1>4
<1>7. Packets = FlattenSeq(ks)
  BY DEF Packets
<1> HIDE DEF ks, N
<1>8. ks \in Seq(Seq(S)) /\ Len(ks) = N
  BY <1>2, <1>6
<1> QED
  BY <1>5, <1>7, <1>8, JoinedHolds

\* Where a packet lies in the stream as it was encoded, that packet is found.
LEMMA FoundWhereItLies ==
  ASSUME TypeOK, NEW k \in DOMAIN sent, sent[k].tag = "packet", NEW i \in 1..Len(Stream),
         Has(Stream, i, Len(sent[k].bytes)),
         Cut(Stream, i, Len(sent[k].bytes)) = sent[k].bytes
  PROVE  Found(Stream, i) = <<sent[k].packet>>
<1> DEFINE b == sent[k].bytes
           s == Stream
           n == i - 1
<1>1. sent \in Seq(Pieces)
  BY BoundsAssumption DEF TypeOK, BoundedSeq, SeqOf
<1>2. sent[k] \in Pieces
  BY <1>1
<1>3. b \in Seq(Byte) /\ Encodable(sent[k].packet) /\ b = Encode(sent[k].packet)
  BY <1>2, PiecesAssumption
<1>4. s \in Seq(Byte)
  BY StreamType
<1>5. ~Incomplete(b, 1) /\ Found(b, 1) = <<sent[k].packet>>
  BY <1>3, EncodedIsFound
<1> HIDE DEF b, s
<1>6. Len(b) \in Nat /\ Len(s) \in Nat /\ n \in Nat /\ n + 1 = i /\ i \in Nat \ {0}
  BY <1>3, <1>4 DEF s
<1>7. Has(s, i, Len(b)) /\ Cut(s, i, Len(b)) = b
  BY DEF s, b
<1>8. n + Len(b) <= Len(s)
  BY <1>6, <1>7 DEF Has
<1>9. \A j \in 1..Len(b) : b[j] = s[i + j - 1]
  BY <1>4, <1>6, <1>7, CutElements
<1>10. \A j \in 1..Len(b) : b[j] = s[n + j]
  BY <1>6, <1>9
<1>11. Stretch(Byte, b, s, n)
  BY <1>3, <1>4, <1>6, <1>8, <1>10 DEF Stretch
<1>12. Found(s, n + 1) = Found(b, 1)
  BY <1>5, <1>11, StretchFound
<1> QED
  BY <1>5, <1>6, <1>12 DEF s

\* Whatever noise, damaged frames and other bytes are in the stream, and however
\* it is cut up: as long as no checksum in it matches by chance, every packet
\* with a CRC that Decode returns is one that was sent.
THEOREM NothingIsInvented == Spec => [](ChecksumsTell(sent) => NothingInvented)
<1>1. ASSUME TypeOK, decoded \in Seq(PacketsIn(Stream)), ChecksumsTell(sent)
      PROVE  NothingInvented
  <2> DEFINE s == Stream
  <2> SUFFICES ASSUME NEW d \in DOMAIN decoded, CRCLen(decoded[d].flags) > 0
               PROVE  decoded[d] \in ToSet(Packets)
    BY DEF NothingInvented
  <2>1. decoded[d] \in PacketsIn(s) /\ s \in Seq(Byte) /\ DOMAIN s = 1..Len(s)
    BY <1>1, StreamType
  <2>2. PICK i \in 1..Len(s) :
          /\ ~Incomplete(s, i) /\ s[i] = MagicByte
          /\ ~TooShort(s, i, s[i + 1]) /\ AcceptableAt(s, i, s[i + 1])
          /\ Found(s, i) = <<decoded[d]>> /\ decoded[d].flags = s[i + 1]
    BY <2>1, WhereFound
  <2>3. PICK k \in DOMAIN sent :
          /\ sent[k].tag = "packet" /\ Has(s, i, Len(sent[k].bytes))
          /\ Cut(s, i, Len(sent[k].bytes)) = sent[k].bytes
    BY <1>1, <2>1, <2>2 DEF ChecksumsTell, Stream
  <2>4. Found(s, i) = <<sent[k].packet>>
    BY <1>1, <2>3, FoundWhereItLies
  <2>5. decoded[d] = sent[k].packet
    BY <2>2, <2>4
  <2> QED
    BY <1>1, <2>3, <2>5, SentIsAPacket
<1>2. DecoderInv => TypeOK /\ decoded \in Seq(PacketsIn(Stream))
  BY DEF DecoderInv, Progress
<1> QED
  BY <1>1, <1>2, DecoderInvariant, PTL

-----------------------------------------------------------------------------
(* What the constructors make can be encoded                                 *)

\* The seven fields of a byte of flags do not touch each other.
LEMMA FlagBits ==
  ASSUME NEW a \in {0, 1}, NEW b \in {0, 1}, NEW c \in {0, 1}, NEW d \in {0, 1, 2},
         NEW e \in {0, 1, 2}, NEW g \in {0, 1}
  PROVE  LET f == 128 * a + 64 * b + 32 * c + 8 * d + 2 * e + g
         IN  /\ f \in 0..255
             /\ (f \div 128) % 2 = a /\ (f \div 64) % 2 = b /\ (f \div 32) % 2 = c
             /\ (f \div 8) % 4 = d /\ (f \div 2) % 4 = e /\ (f \div 1) % 2 = g
<1> DEFINE f == 128 * a + 64 * b + 32 * c + 8 * d + 2 * e + g
<1>1. f \in 0..255
  OBVIOUS
<1>2. (f \div 128) % 2 = a
  OBVIOUS
<1>3. (f \div 64) % 2 = b
  OBVIOUS
<1>4. (f \div 32) % 2 = c
  OBVIOUS
<1>5. (f \div 8) % 4 = d
  OBVIOUS
<1>6. (f \div 2) % 4 = e
  OBVIOUS
<1>7. (f \div 1) % 2 = g
  OBVIOUS
<1> QED
  BY <1>1, <1>2, <1>3, <1>4, <1>5, <1>6, <1>7

\* The fields of f are those it was made of.
FlagsAre(f, resp, ack, hasBody, o, q, c) ==
  /\ f \in Byte
  /\ IsResponse(f) <=> resp
  /\ RequiresAck(f) <=> ack
  /\ HasBodyLen(f) <=> hasBody
  /\ OpcodeLen(f) = o /\ SeqLen(f) = q /\ CRCLen(f) = c

\* The flags that are set are the flags that are read.
LEMMA FlagsAsSet ==
  ASSUME NEW resp \in BOOLEAN, NEW ack \in BOOLEAN, NEW hasBody \in BOOLEAN,
         NEW o \in {0, 2, 4}, NEW q \in {0, 2, 4}, NEW c \in {0, 2}
  PROVE  FlagsAre(Flags(resp, ack, hasBody, o, q, c), resp, ack, hasBody, o, q, c)
<1> DEFINE w(x) == IF x THEN 1 ELSE 0
           b1 == w(resp)
           b2 == w(ack)
           b3 == w(hasBody)
           d == o \div 2
           e == q \div 2
           g == w(c > 0)
           f == Flags(resp, ack, hasBody, o, q, c)
<1>1. /\ b1 \in {0, 1} /\ b2 \in {0, 1} /\ b3 \in {0, 1} /\ g \in {0, 1}
      /\ d \in {0, 1, 2} /\ e \in {0, 1, 2}
  OBVIOUS
<1>2. /\ b1 = 1 <=> resp
      /\ b2 = 1 <=> ack
      /\ b3 = 1 <=> hasBody
      /\ g = 1 <=> c = 2
      /\ o = (IF d = 1 THEN 2 ELSE IF d = 2 THEN 4 ELSE 0)
      /\ q = (IF e = 1 THEN 2 ELSE IF e = 2 THEN 4 ELSE 0)
  OBVIOUS
<1>3. f = 128 * b1 + 64 * b2 + 32 * b3 + 8 * d + 2 * e + g
  BY DEF Flags
<1> HIDE DEF w, b1, b2, b3, d, e, g, f
<1>4. /\ f \in 0..255
      /\ (f \div 128) % 2 = b1 /\ (f \div 64) % 2 = b2 /\ (f \div 32) % 2 = b3
      /\ (f \div 8) % 4 = d /\ (f \div 2) % 4 = e /\ (f \div 1) % 2 = g
  BY <1>1, <1>3, FlagBits
<1>5. /\ f \in Byte
      /\ IsResponse(f) <=> b1 = 1
      /\ RequiresAck(f) <=> b2 = 1
      /\ HasBodyLen(f) <=> b3 = 1
      /\ OpcodeLen(f) = (IF d = 1 THEN 2 ELSE IF d = 2 THEN 4 ELSE 0)
      /\ SeqLen(f) = (IF e = 1 THEN 2 ELSE IF e = 2 THEN 4 ELSE 0)
      /\ CRCLen(f) = (IF g = 1 THEN 2 ELSE 0)
  BY <1>4 DEF Byte, IsResponse, RequiresAck, HasBodyLen, OpcodeLen, SeqLen, CRCLen, Bit, WidthAt
<1>6. CRCLen(f) = c
  BY <1>2, <1>5
<1>7. FlagsAre(f, resp, ack, hasBody, o, q, c)
  BY <1>2, <1>5, <1>6 DEF FlagsAre
<1> QED
  BY <1>7 DEF f

\* A field gets the bytes it needs.
LEMMA FieldLenFits ==
  ASSUME NEW v \in Nat, v \div 65536 <= MaxUint16
  PROVE  FieldLen(v) \in {0, 2, 4} /\ Fits(v, FieldLen(v))
BY DEF FieldLen, Fits

\* Every request and notification that NewRequestPacket and NewNotificationPacket
\* make of 32-bit numbers can be encoded, when its body is no longer than what the
\* length field counts; so what is sent is what the peer's Decode returns.
THEOREM RequestsCanBeEncoded ==
  ASSUME NEW opcode \in Nat, NEW seq \in Nat, NEW body \in Seq(Byte),
         NEW ack \in BOOLEAN, NEW crc \in BOOLEAN,
         opcode \div 65536 <= MaxUint16, seq \div 65536 <= MaxUint16,
         Len(body) + 10 <= MaxUint16
  PROVE  Encodable(NewRequestPacket(opcode, seq, body, ack, crc))
<1> DEFINE o == FieldLen(opcode)
           q == IF ack /\ FieldLen(seq) = 0 THEN 2 ELSE FieldLen(seq)
           c == IF crc THEN 2 ELSE 0
           f == Flags(FALSE, ack, body # <<>>, o, q, c)
           p == NewRequestPacket(opcode, seq, body, ack, crc)
<1>1. p = [flags |-> f, opcode |-> opcode, seq |-> seq, body |-> body]
  BY DEF NewRequestPacket
<1>2. o \in {0, 2, 4} /\ Fits(opcode, o)
  BY FieldLenFits
<1>3. q \in {0, 2, 4} /\ Fits(seq, q) /\ (ack => q # 0)
  <2>1. FieldLen(seq) \in {0, 2, 4} /\ Fits(seq, FieldLen(seq))
    BY FieldLenFits
  <2>2. CASE ack /\ FieldLen(seq) = 0
    <3>1. Fits(seq, 2)
      BY <2>1, <2>2, MaxUint16IsNat DEF Fits
    <3> QED
      BY <2>2, <3>1
  <2>3. CASE ~(ack /\ FieldLen(seq) = 0)
    BY <2>1, <2>3
  <2> QED
    BY <2>2, <2>3
<1>4. c \in {0, 2}
  OBVIOUS
<1> HIDE DEF o, q, c, p
<1>5. /\ f \in Byte /\ ~IsResponse(f) /\ (RequiresAck(f) <=> ack)
      /\ HasBodyLen(f) <=> body # <<>>
      /\ OpcodeLen(f) = o /\ SeqLen(f) = q
  <2> DEFINE resp == FALSE
             h == body # <<>>
  <2>1. resp \in BOOLEAN /\ h \in BOOLEAN /\ ~resp
    OBVIOUS
  <2>2. f = Flags(resp, ack, h, o, q, c)
    OBVIOUS
  <2> HIDE DEF resp, h, f
  <2>3. o \in {0, 2, 4} /\ q \in {0, 2, 4}
    BY <1>2, <1>3
  <2>4. FlagsAre(Flags(resp, ack, h, o, q, c), resp, ack, h, o, q, c)
    BY ONLY <1>4, <2>1, <2>3, FlagsAsSet, ack \in BOOLEAN
  <2>5. FlagsAre(f, resp, ack, h, o, q, c)
    BY <2>2, <2>4
  <2> QED
    BY <2>1, <2>5 DEF h, FlagsAre
<1> HIDE DEF f
<1>6. Validate(f, body # <<>>)
  BY <1>3, <1>5 DEF Validate
<1>7. FieldsLen(f) + Len(body) <= MaxUint16
  <2>1. FieldsLen(f) \in 0..10 /\ Len(body) \in Nat
    BY Widths
  <2> QED
    BY <2>1, MaxUint16IsNat
<1> QED
  BY <1>1, <1>2, <1>3, <1>5, <1>6, <1>7 DEF Encodable, p

\* Every response can be encoded that NewResponsePacket makes for a request whose
\* sequence number fits the width in its flags.
THEOREM ResponsesCanBeEncoded ==
  ASSUME NEW opcode \in Nat, NEW seq \in Nat, NEW body \in Seq(Byte), NEW requestFlags \in Byte,
         opcode \div 65536 <= MaxUint16, Fits(seq, SeqLen(requestFlags)),
         Len(body) + 10 <= MaxUint16
  PROVE  Encodable(NewResponsePacket(opcode, seq, body, requestFlags))
<1> DEFINE o == FieldLen(opcode)
           q == SeqLen(requestFlags)
           c == CRCLen(requestFlags)
           f == Flags(TRUE, FALSE, body # <<>>, o, q, c)
           p == NewResponsePacket(opcode, seq, body, requestFlags)
<1>1. p = [flags |-> f, opcode |-> opcode, seq |-> seq, body |-> body]
  BY DEF NewResponsePacket
<1>2. o \in {0, 2, 4} /\ Fits(opcode, o)
  BY FieldLenFits
<1>3. q \in {0, 2, 4} /\ c \in {0, 2}
  BY Widths
<1> HIDE DEF o, q, c, p
<1>4. /\ f \in Byte /\ ~RequiresAck(f)
      /\ HasBodyLen(f) <=> body # <<>>
      /\ OpcodeLen(f) = o /\ SeqLen(f) = q
  <2> DEFINE resp == TRUE
             ack == FALSE
             h == body # <<>>
  <2>1. resp \in BOOLEAN /\ ack \in BOOLEAN /\ h \in BOOLEAN /\ ~ack
    OBVIOUS
  <2>2. f = Flags(resp, ack, h, o, q, c)
    OBVIOUS
  <2> HIDE DEF resp, ack, h, f
  <2>3. FlagsAre(Flags(resp, ack, h, o, q, c), resp, ack, h, o, q, c)
    BY <1>2, <1>3, <2>1, FlagsAsSet
  <2>4. FlagsAre(f, resp, ack, h, o, q, c)
    BY <2>2, <2>3
  <2> QED
    BY <2>1, <2>4 DEF h, FlagsAre
<1> HIDE DEF f
<1>5. Validate(f, body # <<>>)
  BY <1>4 DEF Validate
<1>6. FieldsLen(f) + Len(body) <= MaxUint16
  <2>1. FieldsLen(f) \in 0..10 /\ Len(body) \in Nat
    BY Widths
  <2> QED
    BY <2>1, MaxUint16IsNat
<1>7. Fits(seq, SeqLen(f))
  BY <1>4 DEF q
<1> QED
  BY <1>1, <1>2, <1>4, <1>5, <1>6, <1>7 DEF Encodable, p
=============================================================================
