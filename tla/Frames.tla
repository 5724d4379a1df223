------------------------------- MODULE Frames -------------------------------
(***************************************************************************)
(* What a whole stream means: the frames in it, found by looking at all of *)
(* it at once.  A frame begins at a magic byte; one whose length is too    *)
(* short for its fields is four bytes long, and one that is not acceptable *)
(* has the length it says; both are no frames.  A byte that begins nothing *)
(* is passed over.                                                         *)
(***************************************************************************)
EXTENDS Packet

\* n bytes of s from the i-th on, and whether they are there.
Cut(s, i, n) == SubSeq(s, i, i + n - 1)
Has(s, i, n) == i + n <= Len(s) + 1

\* A frame that begins at i, with the flags f.
LengthAt(s, i, f) == IF HasBodyLen(f) THEN ReadUintN(Cut(s, i + 2, 2)) ELSE FieldsLen(f)
TooShort(s, i, f) == LengthAt(s, i, f) < FieldsLen(f)
CRCAt(s, i, f) == i + HeadLen(f) + LengthAt(s, i, f) - CRCLen(f)
SizeAt(s, i, f) == LET n == HeadLen(f) + LengthAt(s, i, f) IN n + PadLen(n)

\* Nothing whole is to be found at i.
Incomplete(s, i) ==
  \/ ~Has(s, i, 1)
  \/ /\ s[i] = MagicByte
     /\ \/ ~Has(s, i, 2)
        \/ ~Has(s, i, HeadLen(s[i + 1]))
        \/ ~TooShort(s, i, s[i + 1]) /\ ~Has(s, i, SizeAt(s, i, s[i + 1]))

\* Where what begins at i ends.
After(s, i) ==
  IF s[i] # MagicByte THEN i + 1
  ELSE IF TooShort(s, i, s[i + 1]) THEN i + 4
  ELSE i + SizeAt(s, i, s[i + 1])

BodyAt(i, f) == i + HeadLen(f) + OpcodeLen(f) + SeqLen(f)

PacketAt(s, i, f) ==
  [flags  |-> f,
   opcode |-> ReadUintN(Cut(s, i + HeadLen(f), OpcodeLen(f))),
   seq    |-> ReadUintN(Cut(s, i + HeadLen(f) + OpcodeLen(f), SeqLen(f))),
   body   |-> Cut(s, BodyAt(i, f), CRCAt(s, i, f) - BodyAt(i, f))]

AcceptableAt(s, i, f) ==
  /\ Cut(s, CRCAt(s, i, f), CRCLen(f))
       = ComputeCRC(Cut(s, i + 1, CRCAt(s, i, f) - i - 1), CRCLen(f))
  /\ Validate(f, CRCAt(s, i, f) > BodyAt(i, f))

\* The packet that begins at i, if there is one.
Found(s, i) ==
  IF /\ s[i] = MagicByte
     /\ ~TooShort(s, i, s[i + 1])
     /\ AcceptableAt(s, i, s[i + 1])
  THEN <<PacketAt(s, i, s[i + 1])>>
  ELSE <<>>

\* The packets that can be found anywhere in s.
PacketsIn(s) == UNION {ToSet(Found(s, i)) : i \in {j \in 1..Len(s) : ~Incomplete(s, j)}}

FramesFrom(s) ==
  LET from[i \in 1..(Len(s) + 1)] ==
        IF Incomplete(s, i) THEN <<>> ELSE Found(s, i) \o from[After(s, i)]
  IN  from

FramesOf(s) == FramesFrom(s)[1]
=============================================================================
