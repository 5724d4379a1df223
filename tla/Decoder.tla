------------------------------- MODULE Decoder -------------------------------
(***************************************************************************)
(* conn.Decoder (conn/decoder.go) reading one connection.  The peer sends  *)
(* a stream made of pieces: frames, damaged frames and noise.  They arrive *)
(* cut up in any way, and the caller calls Decode again and again until it *)
(* returns io.EOF.  Another error of the reader returns from Decode with   *)
(* every field as it is, and the next call goes on: it is not an action.   *)
(*                                                                         *)
(* The fields curOpcodeLen, curSeqLen, curCRCLen and curHasBodyLen are     *)
(* functions of curFlags, and the header offsets of curFrameStart.         *)
(***************************************************************************)
EXTENDS Frames

CONSTANTS Pieces,     \* what the stream is made of: sequences of bytes, tagged
          MaxPieces,  \* bound: pieces in a stream
          MaxRead     \* bound: the bytes one Read returns; 4096 or more in the code

\* A packet is sent as Encode makes it.  What is rejected is a whole frame in
\* which there is no packet; noise has no magic byte in it, and what is stray
\* may be anything.
ASSUME PiecesAssumption ==
  \A p \in Pieces :
    /\ p.bytes \in Seq(Byte)
    /\ p.tag \in {"packet", "rejected", "noise", "stray"}
    /\ p.tag = "packet" => Encodable(p.packet) /\ p.bytes = Encode(p.packet)
    /\ p.tag = "rejected" => /\ ~Incomplete(p.bytes, 1)
                             /\ Found(p.bytes, 1) = <<>>
                             /\ After(p.bytes, 1) = Len(p.bytes) + 1
    /\ p.tag = "noise" => \A i \in DOMAIN p.bytes : p.bytes[i] # MagicByte
ASSUME BoundsAssumption == MaxPieces \in Nat /\ MaxRead \in Nat \ {0}

VARIABLES
  sent,        \* the pieces the stream was made of
  rest,        \* the bytes of it that have not been read
  buf,         \* Decoder.buf
  bufPos,      \* Decoder.bufPos
  state,       \* Decoder.state
  frameStart,  \* Decoder.curFrameStart
  flags,       \* Decoder.curFlags
  bodyLen,     \* Decoder.curBodyLen
  consumed,    \* Decoder.bytesConsumed
  decoded      \* history: the packets Decode has returned

bufVars == <<rest, buf>>
frameVars == <<state, frameStart, flags, bodyLen>>
vars == <<sent, bufVars, bufPos, frameVars, consumed, decoded>>

Bytes(pieces) == FlattenSeq([i \in DOMAIN pieces |-> pieces[i].bytes])

TypeOK ==
  /\ sent \in BoundedSeq(Pieces, MaxPieces)
  /\ Len(rest) <= Len(Bytes(sent))
  /\ bufPos \in 0..Len(buf) /\ frameStart \in 0..bufPos /\ consumed \in Nat
  /\ state \in {"magic", "flags", "length", "opcode", "seq", "body", "crc", "padding"}
  /\ flags \in Byte
  /\ bodyLen \in 0..MaxUint16

Init ==
  /\ sent \in BoundedSeq(Pieces, MaxPieces)
  /\ rest = Bytes(sent)
  /\ buf = <<>>
  /\ bufPos = 0
  /\ state = "magic"
  /\ frameStart = 0
  /\ flags = 0
  /\ bodyLen = 0
  /\ consumed = 0
  /\ decoded = <<>>

-----------------------------------------------------------------------------
(* Fields.  The byte at Go's offset i is buf[i + 1]. *)

FieldAt(i, n) == Cut(buf, i + 1, n)

\* A plausible slip: four bytes are skipped when none are due.
PaddingUnwrapped == 4 - ((bufPos - frameStart) % 4)

Padding == PadLen(bufPos - frameStart)

\* What ensureBytes is asked for in each state.
Need ==
  CASE state \in {"magic", "flags"} -> 1
    [] state = "length"             -> 2
    [] state = "opcode"             -> OpcodeLen(flags)
    [] state = "seq"                -> SeqLen(flags)
    [] state = "body"               -> bodyLen
    [] state = "crc"                -> CRCLen(flags)
    [] state = "padding"            -> Padding

Missing == Len(buf) - bufPos < Need

-----------------------------------------------------------------------------
(* Reading *)

\* ensureBytes reads on until it has enough; it may well get more.
Read ==
  /\ Missing
  /\ rest # <<>>
  /\ \E n \in 1..MaxRead :
       /\ n <= Len(rest)
       /\ buf' = buf \o SubSeq(rest, 1, n)
       /\ rest' = SubSeq(rest, n + 1, Len(rest))
  /\ UNCHANGED <<sent, bufPos, frameVars, consumed, decoded>>

\* The position moves on by n bytes.
Consume(n) == bufPos' = bufPos + n /\ consumed' = consumed + n

\* A byte where a frame should begin is not the magic byte: noise.
SkipByte ==
  /\ state = "magic" /\ ~Missing
  /\ FieldAt(bufPos, 1) # <<MagicByte>>
  /\ Consume(1)
  /\ UNCHANGED <<sent, bufVars, frameVars, decoded>>

ReadMagic ==
  /\ state = "magic" /\ ~Missing
  /\ FieldAt(bufPos, 1) = <<MagicByte>>
  /\ frameStart' = bufPos
  /\ Consume(1)
  /\ state' = "flags"
  /\ UNCHANGED <<sent, bufVars, flags, bodyLen, decoded>>

ReadFlags ==
  /\ state = "flags" /\ ~Missing
  /\ flags' = buf[frameStart + 2]
  /\ bufPos' = frameStart + 2
  /\ consumed' = consumed + 1
  /\ state' = IF HasBodyLen(flags') THEN "length" ELSE "opcode"
  /\ UNCHANGED <<sent, bufVars, frameStart, bodyLen, decoded>>

\* resetFrame, which leaves curFrameStart to ReadMagic.
ResetFrame == state' = "magic" /\ flags' = 0 /\ bodyLen' = 0

\* Length covers opcode, sequence number, body and CRC.  One that is too short
\* for them ends the frame, and what was read of it is not looked at again.
ReadLength ==
  /\ state = "length" /\ ~Missing
  /\ LET length == ReadUintN(FieldAt(frameStart + 2, 2))
     IN  IF length < FieldsLen(flags)
         THEN ResetFrame
         ELSE state' = "opcode" /\ bodyLen' = length - FieldsLen(flags) /\ UNCHANGED flags
  /\ bufPos' = frameStart + 4
  /\ consumed' = consumed + 2
  /\ UNCHANGED <<sent, bufVars, frameStart, decoded>>

\* Opcode, sequence number, body and CRC are passed over and read at the end.
Following ==
  CASE state = "opcode" -> "seq"
    [] state = "seq"    -> IF bodyLen > 0 THEN "body" ELSE "crc"
    [] state = "body"   -> "crc"
    [] state = "crc"    -> "padding"

PassField ==
  /\ state \in {"opcode", "seq", "body", "crc"} /\ ~Missing
  /\ Consume(Need)
  /\ state' = Following
  /\ UNCHANGED <<sent, bufVars, frameStart, flags, bodyLen, decoded>>

-----------------------------------------------------------------------------
(* The end of a frame *)

\* The frame in the buffer, whose body begins at the offset body.
Body0 == frameStart + HeadLen(flags) + OpcodeLen(flags) + SeqLen(flags)

Built ==
  [flags  |-> flags,
   opcode |-> ReadUintN(FieldAt(Body0 - SeqLen(flags) - OpcodeLen(flags), OpcodeLen(flags))),
   seq    |-> ReadUintN(FieldAt(Body0 - SeqLen(flags), SeqLen(flags))),
   body   |-> FieldAt(Body0, bodyLen)]

\* A plausible slip: the CRC is not looked at.
AcceptableUnchecked == Validate(flags, bodyLen > 0)

\* buildFrame: the CRC over all but the magic byte, and the flags.
Acceptable ==
  /\ FieldAt(Body0 + bodyLen, CRCLen(flags))
       = ComputeCRC(FieldAt(frameStart + 1, Body0 + bodyLen - frameStart - 1), CRCLen(flags))
  /\ Validate(flags, bodyLen > 0)

\* The frame is thrown away, with its padding; the buffer stays as it is.
Reject ==
  /\ state = "padding" /\ ~Missing
  /\ ~Acceptable
  /\ Consume(Padding)
  /\ ResetFrame
  /\ UNCHANGED <<sent, bufVars, frameStart, decoded>>

\* A plausible slip: what was read beyond the frame is dropped with it.
CompactAll ==
  /\ buf' = <<>>
  /\ frameStart' = 0
  /\ bufPos' = 0

\* compact, after the padding: what was consumed leaves the buffer.
Compact ==
  /\ buf' = SubSeq(buf, bufPos + Padding + 1, Len(buf))
  /\ frameStart' = 0
  /\ bufPos' = 0

\* Decode returns the frame.
Return ==
  /\ state = "padding" /\ ~Missing
  /\ Acceptable
  /\ decoded' = Append(decoded, Built)
  /\ consumed' = consumed + Padding
  /\ Compact
  /\ ResetFrame
  /\ UNCHANGED <<sent, rest>>

Next ==
  \/ Read
  \/ SkipByte \/ ReadMagic \/ ReadFlags \/ ReadLength \/ PassField
  \/ Reject \/ Return

Spec == Init /\ [][Next]_vars

\* Decode returns io.EOF: the stream has ended and nothing complete is left.
Ended == Missing /\ rest = <<>>

-----------------------------------------------------------------------------
(* Correctness *)

\* However the stream is cut up in reading, Decode returns the frames that are
\* in it, in order, and all of them before it returns io.EOF; and BytesConsumed,
\* what is unread and what is unparsed always add up to what was sent.
CutsDoNotMatter ==
  /\ IsPrefix(decoded, FramesOf(Bytes(sent)))
  /\ Ended => decoded = FramesOf(Bytes(sent))
  /\ consumed + (Len(buf) - bufPos) + Len(rest) = Len(Bytes(sent))

\* The packets that were encoded into the stream.
Packets ==
  FlattenSeq([i \in DOMAIN sent |-> IF sent[i].tag = "packet" THEN <<sent[i].packet>> ELSE <<>>])

\* Noise without a magic byte, and frames whose body was damaged, cost the
\* stream nothing else: Decode returns every packet as it was encoded.
OthersSurvive ==
  Ended /\ (\A i \in DOMAIN sent : sent[i].tag # "stray") => decoded = Packets

\* Whatever noise and damaged frames came before: a frame with a CRC that
\* Decode returns is one that was sent.
NothingInvented ==
  \A i \in DOMAIN decoded :
    CRCLen(decoded[i].flags) > 0 => decoded[i] \in ToSet(Packets)

\* What NothingInvented takes of a stream: a checksum, where there is one,
\* matches only where a packet was put.
ChecksumsTell(pieces) ==
  LET s == Bytes(pieces)
  IN  \A i \in DOMAIN s :
        /\ ~Incomplete(s, i)
        /\ s[i] = MagicByte /\ CRCLen(s[i + 1]) > 0
        /\ ~TooShort(s, i, s[i + 1]) /\ AcceptableAt(s, i, s[i + 1])
        => \E k \in DOMAIN pieces :
             LET b == pieces[k].bytes
             IN  pieces[k].tag = "packet" /\ Has(s, i, Len(b)) /\ Cut(s, i, Len(b)) = b
=============================================================================
