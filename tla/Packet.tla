------------------------------- MODULE Packet -------------------------------
(***************************************************************************)
(* The frame format: flags.go, packet.go, conn/crc.go and conn/encoder.go. *)
(* A packet is a record of its four fields; a byte is a number in 0..255,  *)
(* and the body a sequence of bytes, <<>> when there is none.              *)
(***************************************************************************)
EXTENDS Integers, Sequences, SequencesExt

CONSTANT CRC16(_)  \* the checksum of a sequence of bytes: CRC16IBM, in module Crc

Byte == 0..255

MagicByte == 81

-----------------------------------------------------------------------------
(* Flags *)

\* The bit of weight w.
Bit(f, w) == (f \div w) % 2 = 1

\* The two-bit length field of weight w: 0, 2 or 4 bytes.
WidthAt(f, w) == IF (f \div w) % 4 = 1 THEN 2 ELSE IF (f \div w) % 4 = 2 THEN 4 ELSE 0

IsResponse(f) == Bit(f, 128)
RequiresAck(f) == Bit(f, 64)
HasBodyLen(f) == Bit(f, 32)
OpcodeLen(f) == WidthAt(f, 8)
SeqLen(f) == WidthAt(f, 2)
CRCLen(f) == IF Bit(f, 1) THEN 2 ELSE 0

\* The flags with these fields set.
Flags(resp, ack, hasBody, opcodeLen, seqLen, crcLen) ==
  LET b(x) == IF x THEN 1 ELSE 0
  IN  128 * b(resp) + 64 * b(ack) + 32 * b(hasBody)
        + 8 * (opcodeLen \div 2) + 2 * (seqLen \div 2) + b(crcLen > 0)

Validate(f, hasBody) ==
  /\ ~(RequiresAck(f) /\ SeqLen(f) = 0)
  /\ ~(IsResponse(f) /\ RequiresAck(f))
  /\ ~(~HasBodyLen(f) /\ hasBody)

\* What a frame is made of before its body: magic byte, flags and length; and
\* what the length counts but for the body.
HeadLen(f) == IF HasBodyLen(f) THEN 4 ELSE 2
FieldsLen(f) == OpcodeLen(f) + SeqLen(f) + CRCLen(f)

-----------------------------------------------------------------------------
(* Packets *)

MaxUint16 == 65535

FieldLen(v) == IF v = 0 THEN 0 ELSE IF v <= MaxUint16 THEN 2 ELSE 4

NewRequestPacket(opcode, seq, body, ack, crc) ==
  LET width == IF ack /\ FieldLen(seq) = 0 THEN 2 ELSE FieldLen(seq)
  IN  [flags |-> Flags(FALSE, ack, body # <<>>, FieldLen(opcode), width, IF crc THEN 2 ELSE 0),
       opcode |-> opcode, seq |-> seq, body |-> body]

NewNotificationPacket(opcode, body, crc) ==
  NewRequestPacket(opcode, 0, body, FALSE, crc)

\* The response takes the width of its sequence number, and whether there is
\* a CRC, from the request.
NewResponsePacket(opcode, seq, body, requestFlags) ==
  [flags |-> Flags(TRUE, FALSE, body # <<>>, FieldLen(opcode),
                   SeqLen(requestFlags), CRCLen(requestFlags)),
   opcode |-> opcode, seq |-> seq, body |-> body]

\* Big-endian, in n bytes, of which there may be none.
PutUintN(v, n) ==
  IF n = 2 THEN <<(v \div 256) % 256, v % 256>>
  ELSE IF n = 4
  THEN <<(v \div 16777216) % 256, (v \div 65536) % 256, (v \div 256) % 256, v % 256>>
  ELSE <<>>

ReadUintN(s) ==
  IF Len(s) = 2 THEN 256 * s[1] + s[2]
  ELSE IF Len(s) = 4 THEN 16777216 * s[1] + 65536 * s[2] + 256 * s[3] + s[4]
  ELSE 0

\* What pads n bytes to a multiple of four.
PadLen(n) == (4 - (n % 4)) % 4

ComputeCRC(data, crcLen) == PutUintN(CRC16(data), crcLen)

-----------------------------------------------------------------------------
(* Encode, for packets whose flags are valid: the CRC covers what is        *)
(* between the magic byte and itself.                                       *)
Covered(p) ==
  <<p.flags>>
    \o (IF HasBodyLen(p.flags) THEN PutUintN(FieldsLen(p.flags) + Len(p.body), 2) ELSE <<>>)
    \o PutUintN(p.opcode, OpcodeLen(p.flags))
    \o PutUintN(p.seq, SeqLen(p.flags))
    \o p.body

Encode(p) ==
  LET frame == <<MagicByte>> \o Covered(p) \o ComputeCRC(Covered(p), CRCLen(p.flags))
  IN  frame \o [i \in 1..PadLen(Len(frame)) |-> 0]

\* What n bytes can hold.
Fits(v, n) ==
  IF n = 2 THEN v <= MaxUint16 ELSE IF n = 4 THEN v \div 65536 <= MaxUint16 ELSE v = 0

\* The packets that Encode takes and whose fields fit the widths in the flags.
\* Encode checks the flags only; what does not fit is cut off.
Encodable(p) ==
  /\ p \in [flags : Byte, opcode : Nat, seq : Nat, body : Seq(Byte)]
  /\ Validate(p.flags, p.body # <<>>)
  /\ Fits(p.opcode, OpcodeLen(p.flags)) /\ Fits(p.seq, SeqLen(p.flags))
  /\ FieldsLen(p.flags) + Len(p.body) <= MaxUint16
=============================================================================
