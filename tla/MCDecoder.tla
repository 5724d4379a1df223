----------------------------- MODULE MCDecoder -----------------------------
(* Streams of a few frames, damaged frames and noise for Decoder. *)
EXTENDS Decoder, Crc

\* protoq_test.go, TestCRC16IBM: the CRC of "123456789".
ASSUME TestVector == CRC16IBM([i \in 1..9 |-> 48 + i]) = 47933

Request == NewRequestPacket(1, 1, <<MagicByte, 2>>, TRUE, TRUE)
Response == NewResponsePacket(1, 1, <<>>, Request.flags)
Notice == NewNotificationPacket(65537, <<7>>, FALSE)
Empty == NewNotificationPacket(0, <<>>, FALSE)

Sent(p) == [tag |-> "packet", packet |-> p, bytes |-> Encode(p)]

\* The second byte of the body is another one.
Damaged == [Encode(Request) EXCEPT ![10] = 3]

\* A response that wants to be answered, as no encoder makes it.
Invalid == Encode([flags |-> Flags(TRUE, TRUE, TRUE, 2, 2, 0), opcode |-> 1, seq |-> 1, body |-> <<5>>])

\* A length field that is too short for the opcode.
Short == <<MagicByte, Flags(FALSE, FALSE, TRUE, 2, 0, 0), 0, 1>>

MCPieces ==
  {Sent(Request), Sent(Response), Sent(Notice), Sent(Empty),
   [tag |-> "rejected", bytes |-> Damaged], [tag |-> "rejected", bytes |-> Invalid],
   [tag |-> "rejected", bytes |-> Short],
   [tag |-> "noise", bytes |-> <<0>>], [tag |-> "stray", bytes |-> <<MagicByte>>]}

\* In none of the streams does a checksum match by chance.
ASSUME Streams == \A pieces \in BoundedSeq(Pieces, MaxPieces) : ChecksumsTell(pieces)
=============================================================================
