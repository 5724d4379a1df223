-------------------------------- MODULE Crc --------------------------------
(***************************************************************************)
(* CRC-16-IBM (conn/crc.go): the table and the checksum.                   *)
(***************************************************************************)
EXTENDS Integers, Sequences, SequencesExt, Bitwise

CRCShift(c) == IF c % 2 = 1 THEN (c \div 2) ^^ 40961 ELSE c \div 2

crc16IBMTable ==
  [i \in 0..255 |-> FoldLeft(LAMBDA c, j : CRCShift(c), i, [j \in 1..8 |-> j])]

CRC16IBM(data) ==
  FoldLeft(LAMBDA c, b : (c \div 256) ^^ crc16IBMTable[(c % 256) ^^ b], 0, data)
=============================================================================
