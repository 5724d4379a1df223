------------------------------- MODULE WsConn -------------------------------
(***************************************************************************)
(* One end of a WebSocket connection (conn/ws.go): the upgrade in Accept   *)
(* or in Dial, Read called by a decoder, Write called by Conn.WritePacket, *)
(* and Close; with a peer that may be anybody who speaks WebSocket.        *)
(*                                                                         *)
(* The stream to this end is a sequence of cells: the HTTP head of the     *)
(* upgrade, frame heads, and bytes.  The bytes of data are numbered as     *)
(* they are sent; those of control frames have negative numbers.  What     *)
(* this end writes is a sequence of frames, the last of which may be cut   *)
(* short by the write deadline.  Masks are left out: what maskBytes        *)
(* undoes, the peer has done.                                              *)
(***************************************************************************)
EXTENDS Integers, Sequences, SequencesExt

CONSTANTS Piece,       \* what Read reads of a long message at a time; 4096
          Spaces,      \* the lengths of the buffers a caller offers to Read
          Lengths,     \* the lengths of data frames
          Fragments,   \* the peer splits messages into fragments
          ServerFirst, \* a server may send before it was sent anything
          MaxFrames,   \* bound: the frames the peer sends
          MaxWrites    \* bound: the frames this end writes of its own accord

\* ensureBytes offers at least ReadBufferSize, which is a piece, and at most what
\* a body may have that the length field counts.
ASSUME SpacesAssumption ==
  /\ Piece \in Nat \ {0}
  /\ \A s \in Spaces : s \in Nat /\ s >= Piece
  /\ \E s \in Spaces : \A t \in Spaces : t <= s
ASSUME LengthsAssumption == Lengths \subseteq Nat
ASSUME BoundsAssumption == MaxFrames \in Nat /\ MaxWrites \in Nat
ASSUME PeerAssumption == Fragments \in BOOLEAN /\ ServerFirst \in BOOLEAN

VARIABLES
  role,      \* "accept" or "dial"
  stage,     \* where the upgrade is
  in,        \* what is on its way to this end
  peer,      \* what the peer is doing
  frames,    \* how many frames it has sent
  sent,      \* how many bytes of data
  pings,     \* how many pings
  reader,    \* where Read is
  ping,      \* the payload of the ping it has read
  got,       \* the data it has handed out
  writer,    \* where WritePacket is
  deadline,  \* the write deadline of the TCP connection
  writes,    \* how often WritePacket was called
  closed,    \* wsConn.closed
  closer,    \* where Close is
  out        \* the frames written

peerVars == <<frames, sent, pings>>
readVars == <<reader, ping, got>>
writeVars == <<writer, deadline, writes, out>>
closeVars == <<closed, closer>>
vars == <<role, stage, in, peer, peerVars, readVars, writeVars, closeVars>>

\* Opcodes: data (a binary or a text frame, which Read treats alike), the
\* control frames with "pong" for all that is not known, and the continuation
\* of a fragmented message, which is not known either.
Opcodes == {"data", "ping", "pong", "close", "continuation"}

HttpHead == [cell |-> "http", op |-> "", n |-> 0]
FrameHead(op, n) == [cell |-> "head", op |-> op, n |-> n]
Byte(v) == [cell |-> "byte", op |-> "", n |-> v]
Values(cells) == [i \in DOMAIN cells |-> cells[i].n]

TypeOK ==
  /\ role \in {"accept", "dial"}
  /\ stage \in {"request", "reply", "open", "refused"}
  /\ peer \in {"silent", "up", "closing", "gone"}
  /\ frames \in 0..MaxFrames /\ sent \in Nat /\ pings \in Nat
  /\ reader \in {"reading", "ponging", "ended", "panicked"}
  /\ ping \in Seq(Int) /\ got \in Seq(Int)
  /\ writer \in {"idle", "writing"}
  /\ deadline \in {"none", "set", "passed"}
  /\ writes \in 0..MaxWrites
  /\ closed \in BOOLEAN
  /\ closer \in {"idle", "flagged", "framed", "closed"}

Init ==
  /\ role \in {"accept", "dial"}
  /\ stage = "request"
  /\ in = <<>>
  /\ peer = "silent"
  /\ frames = 0 /\ sent = 0 /\ pings = 0
  /\ reader = "reading" /\ ping = <<>> /\ got = <<>>
  /\ writer = "idle" /\ deadline = "none" /\ writes = 0
  /\ closed = FALSE /\ closer = "idle"
  /\ out = <<>>

-----------------------------------------------------------------------------
(* The upgrade *)

\* A buffered reader reads the HTTP head, and with it as much as it can get of
\* what follows; it is dropped with what it holds.
BufferedHead ==
  /\ in # <<>> /\ Head(in).cell = "http"
  /\ \E k \in 1..Len(in) : in' = SubSeq(in, k + 1, Len(in))

\* Accept reads the request, or Dial writes it.
Request ==
  /\ stage = "request"
  /\ IF role = "accept" THEN BufferedHead ELSE UNCHANGED in
  /\ stage' = "reply"
  /\ UNCHANGED <<role, peer, peerVars, readVars, writeVars, closeVars>>

\* Accept writes the response, or Dial reads it.
Reply ==
  /\ stage = "reply"
  /\ IF role = "dial" THEN BufferedHead ELSE UNCHANGED in
  /\ stage' = "open"
  /\ UNCHANGED <<role, peer, peerVars, readVars, writeVars, closeVars>>

\* The request has no key, the response is not 101 or has another key, a read
\* or a write fails: the TCP connection is closed.
Refuse ==
  /\ stage \in {"request", "reply"}
  /\ stage' = "refused"
  /\ UNCHANGED <<role, in, peer, peerVars, readVars, writeVars, closeVars>>

-----------------------------------------------------------------------------
(* Read *)

\* What can be made of the next cell.  A byte in the place of a head makes a
\* head of some kind.
IsHead(op, n) ==
  /\ in # <<>>
  /\ Head(in).cell = "head" => op = Head(in).op /\ n = Head(in).n

Reading == stage = "open" /\ reader = "reading" /\ closer # "closed"
Arrived(n) == Len(in) > n
Payload(n) == Values(SubSeq(in, 2, n + 1))
Beyond(n) == SubSeq(in, n + 2, Len(in))

\* A plausible slip: the payload of a ping is left in the stream.
ReadPingHeadOnly(n) ==
  /\ Reading /\ IsHead("ping", n) /\ Arrived(n)
  /\ ping' = Payload(n)
  /\ in' = Tail(in)
  /\ reader' = "ponging"
  /\ UNCHANGED <<role, stage, peer, peerVars, got, writeVars, closeVars>>

ReadPing(n) ==
  /\ Reading /\ IsHead("ping", n) /\ Arrived(n)
  /\ ping' = Payload(n)
  /\ in' = Beyond(n)
  /\ reader' = "ponging"
  /\ UNCHANGED <<role, stage, peer, peerVars, got, writeVars, closeVars>>

\* A plausible slip: an opcode that is not known has no payload.
SkipHeadOnly(op, n) ==
  /\ op \in {"pong", "continuation"}
  /\ Reading /\ IsHead(op, n) /\ Arrived(n)
  /\ in' = Tail(in)
  /\ UNCHANGED <<role, stage, peer, peerVars, readVars, writeVars, closeVars>>

\* A pong is ignored, and so is what the switch does not know, the
\* continuation of a message among it.
Skip(op, n) ==
  /\ op \in {"pong", "continuation"}
  /\ Reading /\ IsHead(op, n) /\ Arrived(n)
  /\ in' = Beyond(n)
  /\ UNCHANGED <<role, stage, peer, peerVars, readVars, writeVars, closeVars>>

\* A message that fits into the buffer is handed out whole.  One that does not
\* is read all the same, and either Read runs over the buffer or its caller
\* does, which goes by the length that Read returns.
ReadData(n) ==
  /\ Reading /\ IsHead("data", n) /\ Arrived(n)
  /\ in' = Beyond(n)
  /\ \E space \in Spaces :
       IF n <= space
       THEN got' = got \o Payload(n) /\ UNCHANGED reader
       ELSE reader' = "panicked" /\ UNCHANGED got
  /\ UNCHANGED <<role, stage, peer, peerVars, ping, writeVars, closeVars>>

ReadClose(n) ==
  /\ Reading /\ IsHead("close", n)
  /\ in' = Tail(in)
  /\ reader' = "ended"
  /\ UNCHANGED <<role, stage, peer, peerVars, ping, got, writeVars, closeVars>>

\* The stream ends inside a frame.  Of a message that is too long, the pieces
\* that have arrived are handed out along with the error.
ReadCut(op, n) ==
  /\ Reading /\ peer = "gone"
  /\ op # "close" /\ IsHead(op, n) /\ ~Arrived(n)
  /\ \E space \in Spaces :
       LET brought == IF op = "data" /\ n > space THEN ((Len(in) - 1) \div Piece) * Piece ELSE 0
       IN  IF brought <= space
           THEN reader' = "ended" /\ got' = got \o Payload(brought)
           ELSE reader' = "panicked" /\ UNCHANGED got
  /\ in' = <<>>
  /\ UNCHANGED <<role, stage, peer, peerVars, ping, writeVars, closeVars>>

\* The stream has ended, or this end has closed the connection.
ReadEnd ==
  /\ stage = "open" /\ reader = "reading"
  /\ closer = "closed" \/ (peer = "gone" /\ in = <<>>)
  /\ reader' = "ended"
  /\ UNCHANGED <<role, stage, in, peer, peerVars, ping, got, writeVars, closeVars>>

-----------------------------------------------------------------------------
(* Write *)

\* A frame is written in one piece under the mutex.  The write fails once its
\* deadline has passed, whoever has set it; it may pass on the way, with the
\* frame cut short.
WriteFrame(op, data) ==
  LET frame(whole) == [op |-> op, data |-> data, whole |-> whole]
  IN  \/ /\ closer # "closed" /\ deadline # "passed"
         /\ out' = Append(out, frame(TRUE))
         /\ UNCHANGED deadline
      \/ /\ closer # "closed" /\ deadline = "set"
         /\ deadline' = "passed"
         /\ \/ out' = Append(out, frame(FALSE))
            \/ UNCHANGED out
      \/ /\ closer = "closed" \/ deadline = "passed" \/ peer = "gone"
         /\ UNCHANGED <<out, deadline>>

\* A plausible slip: Read gives up when the pong cannot be written.
PongOrEnd ==
  /\ reader = "ponging"
  /\ WriteFrame("pong", ping)
  /\ reader' = IF out' = out THEN "ended" ELSE "reading"
  /\ UNCHANGED <<role, stage, in, peer, peerVars, ping, got, writer, writes, closeVars>>

\* Read answers the ping, and does not look whether that went well.
Pong ==
  /\ reader = "ponging"
  /\ WriteFrame("pong", ping)
  /\ reader' = "reading"
  /\ UNCHANGED <<role, stage, in, peer, peerVars, ping, got, writer, writes, closeVars>>

\* Conn.WritePacket sees the Conn open and sets the deadline ...
WriteBegin ==
  /\ stage = "open" /\ writer = "idle" /\ ~closed
  /\ writes < MaxWrites
  /\ writes' = writes + 1
  /\ deadline' = "set"
  /\ writer' = "writing"
  /\ UNCHANGED <<role, stage, in, peer, peerVars, readVars, out, closeVars>>

\* ... and writes, whatever was closed in the meantime.
WriteEnd ==
  /\ writer = "writing"
  /\ WriteFrame("data", <<writes>>)
  /\ writer' = "idle"
  /\ UNCHANGED <<role, stage, in, peer, peerVars, readVars, writes, closeVars>>

\* The deadline stays on the connection when the write is over.
DeadlinePasses ==
  /\ deadline = "set" /\ writer = "idle"
  /\ deadline' = "passed"
  /\ UNCHANGED <<role, stage, in, peer, peerVars, readVars, writer, writes, out, closeVars>>

CloseFlag ==
  /\ stage = "open" /\ closer = "idle"
  /\ closed' = TRUE
  /\ closer' = "flagged"
  /\ UNCHANGED <<role, stage, in, peer, peerVars, readVars, writeVars>>

CloseFrame ==
  /\ closer = "flagged"
  /\ WriteFrame("close", <<>>)
  /\ closer' = "framed"
  /\ UNCHANGED <<role, stage, in, peer, peerVars, readVars, writer, writes, closed>>

CloseRaw ==
  /\ closer = "framed"
  /\ closer' = "closed"
  /\ UNCHANGED <<role, stage, in, peer, peerVars, readVars, writeVars, closed>>

-----------------------------------------------------------------------------
(* The peer *)

\* A client sends its request, or a server its response.
PeerOpens ==
  /\ peer = "silent"
  /\ role = "dial" => stage = "reply"
  /\ in' = <<HttpHead>>
  /\ peer' = "up"
  /\ UNCHANGED <<role, stage, peerVars, readVars, writeVars, closeVars>>

\* A client waits for the response before it sends a frame.  A server need not
\* wait for anything, but one that only answers does.
MaySend ==
  /\ peer = "up" /\ frames < MaxFrames
  /\ IF role = "accept" THEN stage = "open" ELSE ServerFirst \/ out # <<>>

\* n bytes of data from number k on.
Bytes(k, n) == [i \in 1..n |-> Byte(k + i)]

\* A message of n bytes, and its continuation if it is sent in two fragments.
PeerSendsData(n, more) ==
  /\ MaySend
  /\ in' = in \o <<FrameHead("data", n)>> \o Bytes(sent, n)
              \o IF more > 0 THEN <<FrameHead("continuation", more)>> \o Bytes(sent + n, more)
                             ELSE <<>>
  /\ sent' = sent + n + more
  /\ frames' = frames + 1
  /\ UNCHANGED <<role, stage, peer, pings, readVars, writeVars, closeVars>>

PeerSendsControl(op) ==
  /\ MaySend
  /\ op \in {"ping", "pong", "close"}
  /\ pings' = IF op = "ping" THEN pings + 1 ELSE pings
  /\ in' = in \o IF op = "close" THEN <<FrameHead(op, 0)>>
                 ELSE <<FrameHead(op, 1), Byte(IF op = "ping" THEN 0 - pings' ELSE 0)>>
  /\ peer' = IF op = "close" THEN "closing" ELSE peer
  /\ frames' = frames + 1
  /\ UNCHANGED <<role, stage, sent, readVars, writeVars, closeVars>>

\* The peer ends the connection or it breaks: what is on its way may be lost.
PeerGoes ==
  /\ peer \in {"up", "closing"}
  /\ peer' = "gone"
  /\ \E k \in 0..Len(in) : in' = SubSeq(in, 1, k)
  /\ UNCHANGED <<role, stage, peerVars, readVars, writeVars, closeVars>>

-----------------------------------------------------------------------------
\* What a head may say of the length of its frame.
Sizes == Lengths \cup {0, 1}

ReadStep ==
  \/ \E op \in Opcodes, n \in Sizes :
       ReadPing(n) \/ Skip(op, n) \/ ReadData(n) \/ ReadClose(n) \/ ReadCut(op, n)
  \/ ReadEnd \/ Pong
WriteStep == WriteEnd \/ CloseFrame \/ CloseRaw
PeerStep ==
  \/ PeerOpens \/ PeerGoes
  \/ \E op \in Opcodes : PeerSendsControl(op)
  \/ \E n \in Lengths, more \in IF Fragments THEN {0, 1} ELSE {0} : PeerSendsData(n, more)

\* A panic ends the process.
Next ==
  /\ reader # "panicked"
  /\ \/ Request \/ Reply \/ Refuse
     \/ ReadStep \/ WriteStep
     \/ WriteBegin \/ DeadlinePasses \/ CloseFlag
     \/ PeerStep

Spec == Init /\ [][Next]_vars

\* Read is called again and again, and returns when there is something to read
\* or an error.  The peer owes nothing, and nobody must write or close.
FairSpec == Spec /\ WF_vars(reader # "panicked" /\ ReadStep)

-----------------------------------------------------------------------------
(* Correctness, for a peer whose messages fit and are not fragmented and, as *)
(* a server, do not come before it was sent something (see the end)          *)

Stream == INSTANCE ByteStream WITH
  Room <- CHOOSE s \in Spaces : \A t \in Spaces : t <= s,
  ended <- reader = "ended"

\* To the decoder the connection is a stream of bytes: however the data is
\* divided into messages, and whatever pings, pongs and unknown frames are in
\* between, it reads what was sent, in order, once, up to the end.
ImplementsByteStream == Stream!Spec

\* The pongs written answer pings that were read, in their order and each at
\* most once, while others write to the same connection and close it.
PongsEchoPings ==
  LET Pongs == {i \in DOMAIN out : out[i].op = "pong"}
  IN  /\ \A i \in Pongs : \E k \in 1..pings : out[i].data = <<0 - k>>
      /\ \A i, j \in Pongs : i < j => out[i].data[1] > out[j].data[1]

\* What the peer sends is read in the end, also after a pong that could not be
\* written, unless this end closes or the peer goes.
AllBytesArrive ==
  \A b \in 1..(MaxFrames * Max(Lengths)) :
    sent >= b ~> Len(got) >= b \/ closed \/ peer = "gone"

-----------------------------------------------------------------------------
(* What the repository says of this code and the code does not do: TLC      *)
(* refutes each of these; README.md says in which configuration.            *)

\* ws.go, Read: a message that is longer than the buffer is read in pieces.
\* What Read returns is then longer than the buffer, and the process panics.
LongMessagesRead == reader # "panicked"

\* ws.go, Read: a ping is read and a pong is sent.  The deadline of the last
\* WritePacket stays on the connection, and after five seconds it fails them.
PingsAnswered ==
  \A k \in 1..MaxFrames :
    (reader = "ponging" /\ ping = <<0 - k>>)
      ~> \/ \E i \in DOMAIN out : out[i].op = "pong" /\ out[i].data = <<0 - k>>
         \/ closed \/ peer = "gone"
=============================================================================
