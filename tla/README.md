# A TLA+ verification of ProtoQ

ProtoQ is a Go library for a binary request/response protocol over TCP and
WebSocket: a frame format with a streaming decoder, a client that matches
answers to requests by sequence number and retransmits, a low-level server
(`server.Server`) and a higher-level one (`server.MessageServer`) that runs a
bridge with a read loop and a write loop for each connection. This directory
holds TLA+ models of it, the configurations that check them with TLC, and
machine-checked proofs. `PROJECT.json` is the index: which definition models
which lines, which run checks which property, and which slip in the code each
property catches.

Contents: [parts](#1-the-parts-of-the-system) ·
[what is hard](#2-what-is-hard-here) · [modules](#3-the-modules) ·
[runs](#4-the-runs) · [proofs](#5-the-proofs) ·
[code and documents](#6-where-code-and-documents-part) ·
[limits](#7-what-is-not-modelled) · [plan](#8-plan)

## 1. The parts of the system

| Part (source) | State it keeps | Operations | Talks to | What makes it correct |
|---|---|---|---|---|
| Sequence manager (`conn/seq.go`) | the next number, the table of pending requests, per request a `done` channel, a response and an error channel | `Allocate`, `Enqueue`, `Resolve`, `Remove`, `Close`, `WaitForResponse`; a `retryLoop` goroutine for each request | called by the client, calls it back to retransmit | the table holds live requests only; a request is settled once; nobody waits for ever |
| Client (`client/client.go`) | the connection, the sequence manager, `closeMu`, `readDone` | `SendRequest`, `SendNotification`, `retransmit`, `readLoop`, `Close` | sequence manager, `Conn` | a call returns the answer to its own request or an error, once; `Close` returns |
| Connection (`conn/connection.go`) | closed flag, codec, properties, send counter, message queue | `WritePacket`, `Send`, `Close`, `SetCodec`, `SetProperty` | used by client, servers and bridge | nothing is written once closed; whoever waits on `Send` comes back |
| Message queue (`message_queue.go`) | a channel for each number, a count | `Put`, `Complete`, `CompleteError`, `Clear` | `Conn.Send`, the dispatcher | no channel is closed twice or sent on once closed; each waiter can be reached |
| Server (`server/server.go`) | active connections, context, listener | `ListenAndServe`, `serve`, `handleRequest`, `cleanup`, `Shutdown` | `Conn`, hooks and handlers of the application | hooks, table and connections agree; no request is passed over; connections leave |
| Message server (`server/message_server.go`, `basic/register/bean.go`) | a table of connections by id, a table of bridges | `Serve`, `ServeConn` | bridge, registers | a connection is found while it is served, or lost to one with its id, and not after |
| Connection bridge (`conn/bridge.go`) | `writeCh`, `stopCh`, `done` | `Serve`, `readLoop`, `handleFrame`, `writeLoop`, `WritePacket`, `Close` | dispatcher, `Conn`, codec | answers leave in order and once; both loops end with the connection |
| Dispatcher and filters (`basic/register`, `basic/filter`) | handler and filter tables, filled before serving | `Dispatch`, `DoFilter` | handlers | called for each frame, in order |
| Frame format and decoder (`flags.go`, `packet.go`, `conn/encoder.go`, `conn/decoder.go`, `conn/crc.go`) | the decoder's buffer and its place in it | `Encode`, `Decode` | `net.Conn` | frames come out as they went in, however the stream is cut up |
| Heartbeat loop (`basic/message/client.go`) | the misses in succession | `StartHeartbeat`, its goroutine and `stop` | client | a silent server is noticed; `stop` stops |
| Negotiation (`basic/message`) | connection properties, a session counter | `Negotiate`, its handler | client, bridge, the server's registers | one session for one client, and both sides agree on it |
| WebSocket transport (`conn/ws.go`) | the bare connection, its write deadline, a closed flag | `Accept`, `Dial`, `Read`, `Write`, `Close` | listener, decoder, `Conn.WritePacket` | the bytes of the stream, in order, all of them |

How they interact. `Client.SendRequest` runs on the caller's goroutine and goes
through `Allocate`, `Enqueue`, `WritePacket`, `WaitForResponse` and `Remove`,
each of which takes the sequence manager's lock for itself; `Enqueue` starts a
`retryLoop` goroutine, the client's `readLoop` goroutine calls `Resolve`, and
`Close` empties the table. On the other side `server.Server` runs an accept
loop, a `serve` goroutine for each connection and a goroutine for each request.
`MessageServer` hands each connection to a `ConnectionBridge`, whose read loop
calls the dispatcher on its own goroutine and passes answers to the write loop
through the channel `writeCh`, while errors are written to the `Conn` directly.

## 2. What is hard here

* Settling a request: the answer, the last timer, the caller's deadline, a
  failed write and `Close` race for it, in five goroutines.
* Between two locked sections everything can change: `Close` between `Allocate`
  and `Enqueue`, an answer between a timer's expiry and its retransmission.
* The network repeats, loses, delays and reorders what it is given, since the
  client retransmits and the server answers each copy.
* Numbers are 16 bits (or 32) and wrap; 0 is not one.
* Shutdown of either side while the others are in the middle of something:
  connections being accepted, channels being closed, frames being handled.
* `writeCh` holds 64 answers, and drops the next.
* A decoder that keeps its place over reads that end anywhere.
* A transport that is read by one goroutine, which also writes pongs, while
  others write data and close it.
* A handler that waits for something only the goroutine it runs on can bring.
* A request that is sent again, handled twice and answered twice, where the
  handling is not idempotent: a negotiation gives out a session each time. The copy
  may even come behind the request of the next call, since `retryLoop` releases
  the lock before it resends and does not look again.
* Undefined behaviour and panics: closing a closed channel, sending on one.

The whole list, each with its line and with the property that covers it, is
under `hazards` in `PROJECT.json`.

## 3. The modules

| Module | Models | State ↔ code |
|---|---|---|
| `SeqAlloc` | the arithmetic of `Allocate` | none: `Advance`, `Allocation` are functions |
| `SeqManager` | `conn/seq.go` | `next`, `pending`, `closed` are the fields; `seq`, `retries`, `closes`, `respC`, `errC` those of `PendingRequest`; `loop` is the `retryLoop`'s program counter |
| `Client` | `client/client.go` over `SeqManager`; the network | `call` is the place in `SendRequest`, `reader` that in `readLoop`, `closer` that in `Close`; `link`, `inflight` are the network |
| `RequestReply` | the promise of `SendRequest` | `phase`, `result`, `shut`: no numbers, no retransmission |
| `Server` | `server/server.go`, the upgrade of `conn/ws.go` | `accept`, `serve`, `shutdown` are program counters; `conns`, `closed` the code's |
| `Bridge` | `conn/bridge.go`, dispatch and filters | `queue` is `writeCh`; `reader`, `writer` program counters; `wire` what was written |
| `Replies` | what `ConnectionBridge.Serve` promises the peer | `stage` is what becomes of the frame taken up last, `owed` the results that have not left, `written` the answers that have: no loops, no channel, no codec |
| `MessageServer` | `ServeConn` and the registers | `registry`, `bridges` are the tables; `id` the connections' ids |
| `Negotiation` | `Negotiate` and its handler, over `MessageServer` | `call`, `turn`, `copies` the client's call; `due` the `retryLoop`s between their timer's expiry and the copy they send; `up`, `hands`, `queue`, `down` the way of a request and its answer; `server`, `client` the `session_id` of either side; `given` the handler's `sessionSeq` |
| `MessageQueue` | `message_queue.go`, `Conn.Send`, `Conn.Close` | `pending` the table; `ch` what is in each channel; `send` the place in `Send` |
| `Duplex` | `MessageQueue` under the read loop of a bridge, with the handlers that call `Send`, and the peer | `loop` the read loop's program counter, `holder` the call its handler makes, `inbox` what has arrived, `asked` what was written |
| `Packet` | flags, packets, `Encode`; the checksum is its constant `CRC16(_)` | none: operators |
| `Crc` | `conn/crc.go`: the table and the checksum of the code, which is bitwise | none: operators |
| `Frames` | what a stream means: the frames in it, found by looking at all of it at once | none: operators |
| `Decoder` | `conn/decoder.go` | `buf`, `bufPos`, `state`, `frameStart`, `flags`, `bodyLen`, `consumed` are the fields; `rest` is what has not arrived |
| `MCDecoder` | – | the streams that TLC feeds to `Decoder`, with the checksum of `Crc` |
| `ByteStream` | what `Decoder` expects of the connection it reads | `sent`, `got`, `ended`: no frames, no control |
| `WsConn` | `conn/ws.go` under `Conn.WritePacket` and `Conn.Close`; the peer | `stage` is the place in `Accept` or `Dial`, `reader`, `writer`, `closer` those in `Read`, `WritePacket` and `Close`; `in`, `out` the two directions of the TCP connection; `deadline` its write deadline |
| `Heartbeat` | `StartHeartbeat` | `missed`, `stopped`, `done`; `loop` and `stopper` program counters |
| `ClientProofs` | – | theorems about `Client`, `SeqManager` and `SeqAlloc` |
| `NegotiationProofs` | – | theorems about `MessageServer` and `Negotiation` |
| `MessageQueueProofs` | – | theorems about `MessageQueue` and `Duplex` |
| `DecoderProofs` | – | theorems about `Packet`, `Frames` and `Decoder` |
| `BridgeProofs`, `ServerProofs`, `HeartbeatProofs`, `WsConnProofs` | – | theorems about the module they are named for |

How they are put together. `Client` extends `SeqManager`, which extends `SeqAlloc`,
and implements `RequestReply` under a refinement mapping; `Bridge` implements `Replies` in the same way. `Negotiation` extends
`MessageServer` and `Duplex` extends `MessageQueue`: the theorems of the smaller
module carry over, because each step of the larger one is a step of the smaller
one or leaves it alone, which is proved. `Decoder` extends `Frames`, which extends
`Packet`; `WsConn` implements `ByteStream`, the assumption `Decoder` is built on, so that decoder
and transport meet at that specification rather than in one state space. `Server`,
`Bridge` and `Heartbeat` stand alone and see their neighbours from outside.

Granularity. An action is what one goroutine does between two points where
another can run and matter: a locked section, a channel operation, an I/O call.
So `SendRequest` is a chain of actions (`Begin`, `Queue`, `Write`,
`ReturnAnswer`, ...) and `retryLoop`'s "look it up under the lock, then delete,
then close `done`" is two. A channel of capacity 1 is the value in it, and
`done`, which is only ever closed, is the number of times it was. A panic ends
the process: it is a state without successors other than stuttering, and the
liveness properties allow for it. The definitions whose comment calls them a
plausible slip are not part of any specification: each is a version of its
neighbour with a bug in it, and is there to show that a property notices.

## 4. The runs

Run one with `tlc -config <run>.cfg <module>`. A run that expects a violation
shows a disagreement with a document (section 6). Every module has a `TypeOK`
that gives the range of its variables. No run is spent on it: it is part of the
inductive invariants, and proved with them, for every module.

| Run | Module | Shows | States |
|---|---|---|---|
| `client_safety` | `Client` | `PendingIsLive`; `SettledOnce`; `OwnAnswer`; `NotStranded`; `IInv`, the inductive invariant of the proofs; `SettledNotRetried`; and that `Client` implements `RequestReply` | 1.3 M |
| `client_live` | `Client` | a call returns, its `retryLoop` ends after up to three retransmissions, `Close` returns | 12 k |
| `client_double_close` | `Client` | violation: `done` is closed twice | – |
| `server` | `Server` | hooks and table agree; connections leave closed; `ListenAndServe` leaves nothing behind; each request comes to the write of an answer; closed connections leave | 0.9 M |
| `server_shutdown` | `Server` | violation: a connection outlives `Shutdown` | – |
| `bridge` | `Bridge` | answers in turn, once, and none lost; no handler after the close; both loops end; whoever asks is answered; and that `Bridge` implements `Replies` | 0.8 M |
| `negotiation` | `Negotiation` | who is served is found in the registry, or has lost the entry to one that shares the id; sessions differ between clients; the server knows a session no later than the client; both agree when the server accepted one copy since the call began | 4.4 M |
| `queue` | `Duplex` | no panic, no unreachable waiter, none on a closed connection; waiters come back: all of them when the connection is closed, and when the response has come or the peer has gone all that no handler keeps | 0.1 M |
| `websocket` | `WsConn` | `Read` is a byte stream; pongs answer pings, in order, once; all that was sent is read | 0.17 M |
| `websocket_long` | `WsConn` | violation: a message longer than the buffer | – |
| `decoder` | `MCDecoder` | the decoder agrees with a definition that sees the whole stream; a damaged frame costs no other; nothing is invented; and, as the assumption `Streams`, that no checksum in these streams matches by chance | 76 k |
| `heartbeat` | `Heartbeat` | losses are real; nothing after `stop`; `stop` returns; silence is noticed | 3 k |

### Bounds, and why they are enough

* `Client`, safety: two calls, one with a deadline, `MaxRetries` 1 (the code has 3) and
  `MaxSeq` 3 (the code has 2^16 - 1 or 2^32 - 1). Every race is about one
  request and at most one other that has its number, its answer or its table
  slot. One retransmission is enough for a repeated answer and for the race of
  a timer with an answer. With three numbers for two calls nothing wraps; the
  proofs cover wrapping and every other value of these constants.
* `Client`, liveness: one call, with a deadline that may or may not expire, and the
  code's `MaxRetries`, so that its `retryLoop` goes round four times, sends up to three
  copies, each of them answered, lost or failing, and gives up or is ended before
  that. Calls have nothing in common but the table and the `readLoop`, and what they
  may do to each other there is in the safety run; two calls that retransmit are
  more states than the search for a cycle can do.
* `Server`: two connections and one frame of any kind, over WebSocket, whose
  accept loop has all the actions of TCP's and two more. Two connections are one
  that is served and one that is being accepted while `Shutdown` runs.
* `Bridge`: two frames of eight kinds, one frame written by the application,
  `writeCh` of capacity 2 (64 in the code): so it can be empty, partly full, full
  and overfull, with one more in the hands of the write loop. `MaxFrames` and
  `MaxPushes` are bounds on the environment only.
* `Negotiation`: two clients that negotiate, on connections that share the id 0,
  and a third connection with an id of its own; three requests and expired timers
  in all. So a request may be sent twice and be followed by another call, and its
  copy may be written behind that call's request, against any interleaving with
  the other client. The three connections come and go in any order, two of them
  replacing and removing each other in the registry.
* `Duplex`: three calls of `Send`, one of them a handler's, as many numbers (so
  `Put`'s slot is never in use) and two frames on their way from the peer.
* `WsConn`: three frames of the peer, data of length 0 or 2 (and 3 in
  `websocket_long`), a piece of 2 for the code's 4096, buffers of 2 or 3, one frame
  written by this end beside the pongs and the close frame. Three frames make a
  control frame between two messages.
* `Decoder`: streams of up to three of nine pieces: a request with a CRC and the
  magic byte in its body, a response, a 4-byte opcode without CRC, an empty
  frame, a damaged one, one with flags that are not allowed, one with a bad
  length, a byte of noise, and a magic byte out of place. Frames are 4 to 16
  bytes; reads bring 1 to 5, so that every field is cut everywhere and one read
  reaches into the next frame or over a small one. In the code a read brings up
  to 4096 bytes or more.
* `Heartbeat`: `MaxMissed` 3, the default; the loop itself is unbounded.

### Fairness

Fairness is what the Go scheduler and finite I/O give, and never that of the
environment: a goroutine that can go on does (weak fairness of its steps).
Specifically:

* `Client`: each call, each `retryLoop` (its timer does expire), the delivery in
  `Resolve`, the end of `readLoop` and `Close` once called. The network owes
  nothing: no frame need arrive, and nobody has to call `Close`.
* `Server`: the accept loop finishes what it accepted, each `serve` goroutine and
  handler goes on. Handlers and hooks are the application's and are taken to
  return, and a write returns, with an error or without. The upgrade is not fair, since it depends on the client, and neither
  is `Shutdown`.
* `Bridge`: the read loop and the write loop. The peer may stall for ever; a
  write on a stalled connection ends by its 5 s deadline.
* `Duplex`: each `Send` that has begun, the read loop, `Clear` once `Close` has come
  to it. The peer need not answer, and nobody need call or close. A handler that
  waits for a response may wait for ever: `HandlerWaits` excepts that case.
* `WsConn`: `Read`, which the decoder calls again and again. `Negotiation` is
  checked for safety only: whether a call ends is `Client`'s business.
* `Heartbeat`: the loop and a `stop` that has been called. `SendRequest` and
  `Close` return, which is what `client_live` shows.

`CHECK_DEADLOCK FALSE` stands where a system may really stop: a bridge that
has ended, clients that do nothing more, a stream that has been read. `Client`
has a stuttering step for the state in which all is done or a panic has ended
the process, and is checked for deadlock.

## 5. The proofs

TLAPS checks them for every value of the constants that the named assumptions
allow, and they rest on nothing else: `MaxSeq` is a natural number above 1,
`MaxRetries`, `MaxMissed`, capacities and bounds are natural numbers (those that
must be are above 0), marks such as `NoReq` or `NoSession` are not what they stand
in for, subsets are subsets, and the set of connections with ids of their own is
finite. `PiecesAssumption` says of each piece of a stream what its tag means: a
packet is one that `Encode` takes and is there as `Encode` makes it, what is rejected
is whole and not acceptable, noise has no magic byte in it; `RequestsCanBeEncoded`
and `ResponsesCanBeEncoded` show that the constructors make nothing else.
`SpacesAssumption` says of the buffers `Read` is called with that none is smaller than
what it reads of a frame at a time, `Piece`, and that there is a largest. Of the checksum
nothing is assumed at all.

| Module | Theorem | Says |
|---|---|---|
| `ClientProofs` | `InvariantHolds`, `TypeCorrect` | `Spec => []IInv`, `Spec => []TypeOK` |
| | `PendingAlwaysLive`, `SettledAtMostOnce` | `Spec => []PendingIsLive`, `Spec => []SettledOnce` |
| | `AnswersMatch`, `NobodyStranded`, `NoRetryOnceSettled` | `OwnAnswer`, `NotStranded`, `SettledNotRetried` (of steps): until the numbers wrap |
| | `ClientImplementsRequestReply` | `Spec /\ []NoWrap => ImplementsRequestReply` |
| | `AllocationStaysInRange` | number and counter are in range whatever is pending, at the wrap too |
| | `NumbersTakeTurns` | in any series of allocations without conflicts, every number is returned between two that return the same |
| | `RepeatsNeedTwo`, `RepeatsAlthoughFree` | a pending number is given out only where it and the one before are pending; and then it is, although others are free |
| `MessageQueueProofs` | `QueueInvariant`, `QueueNeverPanics` | `Spec => []QInv`, `Spec => []NoPanic` |
| | `WaitersAlwaysReachable`, `CloseLeavesNoWaiter` | `Spec /\ []NumbersDiffer =>` the two properties |
| | `DuplexImplementsQueue` | `DuplexSpec => Spec`; and with it the three above for `Duplex` (`DuplexNeverPanics`, `DuplexWaitersReachable`, `DuplexCloseLeavesNoWaiter`) |
| `BridgeProofs` | `BridgeInvariant`, `BridgeTypeCorrect` | `Spec => []BridgeInv`, `Spec => []TypeOK`: `writeCh` is never overfull |
| | `AnswersStayInTurn`, `NobodyAnsweredTwice`, `AnswersDoNotVanish` | `AnswersInTurn`, `AnsweredOnce`, `NoAnswerVanishes` |
| | `HandlersStopWhenClosed` | `Spec => NoHandlerOnceClosed` |
| | `BridgeImplementsReplies` | `Spec => ImplementsReplies`: for any number of frames, any capacity of `writeCh` and any end of the connection |
| `NegotiationProofs` | `TablesInvariant`, `LostToSharers`, `TablesHoldNobodyElse` | `Spec => []TablesInv`, `[]FoundOrTakenOver`, `[]NothingLeftBehind` |
| | `ServedConnsFound` | `Spec => []FoundWhileServed`: nobody takes the entry of a connection with an id of its own |
| | `NegotiationImplementsTables` | `NegotiationSpec =>` the specification of `MessageServer` |
| | `NegotiationInvariant` | `NegotiationSpec => []NegotiationInv` |
| | `SessionsAreDistinct`, `ServerHasItFirst`, `OnceAcceptedAgree` | `SessionsDistinct`, `ServerKnowsFirst`, `AgreeUnlessRepeated` |
| `ServerProofs` | `ServerInvariant` | `Spec => []ServerInv` |
| | `HooksAgreeWithTable`, `ConnsLeaveClosed`, `NothingLeftWhenReturned` | `HooksMatchConns`, `LeavesClosed`, `ReturnLeavesNothing` |
| `DecoderProofs` | `DecoderInvariant`, `TypeCorrect` | `Spec => []DecoderInv`, `Spec => []TypeOK` |
| | `CutsNeverMatter` | `Spec => []CutsDoNotMatter`: for every stream, however reading cuts it up |
| | `EncodedIsFound` | what `Encode` makes of a packet is one frame, and what is found in it is that packet |
| | `OthersAlwaysSurvive` | `Spec => []OthersSurvive`: for any number of packets, rejected frames and bytes of noise |
| | `PacketsComeInOrder` | for the same streams, `IsPrefix(decoded, Packets)` at any moment: no packet is made up, left out or moved, with a CRC or without |
| | `NothingIsInvented` | `Spec => [](ChecksumsTell(sent) => NothingInvented)`: for any stream, stray bytes in it or not |
| | `RequestsCanBeEncoded`, `ResponsesCanBeEncoded` | the packets of the constructors meet the conditions of `EncodedIsFound` |
| `WsConnProofs` | `TypeCorrect` | `Spec => []TypeOK` |
| | `WsInvariant`, `PongsAlwaysEchoPings` | where the server does not speak first: `Spec => []WsInv`, `Spec => []PongsEchoPings` |
| | `ConnectionIsAStream` | where, besides, messages come in one frame: `Spec => ImplementsByteStream` |
| `HeartbeatProofs` | `HeartbeatInvariant`, `LossesAreReal`, `StopIsFinal` | `Spec => []HInv`, `LostOnlyByMissing`, `NothingAfterStop` (of steps) |

### The arguments

None of the properties is inductive. Each proof module begins with the invariant
that is, a conjunction of named parts (`Client`'s is in `Client`, where a run checks
it). TLC can check each of them on a small instance before it is proved: run it on
the proof module, with the configuration of the module's run and the invariant
in the place of its properties (for `DecoderInv`, on a module that extends both
`DecoderProofs` and `MCDecoder`). Each part has its step lemmas with a case for
each action.

* `Client`, `IInv`. `Numbered` and `RetriesBounded` say what a request looks like
  before each stage, in particular that nothing of it exists before `Enqueue`.
  `PendingIsLive`: what is in the table is under its own number with `done` open,
  which makes `Resolve`'s and `Close`'s `close(done)` the first. `OpenIsEmpty`: as long
  as `done` is open, both channels are empty, so that whoever closes it first finds
  them empty; with this `SettledOnce` survives the steps of five goroutines.
  `ReaderHolds`: what `Resolve` has taken from the table is no longer in it and has the
  number of the frame. `SameNumber` with `NumbersInOrder` (until they wrap, a number
  belongs to one request) gives `OwnAnswer`. `QueuedNotStranded` says that somebody will
  tell a call from the moment it is queued: `NotStranded` itself is not inductive,
  because `Write` makes a call wait without looking at the table. The refinement
  maps a call's stages to `idle`, `called` and `returned`.
* `MessageQueue`, `QInv`. `Registered` and `TakenOut`: a channel in the table, or in the
  dispatcher's hands, is empty and not in both places, so that whoever closes it or
  sends on it is the only one. The properties about waiters need `Reachable`, which
  speaks of a `Send` from the moment it is registered, and `NumbersDiffer`: two calls
  of `Send` that are under way do not have the same number, which holds for 2^32 calls.
  It is an assumption of the theorem and not of the module; `Put` under a number in
  use is modelled.
* `Bridge`, `BridgeInv`. `InHand`: the frame the read loop is at is not in the channel,
  with the write loop or on the wire, and not handled before its handler ran.
  `InChannel` and `ChannelInTurn`: what is in the channel, then with the write loop, then
  on the wire are answers of handlers, older and older. An error that is written
  past the channel is about the frame in hand, which no handler has answered:
  that is why two writers never answer the same frame. `NoHandlerOnceClosed` is of
  another kind: its own premise is inductive, frame by frame. The refinement maps
  the places of the read loop to the stages of a frame, and to `owed` both what is in
  the channel and the frame the write loop has taken out: so taking one out is not
  seen, and a full channel, a body that cannot be encrypted and a failed write are
  the same step, a result that is lost. That results leave oldest first is
  `ChannelInTurn`; that an error is never about a frame that is owed is `InHand`.
* `MessageServer`, `TablesInv`. `FoundOrTakenOver` is inductive with the types alone: the
  one to whom an entry was lost stays in its place or takes it along. `IdsGivenOnce`
  with `Counted` (the counter is the number of connections that were given an id)
  then says that nobody shares an id that was given, which is `FoundWhileServed`.
* `Negotiation`, `NegotiationInv`. `HeldAreGiven` and `HeldApart` carry the two properties
  about sessions along the whole way of an answer. Requests do not arrive in the
  order of their calls, since copies are sent late; `SentInTurn` says of what is due
  and on its way only that its call has begun, which is enough for the answers to
  it. `LastTurn`: an answer to the current call that gives a session was accepted
  since the call began, and if nothing else was, its session is the server's.
* `NumbersTakeTurns` is about the whole series of numbers and has no invariant:
  `CountsUp` and `CountsOver` give the counter after any number of steps, before and
  after the wrap, by taking the least number of steps for which they fail.
* `Server`, `ServerInv`. `Lifecycle` reads hooks, flag and table off the place of a
  connection's `serve` goroutine; `InHand` says which connection the accept loop holds.
* `Heartbeat`, `HInv`. `CountsLast`: the count is one of the last heartbeats in
  succession; `CountFits`: the goroutine acts on it once; `CancelledIsLast`: no heartbeat
  comes after one that `stop` made fail.

* `Decoder`, `DecoderInv`. `Buffered` ties the buffer and what is unread to a place in the
  stream, `InFrame` what is known of the frame at hand (flags, length, how much is
  passed over) to what the stream says at that place, and `Progress` says that the
  frames returned, followed by those that begin at the place, are all the frames
  of the stream. `Frames` gives those by a recursive function on positions, whose
  equation is proved by taking the least position without it; `FlattenSeq` is
  dealt with in the same way. `OthersAlwaysSurvive` and `PacketsComeInOrder` then are
  about the stream alone: each piece begins where one ends, so that `FramesFrom` meets
  it whole. A stray magic byte undoes that, and what is found behind it begins
  anywhere. `NothingIsInvented` says that the checksum is enough even so, provided
  that it does its work: `ChecksumsTell(sent)` is the premise that it matches nowhere in
  the stream but where an encoded packet lies. What is found there is that packet
  (`EncodedIsFound`, at any place of a longer stream). The premise is about the bytes
  alone and has nothing of the decoder in it; no property of the code can replace
  it, 16 bits being what they are.
* `WsConn`, `WsInv`. `Opening` says what can be under way before the upgrade is finished.
  `FramesInOrder` is about the cells on the wire: each head is followed by its payload,
  data is numbered upwards with nothing left out (`Numbered`, `Complete`), control frames
  keep their order, and what is not whole is the last. `PongsInOrder` ties the pongs
  written to the pings read, and `DataInOrder` what `Read` returned and still has to
  the data cells behind it. The theorems need that the server does not speak
  before the client and that messages are not fragmented, because the code drops
  frames in these cases (section 6); `TypeCorrect` needs neither.

Only model-checked: liveness, which the prover cannot do under fairness (`client_live`
and the liveness properties of `server`, `bridge`, `queue`, `websocket` and `heartbeat`);
`Crc`, whose bitwise operators the prover does not know; and `ChecksumsTell` of the
streams at hand, which is a matter of computing checksums: TLC evaluates it for
every stream of the run `decoder`, as the assumption `Streams` of `MCDecoder`.

## 6. Where code and documents part

Runs (each a finding in `PROJECT.json`):

| Run | The code | The document |
|---|---|---|
| `client_double_close` | the last timer of `retryLoop` closes `done` although `Resolve` or `Remove` took the entry and closes it too: a panic | `DESIGN.md:213` "通过引入 `done` 通道解决" |
| `server_shutdown` | a connection that is accepted during `Shutdown`'s snapshot is served on | `server.go:170` "服务端关闭时所有连接自动取消" |
| `websocket_long` | a message longer than the buffer is read whole: `Read` runs over the buffer, or returns more than it holds, and the decoder panics | `ws.go:104` "缓冲区太小，分段读取" |

Stated in the modules, at their end, and refuted by TLC; to see it, check the
property alone, with the specification and constants given here:

| Property | Specification and constants | The code | The document |
|---|---|---|---|
| `Client!AlwaysOwnAnswer` | `Spec`; 3 requests, one `Timed`, `MaxSeq` 3, `MaxRetries` 0 | after the numbers wrap, a late answer goes to the request that has its number now | `README.md:183` "实现异步请求-应答的可靠匹配" |
| `Client!ThreeTimers` | `Spec`; 1 request, `MaxSeq` 3, `MaxRetries` 3 | a fourth timer, of 8 s, after the last retransmission | `seq.go:201` "1s, 2s, 4s", `DESIGN.md:203` |
| `Client!EveryCallReturns` | `FairSpec`; 3 requests, none `Timed`, `MaxSeq` 2, `MaxRetries` 0 | with all numbers pending `Enqueue` overwrites an entry, and its call waits for ever | `DESIGN.md:179` "分配时检查与待确认队列的冲突" |
| `Server!HookBeforeClose` | `Spec`; 1 connection, no frame | `Shutdown` closes a connection before its hook runs | `server.go:55` "连接关闭前调用的钩子" |
| `Server!BrokenConnsLeave` | `FairSpec`; 1 connection, no frame | after a reset `serve` retries for ever | `server.go:16` "连接关闭时销毁" |
| `Server!ServesUntilTold` | `Spec`; 1 connection, `WebSocket` TRUE | one failed upgrade ends `ListenAndServe` | `server.go:114` "阻塞直到 ctx 被取消或监听失败" |
| `Bridge!DoneAfterBoth` | `Spec`; 1 frame | `Serve` closes `done` without waiting for the write loop | `bridge.go:358` "读写循环均退出后关闭" |
| `Bridge!OneEndsBoth` | `FairSpec`; 2 frames, no push, capacity 2 | a write error ends the write loop alone | `bridge.go:76` "任一退出时关闭连接并等待对方完成" |
| `Bridge!ErrorsInTurn` | `Spec`; as above | errors overtake the answers in `writeCh` | `bridge.go:301` "通过写循环发出" |
| `Bridge!HeartbeatsAnswered` | `FairSpec`; 1 frame | a heartbeat's handler has no result and no answer is sent | `handler/heartbeat.go:56` "Bridge 将构建空 Body 的响应帧" |
| `Bridge!NegotiatedFirst` | `Spec`; 2 frames | the `NegotiateFilter` is in a chain the dispatcher does not run | `filter/negotiate.go:27` "协商前仅允许 messageId=0x01（协商请求）通过" |
| `MessageServer!ServedAreFound` | `Spec`; 2 connections, `Fresh` empty | connections of `NewConn` share the id 0, and the first to leave removes the other | `conn/connection.go:134` "服务端 Accept 时分配" |
| `Negotiation!SessionsAgree` | `NegotiationSpec`; as `negotiation.cfg` | a request that was sent twice is given two sessions: the client keeps one, the server the other | `negotiate_payload.go:65` "会话标识（协商成功后分配）" |
| `Duplex!HandlerGetsResponse` | `DuplexFairSpec`; as `queue.cfg` | a handler that waits in `Send` holds the read loop that would bring its response (`bridge.go:150`) | `connection.go:221` "响应帧由 MessageDispatcher.Dispatch 在收到响应时通过 MessageQueue.Complete 完成" |
| `WsConn!PingsAnswered` | `FairSpec`; `Lengths` {2}, the rest as `websocket.cfg` | the deadline of the last `WritePacket` stays, and pongs fail five seconds later | `ws.go:82` "读取 ping 数据并发送 pong" |
| `WsConn!ImplementsByteStream` | `FairSpec`; `ServerFirst` TRUE, the rest as `websocket.cfg` | `Dial` drops the frames its buffered reader has read along with the response | `ws.go:39` "从 WebSocket 连接读取解帧后的数据" |
| `WsConn!ImplementsByteStream` | `FairSpec`; `Fragments` TRUE, the rest as `websocket.cfg` | continuation frames are thrown away as unknown | none: `DESIGN.md:348` names it a limit, "不支持分片消息" |

That a number which is free is preferred, which `seq.go:83` says ("避免与 pending
中的序列号冲突"), is `FreshWhileOneIsFree` in `SeqAlloc`, and that it is not so is the
theorem `RepeatsAlthoughFree`.

Seen in reading, without a property: the error of a `WritePacket` in `handleRequest`
and `sendErrorResponse` is thrown away (`server.go:255`), so that a request whose
answer runs into the 5 s deadline stays without one although the connection
stays up, which is the outcome `failed` of a frame in `Server`; a loss is acted upon when `missed >= MaxMissed`,
where `basic/message/client.go:114` says "超过后"; `README.md:12` offers CRC-32, which no
flag selects; after a length that is too short the decoder goes on behind the
length field, where `decoder.go:121` says that it skips the magic byte;
`MessageServer.Serve` passes a nil parent to `context.WithCancel` and panics
(`message_server.go:165`); client frames on WebSocket are not masked (`ws.go:182`), where `DESIGN.md:344` says they are;
a negotiation that is refused reaches the client as the text of an error, which
it cannot parse, so that `Negotiate` does not return the reason (`bridge.go:311`);
nobody completes a `Conn.Send` on a `Client` or under `server.Server`, whose read
loops do not know the message queue; handlers are found by the low byte of the
opcode (`message_dispatcher.go:104`) but registered under the number given, so
that the handler of `message_server.go:135`'s example, 0x0100, is never called, and
application opcodes that end in 01 or 02 go unencrypted like the protocol's own
(`bridge.go:189`).

## 7. What is not modelled

* TCP and QUIC (`conn/tcp.go`, `conn/quic.go`): the first passes on to package `net`,
  the second is a stub that returns an error.
* Constants, errors, interfaces, the default codec, message context and the
  registers' registration functions (the bean register's and the event
  dispatcher's among them): no behaviour of their own, or only before anything
  runs. The codec registry is never consulted by the code.
* `SendNotification`: a write that keeps no state.
* `MessageServer.Serve`, which makes a connection with an id of its own and serves it:
  it panics before it comes to the tables (section 6), which it would fill in the
  other order. The module has `ServeConn`, with connections of either constructor.
* What a negotiator decides, and the fields of its request: `Negotiation` lets it
  accept or refuse each copy.
* Partial writes above the transport: a failed `WritePacket` sends the whole frame or
  nothing of it in `Client`, `Server` and `Bridge`. `WsConn` has frames that are cut short,
  and `Decoder` streams with what is left of them.
* The memory model of Go: the property map, which is accessed without a lock, is
  one flag in `Bridge` and a session in `Negotiation`.
* Concurrent calls of `ConnectionBridge.Close`, which can close `stopCh` twice:
  `Stop` is one step in `Bridge`.
* An upgrade that is never finished holds the accept loop: `Server` has it as a step
  that need not happen, and no liveness property depends on it.
* The examples (`examples/`): they use the API and are no part of it.

## 8. Plan

Done, in this order: `SeqAlloc`, `SeqManager`, `Client`, `RequestReply` and their
proofs; `Server`; `Bridge`; `MessageServer`; `MessageQueue`; `Packet` and `Decoder`;
`Heartbeat`; then `Negotiation` over `MessageServer`, `Duplex` over `MessageQueue`,
`ByteStream` and `WsConn`; then the checksum apart from the format (`Crc`), the meaning
of a stream apart from the decoder (`Frames`), and the proofs of `Decoder` and `WsConn`;
last, `Replies` and the proof that `Bridge` implements it, and `NothingIsInvented`;
and after that the copies a settled call may still send (`Negotiation`), a connection
that loses its registry entry to one it shares an id with (`FoundOrTakenOver`), an
answer that cannot be written (`Server`) and the whole series of numbers between two
equal ones (`NumbersTakeTurns`).
Each safety property of a run that passes is a theorem now, and so is each of the
three refinements. The runs of `Allocate`'s arithmetic and of `MessageServer` alone have
gone where theorems say the same of every instance.

Left, in the order of what it would add:

1. `Conn.Send` on a `Client`: two allocators of numbers on one connection.
2. A frame cut short by a write deadline, from `WsConn` or TCP through to the
   decoder of the other end, as one system.
3. The codec switch against frames in flight: what is read after `SetCodec` may have
   been sent before it.
