------------------------------- MODULE Bridge -------------------------------
(***************************************************************************)
(* conn.ConnectionBridge (conn/bridge.go) serving one connection: the read *)
(* loop, which decrypts, filters, handles and answers one frame after the  *)
(* other, the write loop behind writeCh, and those who act on the bridge   *)
(* or its Conn from outside: the peer and the application.                 *)
(*                                                                         *)
(* Frames are numbered as the peer sends them: the read loop works on      *)
(* frame number read.  An answer is known by the number of its request,    *)
(* and a frame the application writes itself is number 0.  The filter      *)
(* chain is the dispatcher's, which has no filters: NewMessageServer       *)
(* registers its NegotiateFilter with another one.  Handlers return.       *)
(***************************************************************************)
EXTENDS Naturals, Sequences, SequencesExt

CONSTANTS MaxFrames,  \* bound: the frames the peer sends
          MaxPushes,  \* bound: the frames the application writes
          Capacity    \* what writeCh holds; 64 in the code

ASSUME BoundsAssumption == MaxFrames \in Nat /\ MaxPushes \in Nat
ASSUME CapacityAssumption == Capacity \in Nat \ {0}

VARIABLES
  kind,       \* the frames the peer sent: what each is
  read,       \* how many Decode has returned; the current frame
  peer,       \* the other end of the connection
  closed,     \* Conn.closed
  codec,      \* Conn.codec
  negotiated, \* the CODEC_TYPE property is set
  stop,       \* stopCh is closed
  done,       \* done is closed
  reader,     \* where the read loop, and Serve after it, is
  handled,    \* the frames a handler was called for
  queue,      \* writeCh
  queueOpen,  \* writeCh is not closed
  writer,     \* where the write loop is
  out,        \* the frame it writes
  wire,       \* what was written to the connection, in order
  skipped,    \* what was thrown away: writeCh was full or encryption failed
  pushes,     \* the frames the application has written
  panicked    \* somebody sent on the closed writeCh

peerVars == <<kind, peer>>
connVars == <<closed, codec, negotiated>>
readVars == <<read, reader, handled>>
queueVars == <<queue, queueOpen, skipped>>
writeVars == <<writer, out>>
appVars == <<stop, pushes, panicked>>
vars == <<peerVars, connVars, readVars, queueVars, writeVars, wire, appVars, done>>

(***************************************************************************)
(* What the peer sends: requests that want an answer (a negotiation, one   *)
(* whose handler answers, a heartbeat, whose handler has no result, one    *)
(* whose handler fails or is not registered, one that does not decrypt),   *)
(* notices, which do not want one, and a response.  A garbled one is like  *)
(* the others as long as the codec is the default one, which never fails.  *)
(***************************************************************************)
Asking == {"negotiate", "request", "heartbeat", "failing", "garbled"}
Kinds == Asking \cup {"notice", "garbledNotice", "response"}

Frames == 1..MaxFrames

TypeOK ==
  /\ kind \in Seq(Kinds) /\ Len(kind) <= MaxFrames
  /\ read \in 0..Len(kind)
  /\ peer \in {"up", "stalled", "eof", "reset"}
  /\ closed \in BOOLEAN /\ negotiated \in BOOLEAN
  /\ codec \in {"default", "cipher"}
  /\ stop \in BOOLEAN /\ done \in BOOLEAN
  /\ reader \in {"checking", "decoding", "filtering", "handling", "answering", "refusing",
                 "failing", "closing", "left", "unwinding", "ending", "ended"}
  /\ handled \subseteq 1..read
  /\ queue \in Seq(0..read) /\ Len(queue) <= Capacity
  /\ queueOpen \in BOOLEAN
  /\ writer \in {"ready", "writing", "ended"}
  /\ out \in 0..read
  /\ wire \in Seq(0..read)
  /\ skipped \subseteq 0..read
  /\ pushes \in 0..MaxPushes
  /\ panicked \in BOOLEAN

\* NewConnectionBridge, and Serve has started the write loop.
Init ==
  /\ kind = <<>> /\ read = 0 /\ peer = "up"
  /\ closed = FALSE /\ codec = "default" /\ negotiated = FALSE
  /\ stop = FALSE /\ done = FALSE
  /\ reader = "checking" /\ handled = {}
  /\ queue = <<>> /\ queueOpen = TRUE
  /\ writer = "ready" /\ out = 0
  /\ wire = <<>> /\ skipped = {}
  /\ pushes = 0 /\ panicked = FALSE

\* A plausible slip: nobody looks whether the Conn is closed.
WriteSucceedsClosed == peer # "reset"

\* How Conn.WritePacket may end: a write to a peer that does not read any more
\* runs into its deadline of 5 seconds sooner or later.
WriteSucceeds == ~closed /\ peer # "reset"
WriteFails == closed \/ peer # "up"

-----------------------------------------------------------------------------
(* The read loop *)

CheckStop ==
  /\ reader = "checking"
  /\ reader' = IF stop THEN "left" ELSE "decoding"
  /\ UNCHANGED <<read, handled, peerVars, connVars, queueVars, writeVars, wire, appVars, done>>

(***************************************************************************)
(* Decode returns a frame (it may have been buffered before the Conn was   *)
(* closed), which is decrypted; a response goes to the MessageQueue.       *)
(***************************************************************************)
ReadFrame ==
  /\ reader = "decoding"
  /\ read < Len(kind)
  /\ read' = read + 1
  /\ reader' =
       CASE kind[read'] = "garbled" /\ codec = "cipher"       -> "failing"
         [] kind[read'] = "garbledNotice" /\ codec = "cipher" -> "closing"
         [] kind[read'] = "response"                          -> "checking"
         [] OTHER                                             -> "filtering"
  /\ UNCHANGED <<handled, peerVars, connVars, queueVars, writeVars, wire, appVars, done>>

\* Decode returns an error: the loop ends, whatever the error is.
ReadEnd ==
  /\ reader = "decoding"
  /\ \/ closed
     \/ peer = "reset"
     \/ peer = "eof" /\ read = Len(kind)
  /\ reader' = "left"
  /\ UNCHANGED <<read, handled, peerVars, connVars, queueVars, writeVars, wire, appVars, done>>

\* A plausible slip: the chain does not look at the connection.
FilterUnchecked ==
  /\ reader = "filtering"
  /\ reader' = "handling"
  /\ UNCHANGED <<read, handled, peerVars, connVars, queueVars, writeVars, wire, appVars, done>>

\* The dispatcher's filter chain: a closed connection ends it, with no error.
Filter ==
  /\ reader = "filtering"
  /\ reader' = IF closed THEN "checking" ELSE "handling"
  /\ UNCHANGED <<read, handled, peerVars, connVars, queueVars, writeVars, wire, appVars, done>>

\* A plausible slip: notices are answered like requests.
HandleAnswersAll ==
  /\ reader = "handling"
  /\ handled' = handled \cup {read}
  /\ negotiated' = (negotiated \/ kind[read] = "negotiate")
  /\ reader' = IF kind[read] = "failing" THEN "refusing" ELSE "answering"
  /\ UNCHANGED <<read, peerVars, closed, codec, queueVars, writeVars, wire, appVars, done>>

\* The handler runs.  Its error is the peer's answer; without a result there
\* is none, and a notice gets none in any case.
Handle ==
  /\ reader = "handling"
  /\ handled' = handled \cup {read}
  /\ negotiated' = (negotiated \/ kind[read] = "negotiate")
  /\ reader' = CASE kind[read] = "failing"                              -> "refusing"
                 [] kind[read] \in {"negotiate", "request", "garbled"}  -> "answering"
                 [] OTHER                                               -> "checking"
  /\ UNCHANGED <<read, peerVars, closed, codec, queueVars, writeVars, wire, appVars, done>>

\* A plausible slip: a full channel drops its oldest frame.
EnqueueDropsOldest(n) ==
  /\ queueOpen
  /\ queue' = IF Len(queue) < Capacity THEN Append(queue, n) ELSE Append(Tail(queue), n)
  /\ UNCHANGED <<skipped, queueOpen>>

\* bridge.WritePacket: a full channel drops the new frame.
Enqueue(n) ==
  /\ queueOpen
  /\ IF Len(queue) < Capacity
     THEN queue' = Append(queue, n) /\ UNCHANGED skipped
     ELSE skipped' = skipped \cup {n} /\ UNCHANGED queue
  /\ UNCHANGED queueOpen

\* writeResponse
Answer ==
  /\ reader = "answering"
  /\ Enqueue(read)
  /\ reader' = "checking"
  /\ UNCHANGED <<read, handled, peerVars, connVars, writeVars, wire, appVars, done>>

\* A plausible slip: only a fatal error is written.
RefuseFatalOnly ==
  /\ reader \in {"refusing", "failing"}
  /\ \/ WriteSucceeds /\ wire' = IF reader = "failing" THEN Append(wire, read) ELSE wire
     \/ WriteFails /\ UNCHANGED wire
  /\ reader' = IF reader = "failing" THEN "closing" ELSE "checking"
  /\ UNCHANGED <<read, handled, peerVars, connVars, queueVars, writeVars, appVars, done>>

\* writeErrorResponse: written by the read loop itself, past writeCh and in
\* plain text; handleFatalError goes on to close the connection.
Refuse ==
  /\ reader \in {"refusing", "failing"}
  /\ \/ WriteSucceeds /\ wire' = Append(wire, read)
     \/ WriteFails /\ UNCHANGED wire
  /\ reader' = IF reader = "failing" THEN "closing" ELSE "checking"
  /\ UNCHANGED <<read, handled, peerVars, connVars, queueVars, writeVars, appVars, done>>

CloseFatal ==
  /\ reader = "closing"
  /\ closed' = TRUE
  /\ reader' = "checking"
  /\ UNCHANGED <<codec, negotiated, read, handled, peerVars, queueVars, writeVars, wire,
                 appVars, done>>

\* A plausible slip: writeCh stays open.
LeaveOpen ==
  /\ reader = "left"
  /\ reader' = "unwinding"
  /\ UNCHANGED <<read, handled, queueVars, peerVars, connVars, writeVars, wire, appVars, done>>

\* Serve closes writeCh ...
Leave ==
  /\ reader = "left"
  /\ queueOpen' = FALSE
  /\ reader' = "unwinding"
  /\ UNCHANGED <<queue, skipped, read, handled, peerVars, connVars, writeVars, wire,
                 appVars, done>>

\* ... and without waiting for the write loop the Conn ...
Unwind ==
  /\ reader = "unwinding"
  /\ closed' = TRUE
  /\ reader' = "ending"
  /\ UNCHANGED <<codec, negotiated, read, handled, peerVars, queueVars, writeVars, wire,
                 appVars, done>>

\* ... and done.
End ==
  /\ reader = "ending"
  /\ done' = TRUE
  /\ reader' = "ended"
  /\ UNCHANGED <<read, handled, peerVars, connVars, queueVars, writeVars, wire, appVars>>

-----------------------------------------------------------------------------
(* The write loop *)

\* A plausible slip: it takes the frame that came last.
TakeNewest ==
  /\ writer = "ready"
  /\ queue # <<>>
  /\ queue' = Front(queue)
  /\ out' = Last(queue)
  /\ writer' = "writing"
  /\ UNCHANGED <<queueOpen, skipped, peerVars, connVars, readVars, wire, appVars, done>>

\* The next frame is taken and encrypted.
Take ==
  /\ writer = "ready"
  /\ queue # <<>>
  /\ queue' = Tail(queue)
  /\ out' = Head(queue)
  /\ writer' = "writing"
  /\ UNCHANGED <<queueOpen, skipped, peerVars, connVars, readVars, wire, appVars, done>>

\* Encryption failed and the frame is skipped; a negotiation's answer is not
\* encrypted.
TakeFails ==
  /\ writer = "ready"
  /\ queue # <<>>
  /\ codec = "cipher"
  /\ Head(queue) # 0 => kind[Head(queue)] # "negotiate"
  /\ queue' = Tail(queue)
  /\ skipped' = skipped \cup {Head(queue)}
  /\ UNCHANGED <<queueOpen, peerVars, connVars, readVars, writeVars, wire, appVars, done>>

\* Conn.WritePacket: an error ends the loop and leaves the connection open.
Write ==
  /\ writer = "writing"
  /\ \/ WriteSucceeds /\ wire' = Append(wire, out) /\ writer' = "ready"
     \/ WriteFails /\ UNCHANGED wire /\ writer' = "ended"
  /\ out' = 0
  /\ UNCHANGED <<queueVars, peerVars, connVars, readVars, appVars, done>>

\* writeCh is closed and empty.
WriterEnds ==
  /\ writer = "ready"
  /\ queue = <<>>
  /\ ~queueOpen
  /\ writer' = "ended"
  /\ UNCHANGED <<out, queueVars, peerVars, connVars, readVars, wire, appVars, done>>

-----------------------------------------------------------------------------
(* The application and the peer *)

\* bridge.Close
Stop ==
  /\ ~stop
  /\ stop' = TRUE
  /\ UNCHANGED <<pushes, panicked, peerVars, connVars, readVars, queueVars, writeVars, wire, done>>

\* The application, or its server's Shutdown, closes the Conn.
CloseConn ==
  /\ ~closed
  /\ closed' = TRUE
  /\ UNCHANGED <<codec, negotiated, peerVars, readVars, queueVars, writeVars, wire, appVars, done>>

SetCodec ==
  /\ codec = "default"
  /\ codec' = "cipher"
  /\ UNCHANGED <<closed, negotiated, peerVars, readVars, queueVars, writeVars, wire, appVars, done>>

\* The application calls bridge.WritePacket; on a closed channel it panics.
Push ==
  /\ pushes < MaxPushes
  /\ pushes' = pushes + 1
  /\ \/ Enqueue(0) /\ UNCHANGED panicked
     \/ ~queueOpen /\ panicked' = TRUE /\ UNCHANGED queueVars
  /\ UNCHANGED <<stop, peerVars, connVars, readVars, writeVars, wire, done>>

PeerSends(k) ==
  /\ peer \in {"up", "stalled"}
  /\ Len(kind) < MaxFrames
  /\ kind' = Append(kind, k)
  /\ UNCHANGED <<peer, connVars, readVars, queueVars, writeVars, wire, appVars, done>>

\* The peer stops reading; it ends the connection; the connection breaks.
PeerTurns(p) ==
  /\ \/ peer = "up" /\ p \in {"stalled", "eof", "reset"}
     \/ peer = "stalled" /\ p \in {"eof", "reset"}
  /\ peer' = p
  /\ UNCHANGED <<kind, connVars, readVars, queueVars, writeVars, wire, appVars, done>>

-----------------------------------------------------------------------------
ReadStep == CheckStop \/ ReadFrame \/ ReadEnd \/ Filter \/ Handle \/ Answer \/ Refuse
              \/ CloseFatal \/ Leave \/ Unwind \/ End
WriteStep == Take \/ TakeFails \/ Write \/ WriterEnds

\* A panic ends the process.
Next ==
  /\ ~panicked
  /\ \/ ReadStep
     \/ WriteStep
     \/ Stop \/ CloseConn \/ SetCodec \/ Push
     \/ \E k \in Kinds : PeerSends(k)
     \/ \E p \in {"stalled", "eof", "reset"} : PeerTurns(p)

Spec == Init /\ [][Next]_vars

\* The two goroutines run whenever they can: Decode returns when there is a
\* frame or an error, handlers and writes return.  Nothing else must happen.
FairSpec == Spec /\ WF_vars(~panicked /\ ReadStep) /\ WF_vars(~panicked /\ WriteStep)

-----------------------------------------------------------------------------
(* Correctness *)

\* The answers that pass through writeCh: those of Handle, not of Refuse.
ViaQueue(n) == n # 0 /\ kind[n] \in {"negotiate", "request", "garbled"} /\ n \in handled

\* The answers that go through writeCh reach the peer in the order of their
\* requests, for all that two goroutines pass them on and some are dropped.
AnswersInTurn ==
  \A i, j \in DOMAIN wire :
    i < j /\ ViaQueue(wire[i]) /\ ViaQueue(wire[j]) => wire[i] < wire[j]

\* No frame is answered twice, by whichever of the two goroutines, and only
\* what asked for an answer gets one.
AnsweredOnce ==
  \A i, j \in DOMAIN wire :
    wire[i] # 0 => /\ kind[wire[i]] \in Asking
                   /\ wire[j] = wire[i] => j = i

\* As long as the write loop runs, an answer is waiting, being written or on
\* the wire, or it was skipped: it is never just gone.
NoAnswerVanishes ==
  writer # "ended" =>
    \A n \in handled :
      /\ ViaQueue(n)
      /\ n = read => reader # "answering"
      => \/ n \in ToSet(queue) \cup ToSet(wire) \cup skipped
         \/ writer = "writing" /\ out = n

\* Once the connection is closed no handler is called any more, except for a
\* frame that has passed the filters by then; Decode may still return frames.
NoHandlerOnceClosed ==
  \A n \in Frames :
    [](closed /\ n \notin handled /\ ~(reader = "handling" /\ read = n) => [](n \notin handled))

\* Serve ends once the connection does, and the write loop with it, also when
\* it was stopped and the peer has gone away.
ServeEnds == closed \/ peer \in {"eof", "reset"} ~> panicked \/ (reader = "ended" /\ writer = "ended")

\* While the peer stays and reads, and nobody closes or stops the bridge, every
\* request it sent is answered or skipped, other than a heartbeat.
AllAnswered ==
  \A n \in Frames :
    n <= Len(kind) /\ kind[n] \in Asking \ {"heartbeat"}
      ~> \/ n \in ToSet(wire) \cup skipped
         \/ closed \/ stop \/ peer # "up" \/ panicked

-----------------------------------------------------------------------------
(* The abstract specification                                               *)

\* What becomes of the frame the read loop works on.
Stage == IF reader = "filtering" THEN "taken"
         ELSE IF reader = "handling" THEN "admitted"
         ELSE IF reader = "answering" THEN "ran"
         ELSE IF reader \in {"refusing", "failing"} THEN "failed"
         ELSE "idle"

\* The frames that ask, and the answers in the channel or behind it.
Wanted == {n \in DOMAIN kind : kind[n] \in Asking}
Owed == (ToSet(queue) \cup {out}) \ {0}

Promise == INSTANCE Replies WITH
  asked <- Len(kind), wanted <- Wanted,
  taken <- read, stage <- Stage, run <- handled,
  owed <- Owed, written <- wire, open <- ~closed

\* Two goroutines and a channel that drops what does not fit keep the promise
\* of Replies: one frame after the other, answers in order and once, nothing
\* handled that came through the filters after the close, or written after it.
ImplementsReplies == Promise!Spec

-----------------------------------------------------------------------------
(* What the repository says of this code and the code does not do: TLC      *)
(* refutes each of these; README.md says in which configuration.            *)

\* bridge.go, Done: it is closed when the read loop and the write loop have
\* ended.  Serve does not wait for the write loop.
DoneAfterBoth == done => writer = "ended"

\* bridge.go, Serve: when one loop ends the connection is closed.  A write
\* error ends the write loop and nothing else.
OneEndsBoth == writer = "ended" ~> closed

\* bridge.go, writeErrorResponse: the error goes out through the write loop,
\* and so in the order of the requests.  It overtakes what waits in writeCh.
ErrorsInTurn == \A i, j \in DOMAIN wire : i < j => wire[i] < wire[j]

\* handler/heartbeat.go: a heartbeat is answered with an empty frame.
HeartbeatsAnswered ==
  \A n \in Frames :
    n <= Len(kind) /\ kind[n] = "heartbeat"
      ~> n \in ToSet(wire) \cup skipped \/ closed \/ stop \/ peer # "up" \/ panicked

\* filter/negotiate.go: before the negotiation only a negotiation gets through.
NegotiatedFirst ==
  [][\A n \in handled' \ handled : kind[n] = "negotiate" \/ negotiated]_vars
=============================================================================
