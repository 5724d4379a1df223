-------------------------------- MODULE Duplex --------------------------------
(***************************************************************************)
(* A connection that is used in both directions: MessageQueue composed     *)
(* with the read loop of the bridge that serves the Conn (conn/bridge.go,  *)
(* basic/register/message_dispatcher.go) and with the peer.  The peer      *)
(* answers what was written, more than once if it likes, and asks of its   *)
(* own accord; the read loop hands responses to the queue and runs the     *)
(* handlers of requests, on its own goroutine.  Some handlers call         *)
(* Conn.Send and wait for the response.                                    *)
(***************************************************************************)
EXTENDS MessageQueue, Sequences, SequencesExt

CONSTANTS Handlers, \* the calls of Send that handlers make; the others are the application's
          MaxInbox  \* bound: the frames on their way from the peer

ASSUME HandlersAssumption == Handlers \subseteq Senders
ASSUME InboxAssumption == MaxInbox \in Nat \ {0}

VARIABLES
  loop,   \* where the read loop, and Serve after it, is
  holder, \* the call the running handler makes
  inbox,  \* the frames on their way: a response's number, or 0 for a request
  asked,  \* the numbers that were written to the peer
  peer    \* the peer is "up", or it is "gone"

loopVars == <<loop, holder, inbox>>
peerVars == <<asked, peer>>
duplexVars == <<vars, loopVars, peerVars>>

DuplexTypeOK ==
  /\ TypeOK
  /\ loop \in {"decoding", "delivering", "handling", "left", "ended"}
  /\ holder \in Handlers \cup {NoSender}
  /\ inbox \in BoundedSeq(Seqs \cup {0}, MaxInbox)
  /\ asked \subseteq Seqs
  /\ peer \in {"up", "gone"}

DuplexInit ==
  /\ Init
  /\ loop = "decoding" /\ holder = NoSender
  /\ inbox = <<>> /\ asked = {} /\ peer = "up"

-----------------------------------------------------------------------------
(* Conn.Send, on the application's goroutines and in handlers *)

\* A handler's call runs while the handler does.
Runs(s) == s \notin Handlers \/ holder = s

Sending(s) ==
  /\ Runs(s)
  /\ SendCheck(s) \/ Put(s) \/ SendFail(s)
  /\ UNCHANGED <<loopVars, peerVars>>

\* What is written is what the peer may answer.
Writing(s) ==
  /\ Runs(s)
  /\ Write(s)
  /\ asked' = IF send'[s] = "waiting" THEN asked \cup {seq[s]} ELSE asked
  /\ UNCHANGED <<loopVars, peer>>

-----------------------------------------------------------------------------
(* The read loop *)

\* A response goes to the queue: Complete takes the channel out ...
ReadResponse(n) ==
  /\ loop = "decoding"
  /\ inbox # <<>> /\ Head(inbox) = n
  /\ Take(n)
  /\ loop' = "delivering"
  /\ inbox' = Tail(inbox)
  /\ UNCHANGED <<holder, peerVars>>

\* ... unless nobody waits for it ...
DropResponse ==
  /\ loop = "decoding"
  /\ inbox # <<>> /\ Head(inbox) # 0
  /\ pending[Head(inbox)] = NoSender
  /\ inbox' = Tail(inbox)
  /\ UNCHANGED <<vars, loop, holder, peerVars>>

\* ... and sends on it.
DeliverResponse ==
  /\ loop = "delivering"
  /\ Deliver
  /\ loop' = "decoding"
  /\ UNCHANGED <<holder, inbox, peerVars>>

\* A request whose handler will call Send.
RunHandler(h) ==
  /\ loop = "decoding"
  /\ inbox # <<>> /\ Head(inbox) = 0
  /\ ~closed
  /\ send[h] = "idle"
  /\ holder' = h
  /\ loop' = "handling"
  /\ inbox' = Tail(inbox)
  /\ UNCHANGED <<vars, peerVars>>

\* A request with any other handler, or on a closed connection, where the
\* filter chain ends it.
PassRequest ==
  /\ loop = "decoding"
  /\ inbox # <<>> /\ Head(inbox) = 0
  /\ inbox' = Tail(inbox)
  /\ UNCHANGED <<vars, loop, holder, peerVars>>

\* The handler has the response, a closed channel or an error of Send.
HandlerReturns ==
  /\ loop = "handling"
  /\ \/ send[holder] = "failed"
     \/ send[holder] = "waiting" /\ ch[holder] # "empty"
  /\ holder' = NoSender
  /\ loop' = "decoding"
  /\ UNCHANGED <<vars, inbox, peerVars>>

ReadEnd ==
  /\ loop = "decoding"
  /\ closed \/ (peer = "gone" /\ inbox = <<>>)
  /\ loop' = "left"
  /\ UNCHANGED <<vars, holder, inbox, peerVars>>

\* A plausible slip: Serve leaves the Conn to its owner.
ServeLeavesOpen ==
  /\ loop = "left"
  /\ UNCHANGED vars
  /\ loop' = "ended"
  /\ UNCHANGED <<holder, inbox, peerVars>>

\* Serve's deferred Conn.Close, which does nothing if somebody was first.
ServeCloses ==
  /\ loop = "left"
  /\ IF closed THEN UNCHANGED vars ELSE Close
  /\ loop' = "ended"
  /\ UNCHANGED <<holder, inbox, peerVars>>

-----------------------------------------------------------------------------
(* The application and the peer *)

AppCloses == Close /\ UNCHANGED <<loopVars, peerVars>>
Clearing == Clear /\ UNCHANGED <<loopVars, peerVars>>

PeerSends(n) ==
  /\ peer = "up"
  /\ n \in asked \cup {0}
  /\ Len(inbox) < MaxInbox
  /\ inbox' = Append(inbox, n)
  /\ UNCHANGED <<vars, loop, holder, peerVars>>

PeerGoes ==
  /\ peer = "up"
  /\ peer' = "gone"
  /\ UNCHANGED <<vars, loopVars, asked>>

-----------------------------------------------------------------------------
ReadLoop ==
  \/ DropResponse \/ DeliverResponse
  \/ PassRequest \/ HandlerReturns \/ ReadEnd \/ ServeCloses
  \/ \E n \in Seqs : ReadResponse(n)
  \/ \E h \in Handlers : RunHandler(h)

DuplexNext ==
  \/ \E s \in Senders : Sending(s) \/ Writing(s)
  \/ ReadLoop
  \/ AppCloses \/ Clearing
  \/ \E n \in Seqs \cup {0} : PeerSends(n)
  \/ PeerGoes

DuplexSpec == DuplexInit /\ [][DuplexNext]_duplexVars

\* Every goroutine that has begun goes on, a handler's call among them, which
\* is part of the read loop.  The peer owes nothing, nobody must call or close.
DuplexFairSpec ==
  /\ DuplexSpec
  /\ \A s \in Senders : WF_duplexVars((send[s] # "idle" \/ holder = s) /\ (Sending(s) \/ Writing(s)))
  /\ WF_duplexVars(ReadLoop)
  /\ WF_duplexVars(Clearing)

-----------------------------------------------------------------------------
(* Correctness.  The properties of MessageQueue are checked of this system; *)
(* MessageQueueProofs shows that each of its steps is one of MessageQueue's.      *)

\* A handler waits for a response, and the read loop with it.
HandlerWaits == holder # NoSender /\ send[holder] = "waiting" /\ ch[holder] = "empty"

\* Whoever waits when the Conn is closed comes back, and whoever waits once the
\* response has arrived or the peer is gone, unless a handler keeps the read loop
\* from noticing.
WaitersComeBack ==
  \A s \in Senders :
    /\ send[s] = "waiting" /\ closed ~> ch[s] # "empty"
    /\ send[s] = "waiting" /\ (peer = "gone" \/ seq[s] \in ToSet(inbox))
         ~> ch[s] # "empty" \/ HandlerWaits

-----------------------------------------------------------------------------
(* What the repository says of this code and the code does not do: TLC      *)
(* refutes it; README.md says in which configuration.                       *)

\* connection.go, Send: the response is completed by the dispatcher when it is
\* received.  A handler that waits for it keeps the dispatcher from receiving.
HandlerGetsResponse ==
  \A h \in Handlers :
    send[h] = "waiting" /\ seq[h] \in ToSet(inbox) ~> ch[h] # "empty"
=============================================================================
