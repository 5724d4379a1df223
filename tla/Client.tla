------------------------------- MODULE Client -------------------------------
(***************************************************************************)
(* client.Client (client/client.go) over the SeqManager: the goroutines    *)
(* that call SendRequest, the readLoop, the retryLoops, Client.Close, and  *)
(* the connection and the server seen from the client.                     *)
(*                                                                         *)
(* Every action is what one goroutine does between two points where        *)
(* another can run.  A panic in any goroutine ends the process: no action  *)
(* is enabled in a state with Panicked.                                    *)
(***************************************************************************)
EXTENDS SeqManager

CONSTANTS Timed,    \* the calls whose context has a deadline or is cancelled
          Failed    \* the call returned an error

ASSUME TimedAssumption == Timed \subseteq Requests
ASSUME FailedAssumption == Failed \notin Requests \cup {NoReq}

VARIABLES
  call,       \* where the call of SendRequest is
  result,     \* what it returned: an answer, Failed, or NoReq before it did
  open,       \* ~c.closed of the Conn
  link,       \* the transport: up, ended by the peer, or broken
  reader,     \* where readLoop is
  hit,        \* readLoop, in Resolve: the request it found
  frame,      \* readLoop, in Resolve: the request the frame answers
  closer,     \* where the first call of Client.Close is
  inflight,   \* answers on their way to the client, by request
  allocs      \* history: numbers allocated so far

netVars == <<open, link, reader, hit, frame, closer>>
vars == <<smVars, call, result, netVars, inflight, allocs>>

CallStates == {"idle", "allocated", "queued", "waiting", "removing", "done"}

TypeOK ==
  /\ SMTypeOK
  /\ call \in [Requests -> CallStates]
  /\ result \in [Requests -> Requests \cup {NoReq, Failed}]
  /\ open \in BOOLEAN
  /\ link \in {"up", "eof", "reset"}
  /\ reader \in {"reading", "resolving", "exited"}
  /\ hit \in Requests \cup {NoReq}
  /\ frame \in Requests \cup {NoReq}
  /\ closer \in {"idle", "mgrClosed", "waitRead", "done"}
  /\ inflight \in [Requests -> Nat]
  /\ allocs \in Nat

\* NewClient on a connection that is up, its readLoop started.
Init ==
  /\ SMInit
  /\ call = [r \in Requests |-> "idle"]
  /\ result = [r \in Requests |-> NoReq]
  /\ open = TRUE
  /\ link = "up"
  /\ reader = "reading"
  /\ hit = NoReq
  /\ frame = NoReq
  /\ closer = "idle"
  /\ inflight = [r \in Requests |-> 0]
  /\ allocs = 0

-----------------------------------------------------------------------------
(* WritePacket.  The check of closed and the write are one step: a close   *)
(* in between makes the write fail, which is also an outcome here.  The    *)
(* server answers a frame at most once, with the sequence number it        *)
(* carried; a frame that is a retransmission is answered like the first.   *)

\* The frame reaches the server, which will answer it.
WriteReaches(r) ==
  /\ open
  /\ link = "up"
  /\ inflight' = [inflight EXCEPT ![r] = @ + 1]

\* The frame is written and no answer will come.
WriteLost ==
  /\ open
  /\ UNCHANGED inflight

\* The connection is closed or broken, or the 5 s deadline expires.
WriteFails == UNCHANGED inflight

-----------------------------------------------------------------------------
(* SendRequest *)

\* The connection is closed, or Allocate returns 0.
Refused(r) ==
  /\ call[r] = "idle"
  /\ ~open \/ closed
  /\ call' = [call EXCEPT ![r] = "done"]
  /\ result' = [result EXCEPT ![r] = Failed]
  /\ UNCHANGED <<smVars, netVars, inflight, allocs>>

Begin(r) ==
  /\ call[r] = "idle"
  /\ open
  /\ Allocate(r)
  /\ call' = [call EXCEPT ![r] = "allocated"]
  /\ allocs' = allocs + 1
  /\ UNCHANGED <<result, netVars, inflight>>

Queue(r) ==
  /\ call[r] = "allocated"
  /\ Enqueue(r)
  /\ call' = [call EXCEPT ![r] = "queued"]
  /\ UNCHANGED <<result, netVars, inflight, allocs>>

\* WritePacket returned nil.
Write(r) ==
  /\ call[r] = "queued"
  /\ WriteReaches(r) \/ WriteLost
  /\ call' = [call EXCEPT ![r] = "waiting"]
  /\ UNCHANGED <<smVars, result, netVars, allocs>>

WriteError(r) ==
  /\ call[r] = "queued"
  /\ WriteFails
  /\ call' = [call EXCEPT ![r] = "removing"]
  /\ result' = [result EXCEPT ![r] = Failed]
  /\ UNCHANGED <<smVars, netVars, allocs>>

\* WaitForResponse takes the answer.
ReturnAnswer(r) ==
  /\ call[r] = "waiting"
  /\ respC[r] # NoReq
  /\ respC' = [respC EXCEPT ![r] = NoReq]
  /\ result' = [result EXCEPT ![r] = respC[r]]
  /\ call' = [call EXCEPT ![r] = "done"]
  /\ UNCHANGED <<next, closed, pending, seq, retries, loop, closes, errC,
                 netVars, inflight, allocs>>

\* WaitForResponse takes an error.
ReturnError(r) ==
  /\ call[r] = "waiting"
  /\ errC[r] # "none"
  /\ errC' = [errC EXCEPT ![r] = "none"]
  /\ result' = [result EXCEPT ![r] = Failed]
  /\ call' = [call EXCEPT ![r] = "removing"]
  /\ UNCHANGED <<next, closed, pending, seq, retries, loop, closes, respC,
                 netVars, inflight, allocs>>

\* WaitForResponse sees ctx.Done(), even when a channel is ready too.
CtxDone(r) ==
  /\ r \in Timed
  /\ call[r] = "waiting"
  /\ result' = [result EXCEPT ![r] = Failed]
  /\ call' = [call EXCEPT ![r] = "removing"]
  /\ UNCHANGED <<smVars, netVars, inflight, allocs>>

\* A plausible slip: the error return skips Remove.
FinishLeaves(r) ==
  /\ call[r] = "removing"
  /\ call' = [call EXCEPT ![r] = "done"]
  /\ UNCHANGED <<smVars, result, netVars, inflight, allocs>>

\* seqMgr.Remove(seq) and return the error.
Finish(r) ==
  /\ call[r] = "removing"
  /\ Remove(seq[r])
  /\ call' = [call EXCEPT ![r] = "done"]
  /\ UNCHANGED <<result, netVars, inflight, allocs>>

-----------------------------------------------------------------------------
(* retryLoop; onRetransmit is Client.retransmit, that is WritePacket. *)

Timer(r) ==
  /\ TimerAfterSettled(r) \/ TimerExpires(r) \/ DoneSeen(r)
  /\ UNCHANGED <<call, result, netVars, inflight, allocs>>

Retransmit(r) ==
  /\ Resent(r)
  /\ WriteReaches(r) \/ WriteLost
  /\ UNCHANGED <<call, result, netVars, allocs>>

RetransmitError(r) ==
  /\ ResendFailed(r)
  /\ WriteFails
  /\ UNCHANGED <<call, result, netVars, allocs>>

Exhausted(r) ==
  /\ GiveUp(r)
  /\ UNCHANGED <<call, result, netVars, inflight, allocs>>

-----------------------------------------------------------------------------
(* readLoop *)

(***************************************************************************)
(* Decode returns an answer and Resolve looks its number up.  Frames that  *)
(* the decoder holds are still returned after the connection has ended.    *)
(* Several handlers run at once on the server: answers come in any order.  *)
(***************************************************************************)
ReceiveMatched(r) ==
  /\ reader = "reading"
  /\ inflight[r] > 0
  /\ ResolveLookup(seq[r])
  /\ inflight' = [inflight EXCEPT ![r] = @ - 1]
  /\ reader' = "resolving"
  /\ hit' = pending[seq[r]]
  /\ frame' = r
  /\ UNCHANGED <<call, result, open, link, closer, allocs>>

\* Nothing is pending at the number: a late or repeated answer is dropped.
ReceiveStale(r) ==
  /\ reader = "reading"
  /\ inflight[r] > 0
  /\ pending[seq[r]] = NoReq
  /\ inflight' = [inflight EXCEPT ![r] = @ - 1]
  /\ UNCHANGED <<smVars, call, result, netVars, allocs>>

Deliver ==
  /\ reader = "resolving"
  /\ ResolveDeliver(hit, frame)
  /\ reader' = "reading"
  /\ hit' = NoReq
  /\ frame' = NoReq
  /\ UNCHANGED <<call, result, open, link, closer, inflight, allocs>>

\* A plausible slip: readLoop does not ask whether the client was closed.
ReaderExitOnEof ==
  /\ reader = "reading"
  /\ link = "eof"
  /\ reader' = "exited"
  /\ UNCHANGED <<smVars, call, result, open, link, hit, frame, closer, inflight, allocs>>

\* Decode returns io.EOF, or any error on a closed connection.  After any
\* other error, a reset for one, the loop tries again.
ReaderExit ==
  /\ reader = "reading"
  /\ link = "eof" \/ ~open
  /\ reader' = "exited"
  /\ UNCHANGED <<smVars, call, result, open, link, hit, frame, closer, inflight, allocs>>

-----------------------------------------------------------------------------
(* Client.Close.  closeMu makes the calls of it follow one another, and a  *)
(* later one finds the connection closed and returns: one is enough.       *)

CloseBegin ==
  /\ closer = "idle"
  /\ open
  /\ CloseManager
  /\ closer' = "mgrClosed"
  /\ UNCHANGED <<call, result, open, link, reader, hit, frame, inflight, allocs>>

CloseConn ==
  /\ closer = "mgrClosed"
  /\ open' = FALSE
  /\ closer' = "waitRead"
  /\ UNCHANGED <<smVars, call, result, link, reader, hit, frame, inflight, allocs>>

\* <-c.readDone
CloseReturn ==
  /\ closer = "waitRead"
  /\ reader = "exited"
  /\ closer' = "done"
  /\ UNCHANGED <<smVars, call, result, open, link, reader, hit, frame, inflight, allocs>>

\* The peer ends the connection, or it breaks.
LinkFails ==
  /\ link = "up"
  /\ link' \in {"eof", "reset"}
  /\ UNCHANGED <<smVars, call, result, open, reader, hit, frame, closer, inflight, allocs>>

-----------------------------------------------------------------------------
CallStep(r) ==
  \/ Queue(r) \/ Write(r) \/ WriteError(r)
  \/ ReturnAnswer(r) \/ ReturnError(r) \/ Finish(r)

RetryStep(r) == Timer(r) \/ Retransmit(r) \/ RetransmitError(r) \/ Exhausted(r)

CloseStep == CloseConn \/ CloseReturn

Step ==
  \/ \E r \in Requests :
       \/ Begin(r) \/ Refused(r) \/ CallStep(r) \/ CtxDone(r)
       \/ RetryStep(r)
       \/ ReceiveMatched(r) \/ ReceiveStale(r)
  \/ Deliver \/ ReaderExit
  \/ CloseBegin \/ CloseStep
  \/ LinkFails

\* Every call has returned and every retryLoop has ended.
Quiet ==
  \A r \in Requests : call[r] = "done" /\ loop[r] \in {"none", "exited"}

\* The system may stop once it is quiet, and does after a panic.
Stopped == (Panicked \/ Quiet) /\ UNCHANGED vars

Next == (~Panicked /\ Step) \/ Stopped

Spec == Init /\ [][Next]_vars

(***************************************************************************)
(* A goroutine that can run does: callers, timers, the reader once it has  *)
(* found a request or its connection has ended, and a Close that began.    *)
(* Nothing makes a caller start, a context expire, the link fail, the      *)
(* server answer or anybody close.                                         *)
(***************************************************************************)
FairSpec ==
  /\ Spec
  /\ \A r \in Requests : /\ WF_vars(~Panicked /\ CallStep(r))
                         /\ WF_vars(~Panicked /\ RetryStep(r))
  /\ WF_vars(~Panicked /\ Deliver)
  /\ WF_vars(~Panicked /\ ReaderExit)
  /\ WF_vars(~Panicked /\ CloseStep)

-----------------------------------------------------------------------------
(* Correctness *)

\* Fewer numbers were allocated than there are: none was used twice.
NoWrap == allocs < MaxSeq

(***************************************************************************)
(* The pending table never holds a dead entry: a request in it is under    *)
(* its own number, its done channel is open, its retryLoop runs, and its   *)
(* call has not returned.  Enqueue, Resolve, Remove, Close and retryLoop   *)
(* all touch the table, each in its own locked section.                    *)
(***************************************************************************)
PendingIsLive ==
  \A s \in Seqs :
    LET r == pending[s]
    IN r # NoReq => /\ seq[r] = s
                    /\ closes[r] = 0
                    /\ loop[r] \in {"armed", "resend", "giveup"}
                    /\ call[r] \in {"queued", "waiting", "removing"}

(***************************************************************************)
(* A request is settled at most once: it never has both an answer and an   *)
(* error waiting, and once a call returned an answer nothing more arrives  *)
(* for it, though readLoop, retryLoop and Close may all try to settle it.  *)
(***************************************************************************)
SettledOnce ==
  \A r \in Requests :
    /\ respC[r] = NoReq \/ errC[r] = "none"
    /\ result[r] \in Requests => respC[r] = NoReq /\ errC[r] = "none"

(***************************************************************************)
(* A call that returns an answer returns the answer to its own request, as *)
(* long as the numbers have not wrapped: retransmissions make the server   *)
(* answer twice, answers arrive in any order and after the call gave up.   *)
(***************************************************************************)
OwnAnswer ==
  NoWrap => \A r \in Requests : result[r] \in Requests => result[r] = r

\* Something is in the request's channels, or somebody still has to put it.
WillHear(r) ==
  respC[r] # NoReq \/ errC[r] # "none" \/ pending[seq[r]] = r \/ hit = r

(***************************************************************************)
(* Nobody waits for ever: a call in WaitForResponse, with or without a     *)
(* deadline, either has something in one of its channels, or is pending    *)
(* with a retryLoop to end it, or readLoop is about to deliver to it.      *)
(***************************************************************************)
NotStranded ==
  NoWrap /\ ~Panicked =>
    \A r \in Requests :
      call[r] = "waiting" => WillHear(r)

\* retryLoop never counts an expiry against a request that is settled: the
\* check of the table under the lock is in time, whoever settles it.
SettledNotRetried ==
  [][\A r \in Requests : NoWrap /\ closes[r] > 0 => retries'[r] = retries[r]]_vars

\* The client implements the specification its callers rely on.
RR == INSTANCE RequestReply
        WITH None <- NoReq,
             phase <- [r \in Requests |-> IF call[r] = "idle" THEN "idle"
                                          ELSE IF call[r] = "done" THEN "returned"
                                          ELSE "called"],
             result <- [r \in Requests |-> IF call[r] = "done" THEN result[r] ELSE NoReq],
             shut <- closed

\* As long as no number is used twice (a run that has too few requests to
\* wrap checks it of every behaviour).
ImplementsRequestReply == RR!Spec

\* Every call of SendRequest returns, with or without a deadline.
EveryCallReturns ==
  \A r \in Requests : call[r] # "idle" ~> (call[r] = "done" \/ Panicked)

\* No retryLoop outlives its request for ever.
EveryLoopEnds ==
  \A r \in Requests : loop[r] # "none" ~> (loop[r] = "exited" \/ Panicked)

\* Client.Close returns: readLoop ends once the connection is closed, also
\* when it was spinning on a broken one or in the middle of Resolve.
CloseReturns == closer # "idle" ~> (closer = "done" \/ Panicked)

-----------------------------------------------------------------------------
(* The inductive invariant of the proofs in ClientProofs: what the above    *)
(* rests on.                                                                *)

\* A retryLoop counts at most one expiry more than it may resend.
RetriesBounded ==
  \A r \in Requests : loop[r] # "giveup" /\ loop[r] # "exited" => retries[r] <= MaxRetries

\* Nothing exists of a request before Enqueue, and no number before Allocate.
Numbered ==
  \A r \in Requests :
    /\ call[r] = "idle" => seq[r] = 0
    /\ call[r] \in {"idle", "allocated"} =>
         loop[r] = "none" /\ closes[r] = 0 /\ inflight[r] = 0
    /\ \/ call[r] \in {"allocated", "queued", "waiting", "removing"}
       \/ loop[r] # "none"
       \/ inflight[r] > 0
       => seq[r] \in Seqs

\* Resolve holds a request that was queued and an answer with its number.
ReaderHolds ==
  /\ reader = "resolving" <=> hit # NoReq
  /\ hit # NoReq => /\ frame \in Requests
                    /\ seq[hit] \in Seqs
                    /\ seq[frame] = seq[hit]
                    /\ pending[seq[hit]] # hit
                    /\ call[hit] \notin {"idle", "allocated"}

\* The channels of a request are written only by whoever closed done first.
OpenIsEmpty ==
  \A r \in Requests :
    closes[r] = 0 => respC[r] = NoReq /\ errC[r] = "none" /\ result[r] \notin Requests

\* An answer goes to a request with the number the answer carries.
SameNumber ==
  \A r \in Requests :
    /\ respC[r] # NoReq => seq[r] \in Seqs /\ seq[respC[r]] = seq[r]
    /\ result[r] \in Requests => seq[r] \in Seqs /\ seq[result[r]] = seq[r]

\* Until they wrap, numbers are given out in order and belong to one request.
NumbersInOrder ==
  NoWrap => /\ next = IF allocs < MaxSeq - 1 THEN allocs + 1 ELSE 1
            /\ \A r \in Requests : seq[r] <= allocs
            /\ \A r, q \in Requests : seq[r] = seq[q] /\ seq[r] # 0 => r = q

\* NotStranded, from the moment the request is queued.
QueuedNotStranded ==
  NoWrap /\ ~Panicked =>
    \A r \in Requests :
      call[r] \in {"queued", "waiting"} => WillHear(r)

\* A call that is about to Remove its number returns an error.
RemovingFailed ==
  \A r \in Requests : call[r] = "removing" => result[r] = Failed

IInv ==
  /\ TypeOK
  /\ RetriesBounded
  /\ Numbered
  /\ PendingIsLive
  /\ ReaderHolds
  /\ OpenIsEmpty
  /\ SettledOnce
  /\ SameNumber
  /\ NumbersInOrder
  /\ QueuedNotStranded
  /\ RemovingFailed

-----------------------------------------------------------------------------
(* What the repository says of this code and the code does not do: TLC      *)
(* refutes each of these; README.md says in which configuration.            *)

\* DESIGN.md 6.4: the done channel resolves the race between retryLoop and
\* the delivery of the answer.  In the code both may close it.
DoneClosedOnce == \A r \in Requests : closes[r] <= 1

\* README.md: requests and answers are matched reliably.  In the code a
\* number that is used again takes the late answer of its first request.
AlwaysOwnAnswer == \A r \in Requests : result[r] \in Requests => result[r] = r

\* DESIGN.md 6.3 and computeTimeout's comment: the timers are 1 s, 2 s and
\* 4 s, so none is armed after the last retransmission (MaxRetries = 3).
ThreeTimers == \A r \in Requests : loop[r] = "armed" => retries[r] < MaxRetries
=============================================================================
