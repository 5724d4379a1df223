---------------------------- MODULE MessageQueue ----------------------------
(***************************************************************************)
(* api.MessageQueue (message_queue.go) with those who use it on one Conn:  *)
(* the goroutines in Conn.Send, the dispatcher, which completes what a     *)
(* response answers, and Conn.Close, which clears the queue                *)
(* (conn/connection.go).  The queue's methods are atomic under its mutex,  *)
(* apart from the dispatcher's send on a channel it has taken out.         *)
(*                                                                         *)
(* Sequence numbers come from nextSendSeq, here this Conn's alone, which   *)
(* wraps around at MaxSeq and skips 0.                                     *)
(***************************************************************************)
EXTENDS Integers

CONSTANTS Senders,  \* calls of Send, each with its channel
          NoSender, \* no call
          MaxSeq    \* the largest sequence number

ASSUME SendersAssumption == NoSender \notin Senders
ASSUME MaxSeqAssumption == MaxSeq \in Nat \ {0}

Seqs == 1..MaxSeq

VARIABLES
  nextSeq,   \* nextSendSeq
  pending,   \* MessageQueue.pending: whose channel waits for a number
  count,     \* MessageQueue.count
  send,      \* where each Send is
  seq,       \* its number
  ch,        \* its channel: nothing in it yet, a response, or closed
  closed,    \* Conn.closed
  closer,    \* where Conn.Close is
  taken      \* whose channel the dispatcher is about to send on

vars == <<nextSeq, pending, count, send, seq, ch, closed, closer, taken>>
queueVars == <<pending, count>>
sendVars == <<nextSeq, send, seq>>

TypeOK ==
  /\ nextSeq \in 0..MaxSeq
  /\ pending \in [Seqs -> Senders \cup {NoSender}]
  /\ count \in Int
  /\ send \in [Senders -> {"idle", "put", "write", "fail", "waiting", "failed"}]
  /\ seq \in [Senders -> 0..MaxSeq]
  /\ ch \in [Senders -> {"empty", "response", "closed", "panic"}]
  /\ closed \in BOOLEAN
  /\ closer \in {"idle", "clear", "done"}
  /\ taken \in Senders \cup {NoSender}

Init ==
  /\ nextSeq = 0
  /\ pending = [n \in Seqs |-> NoSender] /\ count = 0
  /\ send = [s \in Senders |-> "idle"]
  /\ seq = [s \in Senders |-> 0]
  /\ ch = [s \in Senders |-> "empty"]
  /\ closed = FALSE /\ closer = "idle"
  /\ taken = NoSender

\* What a second close, or a send on a closed channel, does.
Closed(c) == IF c = "closed" THEN "panic" ELSE "closed"
Delivered(c) == IF c = "closed" THEN "panic" ELSE "response"

-----------------------------------------------------------------------------
(* Conn.Send *)

\* Send looks whether the Conn is closed.
SendCheck(s) ==
  /\ send[s] = "idle"
  /\ send' = [send EXCEPT ![s] = IF closed THEN "failed" ELSE "put"]
  /\ UNCHANGED <<nextSeq, seq, queueVars, ch, closed, closer, taken>>

Following(n) == IF n = MaxSeq THEN 1 ELSE n + 1

\* It takes a number and registers its channel; capacity 0 is no limit.  A
\* channel registered under the number is replaced, and counted all the same.
Put(s) ==
  /\ send[s] = "put"
  /\ LET n == Following(nextSeq)
     IN  /\ nextSeq' = n
         /\ seq' = [seq EXCEPT ![s] = n]
         /\ pending' = [pending EXCEPT ![n] = s]
  /\ count' = count + 1
  /\ send' = [send EXCEPT ![s] = "write"]
  /\ UNCHANGED <<ch, closed, closer, taken>>

\* A plausible slip: WritePacket does not look at the closed flag.
WriteUnchecked(s) ==
  /\ send[s] = "write"
  /\ send' = [send EXCEPT ![s] = "waiting"]
  /\ UNCHANGED <<nextSeq, seq, queueVars, ch, closed, closer, taken>>

\* WritePacket, which may also fail while the Conn is open.
Write(s) ==
  /\ send[s] = "write"
  /\ \E to \in IF closed THEN {"fail"} ELSE {"waiting", "fail"} :
       send' = [send EXCEPT ![s] = to]
  /\ UNCHANGED <<nextSeq, seq, queueVars, ch, closed, closer, taken>>

\* A plausible slip: the channel stays in the queue.
CompleteErrorKeeps(n) ==
  IF pending[n] # NoSender
  THEN /\ ch' = [ch EXCEPT ![pending[n]] = Closed(@)]
       /\ UNCHANGED queueVars
  ELSE UNCHANGED <<ch, queueVars>>

CompleteError(n) ==
  IF pending[n] # NoSender
  THEN /\ ch' = [ch EXCEPT ![pending[n]] = Closed(@)]
       /\ pending' = [pending EXCEPT ![n] = NoSender]
       /\ count' = count - 1
  ELSE UNCHANGED <<ch, queueVars>>

SendFail(s) ==
  /\ send[s] = "fail"
  /\ CompleteError(seq[s])
  /\ send' = [send EXCEPT ![s] = "failed"]
  /\ UNCHANGED <<nextSeq, seq, closed, closer, taken>>

-----------------------------------------------------------------------------
(* Responses and Close *)

\* A response arrives, answering a request, answering it once more, or with a
\* number of the peer's own invention: Complete takes the channel out ...
Take(n) ==
  /\ taken = NoSender
  /\ pending[n] # NoSender
  /\ taken' = pending[n]
  /\ pending' = [pending EXCEPT ![n] = NoSender]
  /\ count' = count - 1
  /\ UNCHANGED <<sendVars, ch, closed, closer>>

\* ... and sends on it, after it has released the mutex.
Deliver ==
  /\ taken # NoSender
  /\ ch' = [ch EXCEPT ![taken] = Delivered(@)]
  /\ taken' = NoSender
  /\ UNCHANGED <<queueVars, sendVars, closed, closer>>

\* Conn.Close sets the flag ...
Close ==
  /\ closer = "idle"
  /\ closed' = TRUE
  /\ closer' = "clear"
  /\ UNCHANGED <<queueVars, sendVars, ch, taken>>

\* A plausible slip: the queue is emptied, its channels are not closed.
ClearSilently ==
  /\ closer = "clear"
  /\ pending' = [n \in Seqs |-> NoSender]
  /\ count' = 0
  /\ closer' = "done"
  /\ UNCHANGED <<ch, sendVars, closed, taken>>

\* ... and clears the queue.
Clear ==
  /\ closer = "clear"
  /\ ch' = [s \in Senders |-> IF \E n \in Seqs : pending[n] = s THEN Closed(ch[s]) ELSE ch[s]]
  /\ pending' = [n \in Seqs |-> NoSender]
  /\ count' = 0
  /\ closer' = "done"
  /\ UNCHANGED <<sendVars, closed, taken>>

-----------------------------------------------------------------------------
Next ==
  \/ \E s \in Senders : SendCheck(s) \/ Put(s) \/ Write(s) \/ SendFail(s)
  \/ \E n \in Seqs : Take(n)
  \/ Deliver
  \/ Close \/ Clear

Spec == Init /\ [][Next]_vars

\* Every goroutine that has begun goes on; nobody must send, respond or close.
FairSpec ==
  /\ Spec
  /\ \A s \in Senders : WF_vars(Put(s) \/ Write(s) \/ SendFail(s))
  /\ WF_vars(Deliver)
  /\ WF_vars(Clear)

-----------------------------------------------------------------------------
(* Correctness.  WaitersReachable and NoneWaitsOnClosed hold while no       *)
(* number is given out twice, which takes MaxSeq calls of Send: with more   *)
(* of them Put may replace a channel somebody waits for.                    *)

NumbersDiffer == \A s, t \in Senders : seq[s] # 0 /\ seq[s] = seq[t] => s = t

\* Response, error and Close race for the channels, and no channel is closed
\* twice or sent on once it is closed.
NoPanic == \A s \in Senders : ch[s] # "panic"

\* A Send that was given no error waits for something: its channel holds the
\* response or is closed, or the dispatcher, or somebody with its number, will
\* still get to it.
WaitersReachable ==
  \A s \in Senders :
    send[s] = "waiting" =>
      ch[s] # "empty" \/ taken = s \/ pending[seq[s]] = s

\* When Close has returned no channel is left that nobody will ever close,
\* although a Send may have registered its channel after Clear.
NoneWaitsOnClosed ==
  closer = "done" =>
    \A s \in Senders : send[s] = "waiting" => ch[s] # "empty" \/ taken = s
=============================================================================
