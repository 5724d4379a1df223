-------------------------- MODULE MessageQueueProofs --------------------------
(***************************************************************************)
(* Proofs about MessageQueue, for every set of senders and every MaxSeq.   *)
(* QInv holds whether or not the numbers wrap; the properties about who    *)
(* waits need NumbersDiffer.  At the end, Duplex: each of its steps is a   *)
(* step of MessageQueue or leaves the queue alone.                         *)
(***************************************************************************)
EXTENDS Duplex, TLAPS

-----------------------------------------------------------------------------
(* The inductive invariant                                                 *)

\* A Send has a number once its channel is registered, and before that the
\* channel is untouched.
Fresh ==
  \A s \in Senders :
    /\ send[s] \in {"idle", "put"} => seq[s] = 0 /\ ch[s] = "empty"
    /\ send[s] \in {"write", "fail", "waiting"} => seq[s] # 0

\* A registered channel is empty, under its own number, and not taken out.
Registered ==
  \A n \in Seqs : pending[n] # NoSender =>
    /\ seq[pending[n]] = n
    /\ ch[pending[n]] = "empty"
    /\ send[pending[n]] \in {"write", "fail", "waiting"}
    /\ taken # pending[n]

\* So is the channel the dispatcher has taken out, until it sends on it.
TakenOut == taken # NoSender => ch[taken] = "empty" /\ seq[taken] # 0

ClosedInOrder == closed <=> closer # "idle"

\* Once it has registered its channel, a Send can be reached, whether or not it
\* waits already.
Reachable ==
  \A s \in Senders :
    send[s] \in {"write", "waiting"} =>
      ch[s] # "empty" \/ taken = s \/ pending[seq[s]] = s

QInv == TypeOK /\ Fresh /\ Registered /\ TakenOut /\ ClosedInOrder /\ NoPanic

-----------------------------------------------------------------------------
(* The queue                                                               *)

LEMMA FollowingInRange ==
  ASSUME NEW n \in 0..MaxSeq
  PROVE  Following(n) \in Seqs
BY MaxSeqAssumption DEF Following, Seqs

LEMMA QInvInit == Init => QInv
<1> SUFFICES ASSUME Init PROVE QInv
  OBVIOUS
<1> USE DEF Init
<1>1. TypeOK
  <2>1. /\ nextSeq \in 0..MaxSeq
        /\ seq \in [Senders -> 0..MaxSeq]
    BY MaxSeqAssumption
  <2>2. /\ pending \in [Seqs -> Senders \cup {NoSender}]
        /\ taken \in Senders \cup {NoSender}
        /\ count \in Int
    OBVIOUS
  <2>3. /\ send \in [Senders -> {"idle", "put", "write", "fail", "waiting", "failed"}]
        /\ ch \in [Senders -> {"empty", "response", "closed", "panic"}]
        /\ closed \in BOOLEAN
        /\ closer \in {"idle", "clear", "done"}
    OBVIOUS
  <2> QED
    BY <2>1, <2>2, <2>3 DEF TypeOK
<1>2. Fresh /\ Registered /\ TakenOut /\ ClosedInOrder /\ NoPanic
  BY DEF Fresh, Registered, TakenOut, ClosedInOrder, NoPanic, Seqs
<1> QED
  BY <1>1, <1>2 DEF QInv

-----------------------------------------------------------------------------
(* One lemma for each kind of step *)

\* A step of Send that leaves the queue and the channels alone.
LEMMA QInvSendStep ==
  ASSUME QInv, NEW s \in Senders, SendCheck(s) \/ Write(s)
  PROVE  QInv'
<1> DEFINE to == send'[s]
<1>1. /\ UNCHANGED <<nextSeq, seq, pending, count, ch, closed, closer, taken>>
      /\ send' = [send EXCEPT ![s] = to]
      /\ \/ send[s] = "idle" /\ to \in {"failed", "put"}
         \/ send[s] = "write" /\ to \in {"waiting", "fail"}
  BY DEF SendCheck, Write, QInv, TypeOK, queueVars
<1>2. TypeOK'
  BY <1>1 DEF QInv, TypeOK
<1>3. Fresh' /\ Registered' /\ TakenOut' /\ ClosedInOrder' /\ NoPanic'
  BY <1>1 DEF QInv, TypeOK, Fresh, Registered, TakenOut, ClosedInOrder, NoPanic
<1> QED
  BY <1>2, <1>3 DEF QInv

LEMMA QInvPut ==
  ASSUME QInv, NEW s \in Senders, Put(s)
  PROVE  QInv'
<1> DEFINE n == Following(nextSeq)
<1>1. n \in Seqs /\ n # 0
  BY FollowingInRange DEF QInv, TypeOK, Seqs
<1>2. /\ send[s] = "put" /\ nextSeq' = n
      /\ seq' = [seq EXCEPT ![s] = n]
      /\ pending' = [pending EXCEPT ![n] = s]
      /\ count' = count + 1
      /\ send' = [send EXCEPT ![s] = "write"]
      /\ UNCHANGED <<ch, closed, closer, taken>>
  BY DEF Put
<1> HIDE DEF n
<1>3. TypeOK'
  BY <1>1, <1>2 DEF QInv, TypeOK, Seqs
<1>4. \A m \in Seqs : pending[m] # s
  BY <1>2, SendersAssumption DEF QInv, Registered
<1>5. taken # s
  BY <1>2, SendersAssumption DEF QInv, TakenOut, Fresh
<1>6. Registered'
  BY <1>1, <1>2, <1>4, <1>5, SendersAssumption DEF QInv, TypeOK, Registered, Fresh
<1>7. Fresh' /\ TakenOut' /\ ClosedInOrder' /\ NoPanic'
  BY <1>1, <1>2, <1>5 DEF QInv, TypeOK, Fresh, TakenOut, ClosedInOrder, NoPanic
<1> QED
  BY <1>3, <1>6, <1>7 DEF QInv

\* A failed Send closes the channel under its number, if there is one.
LEMMA QInvSendFail ==
  ASSUME QInv, NEW s \in Senders, SendFail(s)
  PROVE  QInv'
<1> DEFINE n == seq[s]
           t == pending[n]
<1>1. /\ send[s] = "fail" /\ CompleteError(n)
      /\ send' = [send EXCEPT ![s] = "failed"]
      /\ UNCHANGED <<nextSeq, seq, closed, closer, taken>>
  BY DEF SendFail
<1>2. n \in Seqs
  BY <1>1 DEF QInv, Fresh, TypeOK, Seqs
<1>3. CASE t = NoSender
  <2>1. UNCHANGED <<ch, pending, count>>
    BY <1>1, <1>3 DEF CompleteError, queueVars
  <2>2. \A m \in Seqs : pending[m] # s
    BY <1>2, <1>3, SendersAssumption DEF QInv, Registered
  <2> QED
    BY <1>1, <2>1, <2>2 DEF QInv, TypeOK, Fresh, Registered, TakenOut, ClosedInOrder, NoPanic
<1>4. CASE t # NoSender
  <2>1. t \in Senders /\ seq[t] = n /\ ch[t] = "empty" /\ taken # t
    BY <1>2, <1>4 DEF QInv, TypeOK, Registered
  <2>2. /\ ch' = [ch EXCEPT ![t] = "closed"]
        /\ pending' = [pending EXCEPT ![n] = NoSender]
        /\ count' = count - 1
    BY <1>1, <1>4, <2>1 DEF CompleteError, Closed
  <2>3. TypeOK'
    <3>1. /\ send' \in [Senders -> {"idle", "put", "write", "fail", "waiting", "failed"}]
          /\ ch' \in [Senders -> {"empty", "response", "closed", "panic"}]
      BY <1>1, <2>1, <2>2 DEF QInv, TypeOK
    <3>2. pending' \in [Seqs -> Senders \cup {NoSender}] /\ count' \in Int
      BY <1>2, <2>2 DEF QInv, TypeOK
    <3> QED
      BY <1>1, <3>1, <3>2 DEF QInv, TypeOK
  <2>4. \A m \in Seqs : pending[m] # NoSender /\ m # n => pending[m] # t /\ pending[m] # s
    BY <2>1, <1>2 DEF QInv, Registered
  <2>5. Registered'
    BY <1>1, <1>2, <2>1, <2>2, <2>4, SendersAssumption DEF QInv, TypeOK, Registered
  <2>6. send[t] \notin {"idle", "put"}
    BY <1>2, <1>4 DEF QInv, Registered
  <2>7. Fresh' /\ TakenOut' /\ ClosedInOrder' /\ NoPanic'
    BY <1>1, <2>1, <2>2, <2>6 DEF QInv, TypeOK, Fresh, TakenOut, ClosedInOrder, NoPanic
  <2> QED
    BY <2>3, <2>5, <2>7 DEF QInv
<1> QED
  BY <1>3, <1>4

LEMMA QInvTake ==
  ASSUME QInv, NEW n \in Seqs, Take(n)
  PROVE  QInv'
<1>1. /\ taken = NoSender /\ pending[n] # NoSender
      /\ taken' = pending[n]
      /\ pending' = [pending EXCEPT ![n] = NoSender]
      /\ count' = count - 1
      /\ UNCHANGED <<nextSeq, send, seq, ch, closed, closer>>
  BY DEF Take, sendVars
<1>2. TypeOK'
  BY <1>1 DEF QInv, TypeOK
<1>3. \A m \in Seqs : m # n => pending[m] # pending[n]
  BY <1>1 DEF QInv, Registered
<1>4. Registered'
  BY <1>1, <1>3 DEF QInv, TypeOK, Registered
<1>5. Fresh' /\ TakenOut' /\ ClosedInOrder' /\ NoPanic'
  BY <1>1 DEF QInv, TypeOK, Fresh, Registered, TakenOut, ClosedInOrder, NoPanic, Seqs
<1> QED
  BY <1>2, <1>4, <1>5 DEF QInv

LEMMA QInvDeliver ==
  ASSUME QInv, Deliver
  PROVE  QInv'
<1>1. taken \in Senders /\ ch[taken] = "empty" /\ seq[taken] # 0
  BY DEF Deliver, QInv, TypeOK, TakenOut
<1>2. /\ ch' = [ch EXCEPT ![taken] = "response"]
      /\ taken' = NoSender
      /\ UNCHANGED <<nextSeq, send, seq, pending, count, closed, closer>>
  BY <1>1 DEF Deliver, Delivered, queueVars, sendVars
<1>3. TypeOK'
  BY <1>2 DEF QInv, TypeOK
<1>4. Registered'
  BY <1>1, <1>2 DEF QInv, TypeOK, Registered
<1>5. Fresh' /\ TakenOut' /\ ClosedInOrder' /\ NoPanic'
  BY <1>1, <1>2 DEF QInv, TypeOK, Fresh, TakenOut, ClosedInOrder, NoPanic
<1> QED
  BY <1>3, <1>4, <1>5 DEF QInv

LEMMA QInvClose ==
  ASSUME QInv, Close
  PROVE  QInv'
BY DEF QInv, TypeOK, Fresh, Registered, TakenOut, ClosedInOrder, NoPanic, Close,
       queueVars, sendVars

\* Clear finds only empty channels, each under one number, and none taken out.
LEMMA QInvClear ==
  ASSUME QInv, Clear
  PROVE  QInv'
<1> DEFINE In(s) == \E n \in Seqs : pending[n] = s
<1>1. /\ closer = "clear" /\ closer' = "done"
      /\ ch' = [s \in Senders |-> IF In(s) THEN Closed(ch[s]) ELSE ch[s]]
      /\ pending' = [n \in Seqs |-> NoSender]
      /\ count' = 0
      /\ UNCHANGED <<nextSeq, send, seq, closed, taken>>
  BY DEF Clear, sendVars
<1>2. \A s \in Senders : In(s) => /\ ch[s] = "empty" /\ taken # s
                                  /\ send[s] \notin {"idle", "put"}
  BY SendersAssumption DEF QInv, Registered
<1>3. \A s \in Senders : ch'[s] = IF In(s) THEN "closed" ELSE ch[s]
  BY <1>1, <1>2 DEF Closed
<1> HIDE DEF In
<1>4. ch' \in [Senders -> {"empty", "response", "closed", "panic"}]
  BY <1>1, <1>3 DEF QInv, TypeOK
<1>5. TypeOK'
  BY <1>1, <1>4 DEF QInv, TypeOK
<1>6. Registered'
  BY <1>1 DEF Registered
<1>7. Fresh' /\ TakenOut' /\ ClosedInOrder' /\ NoPanic'
  BY <1>1, <1>2, <1>3 DEF QInv, TypeOK, Fresh, TakenOut, ClosedInOrder, NoPanic
<1> QED
  BY <1>5, <1>6, <1>7 DEF QInv

LEMMA QInvStep == QInv /\ [Next]_vars => QInv'
<1> SUFFICES ASSUME QInv, [Next]_vars PROVE QInv'
  OBVIOUS
<1>1. CASE \E s \in Senders : SendCheck(s) \/ Put(s) \/ Write(s) \/ SendFail(s)
  BY <1>1, QInvSendStep, QInvPut, QInvSendFail
<1>2. CASE \E n \in Seqs : Take(n)
  BY <1>2, QInvTake
<1>3. CASE Deliver
  BY <1>3, QInvDeliver
<1>4. CASE Close
  BY <1>4, QInvClose
<1>5. CASE Clear
  BY <1>5, QInvClear
<1>6. CASE UNCHANGED vars
  BY <1>6 DEF vars, queueVars, sendVars, QInv, TypeOK, Fresh, Registered, TakenOut,
              ClosedInOrder, NoPanic
<1> QED
  BY <1>1, <1>2, <1>3, <1>4, <1>5, <1>6 DEF Next

-----------------------------------------------------------------------------
(* Who waits, while no number is given out twice *)

\* Only Put replaces an entry of the queue, and then one of the same number.
LEMMA ReachableStep ==
  QInv /\ Reachable /\ NumbersDiffer' /\ [Next]_vars => Reachable'
<1> SUFFICES ASSUME QInv, Reachable, NumbersDiffer', [Next]_vars PROVE Reachable'
  OBVIOUS
<1>0. QInv'
  BY QInvStep
<1>1. ASSUME NEW s \in Senders, SendCheck(s) \/ Write(s) PROVE Reachable'
  BY <1>1 DEF SendCheck, Write, QInv, TypeOK, Reachable, queueVars
<1>2. ASSUME NEW s \in Senders, Put(s) PROVE Reachable'
  <2> DEFINE n == Following(nextSeq)
  <2>1. n \in Seqs /\ n # 0
    BY FollowingInRange DEF QInv, TypeOK, Seqs
  <2>2. /\ seq' = [seq EXCEPT ![s] = n]
        /\ pending' = [pending EXCEPT ![n] = s]
        /\ send' = [send EXCEPT ![s] = "write"]
        /\ UNCHANGED <<ch, taken>>
    BY <1>2 DEF Put
  <2> HIDE DEF n
  <2>3. SUFFICES ASSUME NEW t \in Senders, t # s, send[t] \in {"write", "waiting"},
                        ch[t] = "empty", taken # t
                 PROVE  pending'[seq'[t]] = t
    BY <2>1, <2>2 DEF QInv, TypeOK, Reachable
  <2>4. seq[t] \in Seqs /\ pending[seq[t]] = t
    BY <2>3 DEF Reachable, QInv, TypeOK, Fresh, Seqs
  <2>5. seq'[t] = seq[t] /\ seq'[s] = n
    BY <2>2, <2>3 DEF QInv, TypeOK
  <2>6. seq[t] # n
    BY <2>1, <2>3, <2>5 DEF NumbersDiffer
  <2> QED
    BY <2>1, <2>2, <2>4, <2>5, <2>6 DEF QInv, TypeOK
<1>3. ASSUME NEW s \in Senders, SendFail(s) PROVE Reachable'
  <2>1. /\ send' = [send EXCEPT ![s] = "failed"] /\ UNCHANGED <<seq, taken>>
        /\ CompleteError(seq[s]) /\ seq[s] \in Seqs
    BY <1>3 DEF SendFail, QInv, Fresh, TypeOK, Seqs
  <2>2. CASE pending[seq[s]] = NoSender
    BY <2>1, <2>2 DEF CompleteError, QInv, TypeOK, Reachable, queueVars
  <2>3. CASE pending[seq[s]] # NoSender
    <3> DEFINE u == pending[seq[s]]
    <3>1. /\ ch' = [ch EXCEPT ![u] = "closed"]
          /\ pending' = [pending EXCEPT ![seq[s]] = NoSender]
          /\ u \in Senders
      BY <2>1, <2>3 DEF CompleteError, Closed, QInv, TypeOK, Registered
    <3> HIDE DEF u
    <3>2. SUFFICES ASSUME NEW t \in Senders, t # s, send[t] \in {"write", "waiting"},
                          ch[t] = "empty", taken # t, t # u
                   PROVE  pending'[seq[t]] = t
      BY <2>1, <3>1 DEF QInv, TypeOK, Reachable
    <3>3. pending[seq[t]] = t /\ seq[t] \in Seqs
      BY <3>2 DEF Reachable, QInv, TypeOK, Fresh, Seqs
    <3>4. seq[t] # seq[s]
      BY <3>2, <3>3 DEF u
    <3> QED
      BY <2>1, <3>1, <3>3, <3>4 DEF QInv, TypeOK
  <2> QED
    BY <2>2, <2>3
<1>4. ASSUME NEW n \in Seqs, Take(n) PROVE Reachable'
  <2>1. /\ taken = NoSender /\ taken' = pending[n]
        /\ pending' = [pending EXCEPT ![n] = NoSender]
        /\ UNCHANGED <<send, seq, ch>>
    BY <1>4 DEF Take, sendVars
  <2>2. SUFFICES ASSUME NEW t \in Senders, send[t] \in {"write", "waiting"},
                        ch[t] = "empty", pending[n] # t
                 PROVE  pending'[seq[t]] = t
    BY <2>1 DEF Reachable
  <2>3. pending[seq[t]] = t /\ seq[t] \in Seqs
    BY <2>1, <2>2, SendersAssumption DEF Reachable, QInv, TypeOK, Fresh, Seqs
  <2> QED
    BY <2>1, <2>2, <2>3 DEF QInv, TypeOK
<1>5. CASE Deliver
  BY <1>5 DEF Deliver, Delivered, QInv, TypeOK, TakenOut, Reachable, queueVars, sendVars
<1>6. CASE Clear
  <2>1. SUFFICES ASSUME NEW t \in Senders, send[t] \in {"write", "waiting"}, taken # t,
                        ch[t] = "empty"
                 PROVE  ch'[t] # "empty"
    BY <1>6 DEF Clear, Closed, Reachable, QInv, TypeOK, sendVars
  <2>2. \E n \in Seqs : pending[n] = t
    BY <2>1 DEF Reachable, QInv, TypeOK, Fresh, Seqs
  <2> QED
    BY <1>6, <2>2 DEF Clear, Closed
<1>7. CASE Close \/ UNCHANGED vars
  BY <1>7 DEF Close, Reachable, vars, queueVars, sendVars
<1> QED
  BY <1>1, <1>2, <1>3, <1>4, <1>5, <1>6, <1>7 DEF Next

\* Nobody begins to wait once the Conn is closed, and Clear finds all the others.
LEMMA NoneWaitsStep ==
  QInv /\ Reachable /\ NoneWaitsOnClosed /\ [Next]_vars => NoneWaitsOnClosed'
<1> SUFFICES ASSUME QInv, Reachable, NoneWaitsOnClosed, [Next]_vars, closer' = "done",
                    NEW t \in Senders, send'[t] = "waiting"
             PROVE  ch'[t] # "empty" \/ taken' = t
  BY DEF NoneWaitsOnClosed
<1>1. CASE Clear
  <2>1. send[t] = "waiting" /\ taken' = taken
    BY <1>1 DEF Clear, sendVars
  <2>2. ch[t] # "empty" \/ taken = t \/ \E n \in Seqs : pending[n] = t
    BY <2>1 DEF Reachable, QInv, TypeOK, Fresh, Seqs
  <2> QED
    BY <1>1, <2>1, <2>2 DEF Clear, Closed
<1>2. CASE ~Clear
  <2>1. closer = "done"
    BY <1>2 DEF Next, vars, SendCheck, Put, Write, SendFail, Take, Deliver, Close, sendVars
  <2>2. closed
    BY <2>1 DEF QInv, ClosedInOrder
  <2>3. send[t] = "waiting"
    BY <2>2 DEF Next, vars, SendCheck, Put, Write, SendFail, Take, Deliver, Close, Clear,
                sendVars, QInv, TypeOK
  <2>4. ch[t] # "empty" \/ taken = t
    BY <2>1, <2>3 DEF NoneWaitsOnClosed
  <2>5. CASE \E s \in Senders : SendCheck(s) \/ Put(s) \/ Write(s)
    BY <2>4, <2>5 DEF SendCheck, Put, Write
  <2>6. CASE \E s \in Senders : SendFail(s)
    BY <2>4, <2>6 DEF SendFail, CompleteError, Closed, QInv, TypeOK, queueVars
  <2>7. CASE \E n \in Seqs : Take(n)
    BY <2>4, <2>7, SendersAssumption DEF Take
  <2>8. CASE Deliver
    BY <2>4, <2>8 DEF Deliver, Delivered, QInv, TypeOK
  <2>9. CASE Close \/ UNCHANGED vars
    BY <2>4, <2>9 DEF Close, vars
  <2> QED
    BY <1>2, <2>5, <2>6, <2>7, <2>8, <2>9 DEF Next
<1> QED
  BY <1>1, <1>2

-----------------------------------------------------------------------------
(* The theorems *)

\* The invariant of message_queue.go's users holds in every run.
THEOREM QueueInvariant == Spec => []QInv
BY QInvInit, QInvStep, PTL DEF Spec

\* However Complete, CompleteError and Clear race, no channel is closed twice or
\* sent on once closed.
THEOREM QueueNeverPanics == Spec => []NoPanic
BY QueueInvariant, PTL DEF QInv

\* The two properties about who waits, from the three lemmas.
LEMMA WaitingInvariants ==
  Spec /\ []NumbersDiffer => [](Reachable /\ NoneWaitsOnClosed)
<1>1. Init => Reachable /\ NoneWaitsOnClosed
  BY DEF Init, Reachable, NoneWaitsOnClosed
<1>2. QInv /\ Reachable /\ NoneWaitsOnClosed /\ NumbersDiffer' /\ [Next]_vars
        => Reachable' /\ NoneWaitsOnClosed'
  BY ReachableStep, NoneWaitsStep
<1> QED
  BY <1>1, <1>2, QueueInvariant, PTL DEF Spec

\* Until the numbers of Conn.Send wrap, the channel of each Send that waits is
\* still in somebody's hands.
THEOREM WaitersAlwaysReachable == Spec /\ []NumbersDiffer => []WaitersReachable
<1>1. Reachable => WaitersReachable
  BY DEF Reachable, WaitersReachable
<1> QED
  BY <1>1, WaitingInvariants, PTL

\* Until then, Conn.Close leaves no Send behind that waits for ever.
THEOREM CloseLeavesNoWaiter == Spec /\ []NumbersDiffer => []NoneWaitsOnClosed
BY WaitingInvariants, PTL

-----------------------------------------------------------------------------
(* Duplex *)

\* What the goroutines of Send do is Send.
LEMMA SendingRefines ==
  ASSUME NEW s \in Senders, Sending(s) \/ Writing(s)
  PROVE  Next
BY DEF Sending, Writing, Next

\* The read loop takes responses out, delivers them and closes the Conn.
LEMMA ReadLoopRefines == ReadLoop => [Next]_vars
<1> SUFFICES ASSUME ReadLoop PROVE [Next]_vars
  OBVIOUS
<1>1. CASE \E n \in Seqs : ReadResponse(n)
  BY <1>1 DEF ReadResponse, Next
<1>2. CASE DeliverResponse
  BY <1>2 DEF DeliverResponse, Next
<1>3. CASE ServeCloses
  BY <1>3 DEF ServeCloses, Next
<1>4. CASE \/ DropResponse \/ PassRequest \/ HandlerReturns \/ ReadEnd
           \/ \E h \in Handlers : RunHandler(h)
  BY <1>4 DEF DropResponse, PassRequest, HandlerReturns, ReadEnd, RunHandler
<1> QED
  BY <1>1, <1>2, <1>3, <1>4 DEF ReadLoop

LEMMA DuplexStepRefines == [DuplexNext]_duplexVars => [Next]_vars
<1> SUFFICES ASSUME [DuplexNext]_duplexVars PROVE [Next]_vars
  OBVIOUS
<1>1. CASE \E s \in Senders : Sending(s) \/ Writing(s)
  BY <1>1, SendingRefines
<1>2. CASE ReadLoop
  BY <1>2, ReadLoopRefines
<1>3. CASE AppCloses \/ Clearing
  BY <1>3 DEF AppCloses, Clearing, Next
<1>4. CASE PeerGoes \/ \E n \in Seqs \cup {0} : PeerSends(n)
  BY <1>4 DEF PeerGoes, PeerSends
<1>5. CASE UNCHANGED duplexVars
  BY <1>5 DEF duplexVars
<1> QED
  BY <1>1, <1>2, <1>3, <1>4, <1>5 DEF DuplexNext

\* A connection whose bridge hands responses to its queue uses the queue as
\* MessageQueue says.
THEOREM DuplexImplementsQueue == DuplexSpec => Spec
<1>1. DuplexInit => Init
  BY DEF DuplexInit
<1> QED
  BY <1>1, DuplexStepRefines, PTL DEF DuplexSpec, Spec

\* Neither the read loop's deliveries nor the handlers' own calls of Send make a
\* channel of Send be closed twice or sent on once closed.
THEOREM DuplexNeverPanics == DuplexSpec => []NoPanic
BY DuplexImplementsQueue, QueueNeverPanics, PTL

\* Until the numbers wrap no Send on the connection is forgotten by the queue.
THEOREM DuplexWaitersReachable == DuplexSpec /\ []NumbersDiffer => []WaitersReachable
BY DuplexImplementsQueue, WaitersAlwaysReachable, PTL

\* Until then, whoever closes the connection leaves nobody waiting.
THEOREM DuplexCloseLeavesNoWaiter == DuplexSpec /\ []NumbersDiffer => []NoneWaitsOnClosed
BY DuplexImplementsQueue, CloseLeavesNoWaiter, PTL
=============================================================================
