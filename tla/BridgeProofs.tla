----------------------------- MODULE BridgeProofs -----------------------------
(***************************************************************************)
(* Proofs about Bridge, for any number of frames, writes of the            *)
(* application and places in writeCh.                                      *)
(***************************************************************************)
EXTENDS Bridge, SequenceTheorems, TLAPS

USE BoundsAssumption, CapacityAssumption

-----------------------------------------------------------------------------
(* The inductive invariant                                                 *)

\* The frame the read loop works on is not answered yet, and not handled before
\* its handler was called.
InHand ==
  /\ reader \in {"filtering", "handling", "answering", "refusing", "failing"} =>
       read # 0 /\ out # read /\ read \notin ToSet(queue) \cup ToSet(wire)
  /\ reader \in {"filtering", "handling", "failing"} => read \notin handled
  /\ reader = "answering" => ViaQueue(read)
  /\ reader = "refusing" => kind[read] = "failing"
  /\ reader = "failing" => kind[read] = "garbled"

\* What is in the channel and behind it are answers of handlers.
InChannel == \A n \in (ToSet(queue) \cup {out}) \ {0} : ViaQueue(n)

OutWhileWriting == writer # "writing" => out = 0

\* The answers are in turn from the end of the channel to the wire.
ChannelInTurn ==
  /\ \A i, j \in DOMAIN queue : i < j /\ queue[i] # 0 /\ queue[j] # 0 => queue[i] < queue[j]
  /\ out # 0 => \A m \in ToSet(queue) \ {0} : out < m
  /\ \A n \in ToSet(wire) : ViaQueue(n) => \A m \in (ToSet(queue) \cup {out}) \ {0} : n < m

BridgeInv ==
  /\ TypeOK /\ InHand /\ InChannel /\ OutWhileWriting /\ ChannelInTurn
  /\ AnswersInTurn /\ AnsweredOnce /\ NoAnswerVanishes


-----------------------------------------------------------------------------
(* Sequences and their elements *)

LEMMA AppendElements ==
  ASSUME NEW S, NEW s \in Seq(S), NEW x \in S
  PROVE  /\ Append(s, x) \in Seq(S) /\ ToSet(Append(s, x)) = ToSet(s) \cup {x}
         /\ Len(s) \in Nat /\ Len(Append(s, x)) = Len(s) + 1
         /\ DOMAIN s = 1..Len(s) /\ DOMAIN Append(s, x) = 1..(Len(s) + 1)
         /\ \A i \in 1..Len(s) : Append(s, x)[i] = s[i]
         /\ Append(s, x)[Len(s) + 1] = x
<1>1. /\ Append(s, x) \in Seq(S) /\ Len(Append(s, x)) = Len(s) + 1 /\ Len(s) \in Nat
      /\ \A i \in 1..Len(s) : Append(s, x)[i] = s[i]
      /\ Append(s, x)[Len(s) + 1] = x
  BY AppendProperties, LenProperties
<1>2. DOMAIN Append(s, x) = 1..(Len(s) + 1) /\ DOMAIN s = 1..Len(s)
  BY <1>1, LenProperties
<1>3. 1..(Len(s) + 1) = 1..Len(s) \cup {Len(s) + 1}
  BY <1>1
<1>4. ToSet(Append(s, x)) = ToSet(s) \cup {x}
  BY <1>1, <1>2, <1>3 DEF ToSet
<1> QED
  BY <1>1, <1>2, <1>4

LEMMA TailElements ==
  ASSUME NEW S, NEW s \in Seq(S), s # <<>>
  PROVE  /\ Tail(s) \in Seq(S) /\ Head(s) \in S /\ Head(s) = s[1]
         /\ Len(s) \in Nat \ {0} /\ Len(Tail(s)) = Len(s) - 1
         /\ DOMAIN s = 1..Len(s) /\ DOMAIN Tail(s) = 1..(Len(s) - 1)
         /\ \A i \in 1..(Len(s) - 1) : Tail(s)[i] = s[i + 1]
         /\ ToSet(s) = ToSet(Tail(s)) \cup {Head(s)}
<1>1. /\ Tail(s) \in Seq(S) /\ Head(s) \in S /\ Head(s) = s[1]
      /\ Len(Tail(s)) = Len(s) - 1 /\ \A i \in 1..Len(Tail(s)) : Tail(s)[i] = s[i + 1]
  BY HeadTailProperties, EmptySeq
<1>2. Len(s) \in Nat \ {0} /\ DOMAIN s = 1..Len(s) /\ DOMAIN Tail(s) = 1..Len(Tail(s))
  BY <1>1, LenProperties, EmptySeq
<1>3. ToSet(Tail(s)) \cup {Head(s)} \subseteq ToSet(s)
  <2>1. 1 \in DOMAIN s /\ \A i \in DOMAIN Tail(s) : i + 1 \in DOMAIN s
    BY <1>1, <1>2
  <2>2. \A i \in DOMAIN Tail(s) : Tail(s)[i] \in ToSet(s)
    BY <1>1, <1>2, <2>1 DEF ToSet
  <2>3. ToSet(Tail(s)) \subseteq ToSet(s)
    BY <2>2 DEF ToSet
  <2>4. s[1] \in ToSet(s)
    BY <2>1 DEF ToSet
  <2>5. Head(s) \in ToSet(s)
    BY ONLY <1>1, <2>4
  <2> QED
    BY ONLY <2>3, <2>5
<1>4. ToSet(s) \subseteq ToSet(Tail(s)) \cup {Head(s)}
  <2>1. \A i \in 1..Len(s) : i = 1 \/ (i - 1 \in 1..Len(Tail(s)) /\ s[i] = Tail(s)[i - 1])
    BY <1>1, <1>2
  <2>2. \A i \in 1..Len(Tail(s)) : Tail(s)[i] \in ToSet(Tail(s))
    BY <1>2 DEF ToSet
  <2>3. \A i \in DOMAIN s : s[i] \in ToSet(Tail(s)) \cup {Head(s)}
    BY <1>1, <1>2, <2>1, <2>2
  <2> QED
    BY <2>3 DEF ToSet
<1> QED
  BY <1>1, <1>2, <1>3, <1>4

LEMMA SeqWidens ==
  ASSUME NEW m \in Nat, NEW n \in Nat, m <= n, NEW s \in Seq(0..m)
  PROVE  s \in Seq(0..n)
<1>1. s \in [1..Len(s) -> 0..m] /\ Len(s) \in Nat
  BY LenProperties
<1>2. 0..m \subseteq 0..n
  OBVIOUS
<1>3. s \in [1..Len(s) -> 0..n]
  BY <1>1, <1>2
<1> QED
  BY <1>1, <1>3, SeqDef

\* Where the pieces of the state lie.
LEMMA Places ==
  ASSUME TypeOK
  PROVE  /\ read \in Nat /\ read <= Len(kind) /\ Len(kind) \in Nat
         /\ ToSet(queue) \subseteq 0..read /\ ToSet(wire) \subseteq 0..read
         /\ DOMAIN queue = 1..Len(queue) /\ DOMAIN wire = 1..Len(wire)
         /\ Len(queue) \in Nat /\ Len(wire) \in Nat
         /\ \A i \in DOMAIN wire : wire[i] \in ToSet(wire) /\ wire[i] \in 0..read
         /\ \A i \in DOMAIN queue : queue[i] \in ToSet(queue) /\ queue[i] \in 0..read
<1>1. kind \in Seq(Kinds) /\ queue \in Seq(0..read) /\ wire \in Seq(0..read) /\ read \in 0..Len(kind)
  BY DEF TypeOK
<1>2. Len(kind) \in Nat
  BY <1>1, LenProperties
<1>3. \A s \in Seq(0..read) :
        /\ Len(s) \in Nat /\ DOMAIN s = 1..Len(s)
        /\ \A i \in DOMAIN s : s[i] \in 0..read
  BY LenProperties, ElementOfSeq
<1> QED
  BY <1>1, <1>2, <1>3 DEF ToSet

-----------------------------------------------------------------------------
(* The steps *)

LEMMA BridgeInit == Init => BridgeInv
<1> SUFFICES ASSUME Init PROVE BridgeInv
  OBVIOUS
<1> USE DEF Init
<1>1. \A S : <<>> \in Seq(S)
  BY EmptySeq
<1>2. Len(<<>>) = 0 /\ DOMAIN <<>> = {} /\ ToSet(<<>>) = {}
  BY DEF ToSet
<1>3. TypeOK
  <2>1. /\ kind \in Seq(Kinds) /\ Len(kind) <= MaxFrames /\ read \in 0..Len(kind)
        /\ queue \in Seq(0..read) /\ Len(queue) <= Capacity /\ wire \in Seq(0..read)
        /\ out \in 0..read /\ pushes \in 0..MaxPushes
    BY <1>1, <1>2
  <2> QED
    BY <2>1 DEF TypeOK
<1>4. InHand /\ InChannel /\ OutWhileWriting
  BY <1>2 DEF InHand, InChannel, OutWhileWriting
<1>5. ChannelInTurn /\ AnswersInTurn /\ AnsweredOnce /\ NoAnswerVanishes
  BY <1>2 DEF ChannelInTurn, AnswersInTurn, AnsweredOnce, NoAnswerVanishes
<1> QED
  BY <1>3, <1>4, <1>5 DEF BridgeInv

\* Steps that pass nothing on leave the order of the answers alone.
LEMMA QuietKeeps ==
  ASSUME BridgeInv, TypeOK',
         UNCHANGED <<kind, read, handled, queue, skipped, wire, out>>,
         writer' = writer \/ (writer # "writing" /\ writer' = "ended"),
         \/ reader' = reader
         \/ /\ reader # "answering"
            /\ reader' \notin {"filtering", "answering", "refusing", "failing"}
            /\ reader' = "handling" => reader = "filtering"
  PROVE  BridgeInv'
<1> USE DEF BridgeInv
<1>1. \A n : ViaQueue(n)' <=> ViaQueue(n)
  BY DEF ViaQueue
<1>2. InHand'
  BY <1>1 DEF InHand
<1>3. InChannel' /\ OutWhileWriting'
  BY <1>1 DEF InChannel, OutWhileWriting
<1>4. ChannelInTurn' /\ AnswersInTurn' /\ AnsweredOnce'
  BY <1>1 DEF ChannelInTurn, AnswersInTurn, AnsweredOnce
<1>5. NoAnswerVanishes'
  BY <1>1 DEF NoAnswerVanishes
<1> QED
  BY <1>2, <1>3, <1>4, <1>5

QuietStep ==
  \/ CheckStop \/ ReadEnd \/ Filter \/ CloseFatal \/ Leave \/ Unwind \/ End
  \/ WriterEnds \/ Stop \/ CloseConn \/ SetCodec
  \/ \E p \in {"stalled", "eof", "reset"} : PeerTurns(p)

LEMMA QuietSteps == BridgeInv /\ QuietStep => BridgeInv'
<1> SUFFICES ASSUME BridgeInv, QuietStep PROVE BridgeInv'
  OBVIOUS
<1> USE DEF BridgeInv, peerVars, connVars, readVars, queueVars, writeVars, appVars
<1>1. CASE CheckStop \/ ReadEnd \/ Filter \/ CloseFatal
  <2>1. CASE CheckStop
    <3>1. TypeOK'
      BY <2>1 DEF TypeOK, CheckStop
    <3> QED
      BY <2>1, <3>1, QuietKeeps DEF CheckStop
  <2>2. CASE ReadEnd
    <3>1. TypeOK'
      BY <2>2 DEF TypeOK, ReadEnd
    <3> QED
      BY <2>2, <3>1, QuietKeeps DEF ReadEnd
  <2>3. CASE Filter
    <3>1. TypeOK'
      BY <2>3 DEF TypeOK, Filter
    <3> QED
      BY <2>3, <3>1, QuietKeeps DEF Filter
  <2>4. CASE CloseFatal
    <3>1. TypeOK'
      BY <2>4 DEF TypeOK, CloseFatal
    <3> QED
      BY <2>4, <3>1, QuietKeeps DEF CloseFatal
  <2> QED
    BY <1>1, <2>1, <2>2, <2>3, <2>4
<1>2. CASE Leave \/ Unwind \/ End
  <2>1. CASE Leave
    <3>1. TypeOK'
      BY <2>1 DEF TypeOK, Leave
    <3> QED
      BY <2>1, <3>1, QuietKeeps DEF Leave
  <2>2. CASE Unwind
    <3>1. TypeOK'
      BY <2>2 DEF TypeOK, Unwind
    <3> QED
      BY <2>2, <3>1, QuietKeeps DEF Unwind
  <2>3. CASE End
    <3>1. TypeOK'
      BY <2>3 DEF TypeOK, End
    <3> QED
      BY <2>3, <3>1, QuietKeeps DEF End
  <2> QED
    BY <1>2, <2>1, <2>2, <2>3
<1>3. CASE WriterEnds \/ Stop \/ CloseConn \/ SetCodec
  <2>1. CASE WriterEnds
    <3>1. TypeOK'
      BY <2>1 DEF TypeOK, WriterEnds
    <3> QED
      BY <2>1, <3>1, QuietKeeps DEF WriterEnds
  <2>2. CASE Stop
    <3>1. TypeOK'
      BY <2>2 DEF TypeOK, Stop
    <3> QED
      BY <2>2, <3>1, QuietKeeps DEF Stop
  <2>3. CASE CloseConn
    <3>1. TypeOK'
      BY <2>3 DEF TypeOK, CloseConn
    <3> QED
      BY <2>3, <3>1, QuietKeeps DEF CloseConn
  <2>4. CASE SetCodec
    <3>1. TypeOK'
      BY <2>4 DEF TypeOK, SetCodec
    <3> QED
      BY <2>4, <3>1, QuietKeeps DEF SetCodec
  <2> QED
    BY <1>3, <2>1, <2>2, <2>3, <2>4
<1>4. ASSUME NEW p \in {"stalled", "eof", "reset"}, PeerTurns(p) PROVE BridgeInv'
  <2>1. TypeOK'
    BY <1>4 DEF TypeOK, PeerTurns
  <2> QED
    BY <1>4, <2>1, QuietKeeps DEF PeerTurns
<1> QED
  BY <1>1, <1>2, <1>3, <1>4 DEF QuietStep

\* The peer sends another frame; what was read is what it was.
LEMMA PeerSendsStep ==
  ASSUME BridgeInv, NEW k \in Kinds, PeerSends(k)
  PROVE  BridgeInv'
<1> USE DEF BridgeInv
<1>1. /\ kind' = Append(kind, k) /\ Len(kind) < MaxFrames
      /\ UNCHANGED <<connVars, readVars, queueVars, writeVars, wire, appVars, done>>
      /\ peer' = peer
  BY DEF PeerSends
<1>2. kind \in Seq(Kinds) /\ read \in 0..Len(kind)
  BY DEF TypeOK
<1>3. /\ kind' \in Seq(Kinds) /\ Len(kind) \in Nat /\ Len(kind') = Len(kind) + 1
      /\ \A n \in 1..Len(kind) : kind'[n] = kind[n]
  BY <1>1, <1>2, AppendElements
<1>4. \A n \in 1..read : kind'[n] = kind[n]
  BY <1>2, <1>3
<1>5. \A n \in 0..read : ViaQueue(n)' <=> ViaQueue(n)
  BY <1>1, <1>2, <1>4 DEF ViaQueue, readVars
<1>6. TypeOK'
  BY <1>1, <1>2, <1>3 DEF TypeOK, connVars, readVars, queueVars, writeVars, appVars
<1> USE <1>1 DEF readVars, queueVars, writeVars
<1>7. InHand'
  BY <1>2, <1>4, <1>5 DEF InHand
<1>8. InChannel' /\ OutWhileWriting'
  BY <1>5, Places DEF InChannel, OutWhileWriting, TypeOK
<1>9. ChannelInTurn'
  BY <1>5, Places DEF ChannelInTurn
<1>10. AnswersInTurn' /\ AnsweredOnce'
  BY <1>4, <1>5, Places DEF AnswersInTurn, AnsweredOnce
<1>11. NoAnswerVanishes'
  <2>1. handled \subseteq 0..read
    BY Places DEF TypeOK
  <2> QED
    BY <1>5, <2>1 DEF NoAnswerVanishes
<1> QED
  BY <1>6, <1>7, <1>8, <1>9, <1>10, <1>11

\* The next frame is read: no answer, queued or written, is about it yet.
LEMMA ReadFrameStep ==
  ASSUME BridgeInv, ReadFrame
  PROVE  BridgeInv'
<1> USE DEF BridgeInv
<1>1. /\ reader = "decoding" /\ read < Len(kind) /\ read' = read + 1
      /\ UNCHANGED <<handled, peerVars, connVars, queueVars, writeVars, wire, appVars, done>>
      /\ reader' \in {"failing", "closing", "checking", "filtering"}
      /\ reader' = "failing" => kind[read'] = "garbled"
  BY DEF ReadFrame
<1>2. /\ read \in Nat /\ read' \in Nat /\ read' # 0 /\ read' \in 0..Len(kind)
      /\ \A n \in 0..read : n # read'
      /\ 0..read \subseteq 0..read' /\ 1..read \subseteq 1..read'
  BY <1>1, Places
<1>3. queue \in Seq(0..read') /\ wire \in Seq(0..read')
  BY <1>1, <1>2, SeqWidens DEF TypeOK
<1> USE <1>1 DEF peerVars, queueVars, writeVars
<1>4. TypeOK'
  BY <1>2, <1>3 DEF TypeOK, connVars, appVars
<1>5. \A n : ViaQueue(n)' <=> ViaQueue(n)
  BY DEF ViaQueue
<1>6. out \in 0..read /\ handled \subseteq 1..read /\ ToSet(queue) \cup ToSet(wire) \subseteq 0..read
  BY Places DEF TypeOK
<1>7. read' \notin ToSet(queue) \cup ToSet(wire) \cup handled /\ out # read'
  BY <1>2, <1>6
<1>8. InHand'
  BY <1>2, <1>7 DEF InHand
<1>9. InChannel' /\ OutWhileWriting' /\ ChannelInTurn'
  BY <1>5 DEF InChannel, OutWhileWriting, ChannelInTurn
<1>10. AnswersInTurn' /\ AnsweredOnce'
  BY <1>5 DEF AnswersInTurn, AnsweredOnce
<1>11. NoAnswerVanishes'
  BY <1>5 DEF NoAnswerVanishes
<1> QED
  BY <1>4, <1>8, <1>9, <1>10, <1>11

\* The handler of the frame in hand is called, which nothing answers so far.
LEMMA HandleStep ==
  ASSUME BridgeInv, Handle
  PROVE  BridgeInv'
<1> USE DEF BridgeInv
<1>1. /\ reader = "handling" /\ handled' = handled \cup {read}
      /\ UNCHANGED <<read, peerVars, closed, codec, queueVars, writeVars, wire, appVars, done>>
      /\ reader' \in {"refusing", "answering", "checking"}
      /\ negotiated' \in BOOLEAN
      /\ reader' = "refusing" => kind[read] = "failing"
      /\ reader' = "answering" <=> kind[read] \in {"negotiate", "request", "garbled"}
  BY DEF Handle, TypeOK
<1>2. read # 0 /\ read \notin handled /\ out # read /\ read \notin ToSet(queue) \cup ToSet(wire)
  BY <1>1 DEF InHand
<1> USE <1>1 DEF peerVars, queueVars, writeVars
<1>3. read \in 1..read
  BY <1>2, Places
<1>4. TypeOK'
  BY <1>3 DEF TypeOK, appVars
<1>5. \A n : n # read => (ViaQueue(n)' <=> ViaQueue(n))
  BY DEF ViaQueue
<1>6. ViaQueue(read)' <=> reader' = "answering"
  BY <1>2 DEF ViaQueue
<1>7. InHand'
  BY <1>2, <1>6 DEF InHand
<1>8. InChannel' /\ OutWhileWriting'
  BY <1>2, <1>5 DEF InChannel, OutWhileWriting
<1>9. ChannelInTurn'
  BY <1>2, <1>5 DEF ChannelInTurn
<1>10. AnswersInTurn' /\ AnsweredOnce'
  BY <1>2, <1>5, Places DEF AnswersInTurn, AnsweredOnce
<1>11. NoAnswerVanishes'
  BY <1>2, <1>5, <1>6 DEF NoAnswerVanishes
<1> QED
  BY <1>4, <1>7, <1>8, <1>9, <1>10, <1>11

-----------------------------------------------------------------------------
(* Answers on their way *)

\* What enters the channel is newer than all that went through it.
LEMMA EnqueueStep ==
  ASSUME BridgeInv, NEW n \in 0..read, Enqueue(n),
         n # 0 => ViaQueue(n) /\ n = read /\ reader = "answering",
         UNCHANGED <<kind, read, handled, writer, out, wire, peer, closed, codec, negotiated, stop, done>>,
         (reader' = reader /\ n = 0) \/ (reader' = "checking" /\ n = read),
         pushes' \in 0..MaxPushes, panicked' = panicked
  PROVE  BridgeInv'
<1> USE DEF BridgeInv
<1>1. \A m : ViaQueue(m)' <=> ViaQueue(m)
  BY DEF ViaQueue
<1>2. queue \in Seq(0..read) /\ Len(queue) <= Capacity
  BY DEF TypeOK
<1>3. /\ queue' \in Seq(0..read) /\ Len(queue') <= Capacity
      /\ ToSet(queue) \subseteq ToSet(queue')
      /\ ToSet(queue') \subseteq ToSet(queue) \cup {n}
      /\ n \in ToSet(queue') \cup skipped' /\ skipped \subseteq skipped'
      /\ skipped' \subseteq skipped \cup {n} /\ queueOpen' = queueOpen
  <2>1. CASE Len(queue) < Capacity
    <3>1. queue' = Append(queue, n) /\ skipped' = skipped /\ queueOpen' = queueOpen
      BY <2>1 DEF Enqueue
    <3>2. /\ Append(queue, n) \in Seq(0..read) /\ ToSet(Append(queue, n)) = ToSet(queue) \cup {n}
          /\ Len(queue) \in Nat /\ Len(Append(queue, n)) = Len(queue) + 1
      <4> DEFINE S == 0..read
      <4>1. queue \in Seq(S) /\ n \in S
        BY <1>2
      <4> HIDE DEF S
      <4>2. /\ Append(queue, n) \in Seq(S) /\ ToSet(Append(queue, n)) = ToSet(queue) \cup {n}
            /\ Len(queue) \in Nat /\ Len(Append(queue, n)) = Len(queue) + 1
        BY ONLY <4>1, AppendElements
      <4> QED
        BY <4>2 DEF S
    <3>3. Len(queue') <= Capacity
      BY <2>1, <3>1, <3>2
    <3> QED
      BY <3>1, <3>2, <3>3
  <2>2. CASE ~(Len(queue) < Capacity)
    BY <1>2, <2>2 DEF Enqueue
  <2> QED
    BY <2>1, <2>2
<1>4. TypeOK'
  BY <1>3 DEF TypeOK
<1>5. n # 0 => out # n /\ n \notin ToSet(queue) \cup ToSet(wire)
  BY DEF InHand
<1>6. InHand'
  BY <1>1, <1>3, Places DEF InHand, TypeOK
<1>7. InChannel' /\ OutWhileWriting'
  BY <1>1, <1>3 DEF InChannel, OutWhileWriting
<1>8. \A m \in ToSet(queue) \cup ToSet(wire) \cup {out} : n # 0 => m < n
  BY <1>5, Places DEF TypeOK
<1>9. \A i, j \in DOMAIN queue' :
        i < j /\ queue'[i] # 0 /\ queue'[j] # 0 => queue'[i] < queue'[j]
  <2>1. \A i, j \in DOMAIN queue : i < j /\ queue[i] # 0 /\ queue[j] # 0 => queue[i] < queue[j]
    BY DEF ChannelInTurn
  <2>2. CASE Len(queue) < Capacity
    <3>1. queue' = Append(queue, n)
      BY <2>2 DEF Enqueue
    <3>2. /\ Len(queue) \in Nat /\ DOMAIN queue = 1..Len(queue) /\ DOMAIN queue' = 1..(Len(queue) + 1)
          /\ \A i \in 1..Len(queue) : queue'[i] = queue[i] /\ queue[i] \in ToSet(queue)
          /\ queue'[Len(queue) + 1] = n
      <4>1. /\ Len(queue) \in Nat /\ DOMAIN queue = 1..Len(queue)
            /\ DOMAIN Append(queue, n) = 1..(Len(queue) + 1)
            /\ \A i \in 1..Len(queue) : Append(queue, n)[i] = queue[i]
            /\ Append(queue, n)[Len(queue) + 1] = n
        BY <1>2, AppendElements
      <4>2. \A i \in DOMAIN queue : queue[i] \in ToSet(queue)
        BY Places
      <4> QED
        BY <3>1, <4>1, <4>2
    <3> QED
      BY <1>8, <2>1, <3>2
  <2>3. CASE ~(Len(queue) < Capacity)
    BY <2>1, <2>3 DEF Enqueue
  <2> QED
    BY <2>2, <2>3
<1>10. ChannelInTurn'
  <2>1. out # 0 => \A m \in ToSet(queue') \ {0} : out < m
    BY <1>3, <1>8 DEF ChannelInTurn
  <2>2. \A k \in ToSet(wire) : ViaQueue(k) => \A m \in (ToSet(queue') \cup {out}) \ {0} : k < m
    BY <1>3, <1>8 DEF ChannelInTurn
  <2> QED
    BY <1>1, <1>9, <2>1, <2>2 DEF ChannelInTurn
<1>11. AnswersInTurn' /\ AnsweredOnce'
  BY <1>1 DEF AnswersInTurn, AnsweredOnce
<1>12. NoAnswerVanishes'
  BY <1>1, <1>3 DEF NoAnswerVanishes
<1> QED
  BY <1>4, <1>6, <1>7, <1>10, <1>11, <1>12

LEMMA AnswerStep ==
  ASSUME BridgeInv, Answer
  PROVE  BridgeInv'
<1>1. read \in 0..read /\ ViaQueue(read) /\ pushes \in 0..MaxPushes
  BY Places DEF BridgeInv, InHand, Answer, TypeOK
<1> QED
  BY <1>1, EnqueueStep DEF Answer, peerVars, connVars, writeVars, appVars

LEMMA PushStep ==
  ASSUME BridgeInv, Push
  PROVE  BridgeInv'
<1>1. 0 \in 0..read /\ pushes' \in 0..MaxPushes
  BY Places DEF BridgeInv, Push, TypeOK
<1>2. CASE Enqueue(0) /\ UNCHANGED panicked
  <2>1. UNCHANGED <<kind, read, handled, writer, out, wire, peer, closed, codec, negotiated, stop, done>>
    BY DEF Push, peerVars, connVars, readVars, writeVars
  <2>2. reader' = reader
    BY DEF Push, readVars
  <2> QED
    BY <1>1, <1>2, <2>1, <2>2, EnqueueStep
<1>3. CASE ~queueOpen /\ panicked' = TRUE /\ UNCHANGED queueVars
  <2>1. TypeOK'
    BY <1>1, <1>3 DEF Push, TypeOK, BridgeInv, peerVars, connVars, readVars, queueVars, writeVars
  <2> QED
    BY <1>3, <2>1, QuietKeeps DEF Push, peerVars, readVars, queueVars, writeVars
<1> QED
  BY <1>2, <1>3 DEF Push

-----------------------------------------------------------------------------
(* Answers on the wire *)

\* One more frame on the wire, newer than the answers of handlers there if it
\* is one itself.
LEMMA WireGrows ==
  ASSUME BridgeInv, NEW n \in 0..read, wire' = Append(wire, n), UNCHANGED <<kind, read, handled>>,
         n # 0 => n \notin ToSet(wire) /\ kind[n] \in Asking,
         ViaQueue(n) => \A m \in ToSet(wire) : ViaQueue(m) => m < n
  PROVE  /\ wire' \in Seq(0..read) /\ ToSet(wire') = ToSet(wire) \cup {n}
         /\ AnswersInTurn' /\ AnsweredOnce'
<1> USE DEF BridgeInv
<1>1. \A m : ViaQueue(m)' <=> ViaQueue(m)
  BY DEF ViaQueue
<1>2. wire \in Seq(0..read) /\ n \in 0..read
  BY DEF TypeOK
<1>3. /\ Append(wire, n) \in Seq(0..read) /\ ToSet(Append(wire, n)) = ToSet(wire) \cup {n}
      /\ Len(wire) \in Nat
      /\ DOMAIN wire = 1..Len(wire) /\ DOMAIN Append(wire, n) = 1..(Len(wire) + 1)
      /\ \A i \in 1..Len(wire) : Append(wire, n)[i] = wire[i]
      /\ Append(wire, n)[Len(wire) + 1] = n
  <2> DEFINE S == 0..read
  <2>1. wire \in Seq(S) /\ n \in S
    BY <1>2
  <2> HIDE DEF S
  <2>2. /\ Append(wire, n) \in Seq(S) /\ ToSet(Append(wire, n)) = ToSet(wire) \cup {n}
        /\ Len(wire) \in Nat
        /\ DOMAIN wire = 1..Len(wire) /\ DOMAIN Append(wire, n) = 1..(Len(wire) + 1)
        /\ \A i \in 1..Len(wire) : Append(wire, n)[i] = wire[i]
        /\ Append(wire, n)[Len(wire) + 1] = n
    BY ONLY <2>1, AppendElements
  <2> QED
    BY <2>2 DEF S
<1>4. /\ DOMAIN wire' = DOMAIN wire \cup {Len(wire) + 1}
      /\ \A i \in DOMAIN wire : wire'[i] = wire[i] /\ wire[i] \in ToSet(wire) /\ i < Len(wire) + 1
      /\ wire'[Len(wire) + 1] = n
  <2>1. 1..(Len(wire) + 1) = 1..Len(wire) \cup {Len(wire) + 1}
    BY <1>3
  <2>2. \A i \in DOMAIN wire : wire[i] \in ToSet(wire)
    BY DEF ToSet
  <2>3. \A i \in 1..Len(wire) : i < Len(wire) + 1
    BY <1>3
  <2> QED
    BY ONLY wire' = Append(wire, n), <1>3, <2>1, <2>2, <2>3
<1>5. AnswersInTurn'
  <2> SUFFICES ASSUME NEW i \in DOMAIN wire', NEW j \in DOMAIN wire', i < j,
                      ViaQueue(wire'[i]), ViaQueue(wire'[j])
               PROVE  wire'[i] < wire'[j]
    BY <1>1 DEF AnswersInTurn
  <2>1. i \in DOMAIN wire
    BY <1>3, <1>4
  <2>2. CASE j \in DOMAIN wire
    BY <1>4, <2>1, <2>2 DEF AnswersInTurn
  <2>3. CASE j = Len(wire) + 1
    BY <1>4, <2>1, <2>3
  <2> QED
    BY <1>4, <2>2, <2>3
<1>6. AnsweredOnce'
  <2> SUFFICES ASSUME NEW i \in DOMAIN wire', NEW j \in DOMAIN wire', wire'[i] # 0
               PROVE  kind[wire'[i]] \in Asking /\ (wire'[j] = wire'[i] => j = i)
    BY DEF AnsweredOnce
  <2>1. CASE i \in DOMAIN wire /\ j \in DOMAIN wire
    BY <1>4, <2>1 DEF AnsweredOnce
  <2>2. CASE i \in DOMAIN wire /\ j = Len(wire) + 1
    <3>1. kind[wire[i]] \in Asking
      BY <1>4, <2>2 DEF AnsweredOnce
    <3> QED
      BY <1>4, <2>2, <3>1
  <2>3. CASE i = Len(wire) + 1
    BY <1>4, <2>3
  <2> QED
    BY <1>4, <2>1, <2>2, <2>3
<1> QED
  BY <1>3, <1>5, <1>6

\* The read loop writes an error past the channel.
LEMMA RefuseStep ==
  ASSUME BridgeInv, Refuse
  PROVE  BridgeInv'
<1> USE DEF BridgeInv, peerVars, connVars, queueVars, writeVars, appVars
<1>1. /\ reader \in {"refusing", "failing"} /\ reader' \in {"closing", "checking"}
      /\ UNCHANGED <<read, handled, peerVars, connVars, queueVars, writeVars, appVars, done>>
      /\ wire' = Append(wire, read) \/ wire' = wire
  BY DEF Refuse
<1>2. CASE wire' = wire
  <2>1. TypeOK'
    BY <1>1, <1>2 DEF TypeOK
  <2> QED
    BY <1>1, <1>2, <2>1, QuietKeeps
<1>3. CASE wire' = Append(wire, read)
  <2>1. /\ read \in 0..read /\ read \notin ToSet(wire) /\ kind[read] \in Asking /\ ~ViaQueue(read)
    BY <1>1, Places DEF InHand, Asking, ViaQueue
  <2>2. /\ wire' \in Seq(0..read) /\ ToSet(wire') = ToSet(wire) \cup {read}
        /\ AnswersInTurn' /\ AnsweredOnce'
    BY <1>1, <1>3, <2>1, WireGrows
  <2>3. TypeOK'
    BY <1>1, <2>2 DEF TypeOK
  <2>4. \A n : ViaQueue(n)' <=> ViaQueue(n)
    BY <1>1 DEF ViaQueue
  <2>5. InHand'
    BY <1>1 DEF InHand
  <2>6. InChannel' /\ OutWhileWriting'
    BY <1>1, <2>4 DEF InChannel, OutWhileWriting
  <2>7. ChannelInTurn'
    BY <1>1, <2>1, <2>2, <2>4 DEF ChannelInTurn
  <2>8. NoAnswerVanishes'
    BY <1>1, <2>2, <2>4 DEF NoAnswerVanishes
  <2> QED
    BY <2>2, <2>3, <2>5, <2>6, <2>7, <2>8
<1> QED
  BY <1>1, <1>2, <1>3

-----------------------------------------------------------------------------
(* The write loop *)

\* What is left of the channel, once its first frame is gone.
LEMMA ChannelShrinks ==
  ASSUME BridgeInv, queue # <<>>, queue' = Tail(queue)
  PROVE  /\ queue' \in Seq(0..read) /\ Len(queue') <= Capacity
         /\ Head(queue) \in 0..read
         /\ ToSet(queue) = ToSet(queue') \cup {Head(queue)}
         /\ \A i, j \in DOMAIN queue' :
              i < j /\ queue'[i] # 0 /\ queue'[j] # 0 => queue'[i] < queue'[j]
         /\ Head(queue) # 0 => \A m \in ToSet(queue') \ {0} : Head(queue) < m
<1> USE DEF BridgeInv
<1>1. queue \in Seq(0..read) /\ Len(queue) <= Capacity
  BY DEF TypeOK
<1>2. /\ Tail(queue) \in Seq(0..read) /\ Head(queue) \in 0..read /\ Head(queue) = queue[1]
      /\ Len(queue) \in Nat \ {0} /\ Len(Tail(queue)) = Len(queue) - 1
      /\ DOMAIN queue = 1..Len(queue) /\ DOMAIN Tail(queue) = 1..(Len(queue) - 1)
      /\ \A i \in 1..(Len(queue) - 1) : Tail(queue)[i] = queue[i + 1]
      /\ ToSet(queue) = ToSet(Tail(queue)) \cup {Head(queue)}
  BY ONLY <1>1, queue # <<>>, TailElements
<1>3. Len(queue') <= Capacity
  BY <1>1, <1>2
<1>4. \A i, j \in DOMAIN queue : i < j /\ queue[i] # 0 /\ queue[j] # 0 => queue[i] < queue[j]
  BY DEF ChannelInTurn
<1>5. /\ 1 \in DOMAIN queue
      /\ \A i \in DOMAIN queue' : i \in Nat /\ i + 1 \in DOMAIN queue /\ 1 < i + 1 /\ queue'[i] = queue[i + 1]
  BY <1>2
<1>6. \A i, j \in DOMAIN queue' :
        i < j /\ queue'[i] # 0 /\ queue'[j] # 0 => queue'[i] < queue'[j]
  BY <1>4, <1>5
<1>7. Head(queue) # 0 => \A i \in DOMAIN queue' : queue'[i] # 0 => Head(queue) < queue'[i]
  BY <1>2, <1>4, <1>5
<1>8. Head(queue) # 0 => \A m \in ToSet(queue') \ {0} : Head(queue) < m
  BY <1>7 DEF ToSet
<1> QED
  BY <1>2, <1>3, <1>6, <1>8

\* The oldest answer of the channel is taken, to be written.
LEMMA TakeStep ==
  ASSUME BridgeInv, Take
  PROVE  BridgeInv'
<1> USE DEF BridgeInv
<1>1. /\ writer = "ready" /\ writer' = "writing"
      /\ queue # <<>> /\ queue' = Tail(queue) /\ out' = Head(queue)
      /\ UNCHANGED <<queueOpen, skipped, peerVars, connVars, readVars, wire, appVars, done>>
  BY DEF Take
<1>2. out = 0
  BY <1>1 DEF OutWhileWriting
<1>3. /\ queue' \in Seq(0..read) /\ Len(queue') <= Capacity /\ out' \in 0..read
      /\ ToSet(queue) = ToSet(queue') \cup {out'}
      /\ \A i, j \in DOMAIN queue' :
           i < j /\ queue'[i] # 0 /\ queue'[j] # 0 => queue'[i] < queue'[j]
      /\ out' # 0 => \A m \in ToSet(queue') \ {0} : out' < m
  BY <1>1, ChannelShrinks
<1> USE DEF peerVars, connVars, readVars, appVars
<1>4. TypeOK'
  BY <1>1, <1>3 DEF TypeOK
<1>5. \A n : ViaQueue(n)' <=> ViaQueue(n)
  BY <1>1 DEF ViaQueue
<1>6. InHand'
  BY <1>1, <1>3, <1>5 DEF InHand
<1>7. InChannel' /\ OutWhileWriting'
  BY <1>1, <1>3, <1>5 DEF InChannel, OutWhileWriting
<1>8. ChannelInTurn'
  BY <1>1, <1>3, <1>5 DEF ChannelInTurn
<1>9. AnswersInTurn' /\ AnsweredOnce'
  BY <1>1, <1>5 DEF AnswersInTurn, AnsweredOnce
<1>10. NoAnswerVanishes'
  BY <1>1, <1>2, <1>3, <1>5 DEF NoAnswerVanishes
<1> QED
  BY <1>4, <1>6, <1>7, <1>8, <1>9, <1>10

\* The oldest answer of the channel cannot be encrypted and is skipped.
LEMMA TakeFailsStep ==
  ASSUME BridgeInv, TakeFails
  PROVE  BridgeInv'
<1> USE DEF BridgeInv
<1>1. /\ writer = "ready" /\ UNCHANGED writeVars
      /\ queue # <<>> /\ queue' = Tail(queue) /\ skipped' = skipped \cup {Head(queue)}
      /\ UNCHANGED <<queueOpen, peerVars, connVars, readVars, wire, appVars, done>>
  BY DEF TakeFails
<1>2. /\ queue' \in Seq(0..read) /\ Len(queue') <= Capacity /\ Head(queue) \in 0..read
      /\ ToSet(queue) = ToSet(queue') \cup {Head(queue)}
      /\ \A i, j \in DOMAIN queue' :
           i < j /\ queue'[i] # 0 /\ queue'[j] # 0 => queue'[i] < queue'[j]
  BY <1>1, ChannelShrinks
<1> USE DEF peerVars, connVars, readVars, writeVars, appVars
<1>3. TypeOK'
  <2>1. skipped' \subseteq 0..read'
    BY <1>1, <1>2 DEF TypeOK
  <2> QED
    BY <1>1, <1>2, <2>1 DEF TypeOK
<1>4. \A n : ViaQueue(n)' <=> ViaQueue(n)
  BY <1>1 DEF ViaQueue
<1>5. InHand'
  BY <1>1, <1>2, <1>4 DEF InHand
<1>6. InChannel' /\ OutWhileWriting'
  BY <1>1, <1>2, <1>4 DEF InChannel, OutWhileWriting
<1>7. ChannelInTurn'
  BY <1>1, <1>2, <1>4 DEF ChannelInTurn
<1>8. AnswersInTurn' /\ AnsweredOnce'
  BY <1>1, <1>4 DEF AnswersInTurn, AnsweredOnce
<1>9. NoAnswerVanishes'
  BY <1>1, <1>2, <1>4 DEF NoAnswerVanishes
<1> QED
  BY <1>3, <1>5, <1>6, <1>7, <1>8, <1>9

\* The frame that was taken is written, or its write ends the write loop.
LEMMA WriteStepKeeps ==
  ASSUME BridgeInv, Write
  PROVE  BridgeInv'
<1> USE DEF BridgeInv, queueVars, peerVars, connVars, readVars, appVars
<1>1. /\ out' = 0 /\ writer = "writing"
      /\ UNCHANGED <<queueVars, peerVars, connVars, readVars, appVars, done>>
      /\ \/ wire' = Append(wire, out) /\ writer' = "ready"
         \/ wire' = wire /\ writer' = "ended"
  BY DEF Write
<1>2. \A n : ViaQueue(n)' <=> ViaQueue(n)
  BY <1>1 DEF ViaQueue
<1>3. 0 \in 0..read /\ out \in 0..read
  BY Places DEF TypeOK
<1>4. InChannel' /\ OutWhileWriting'
  BY <1>1, <1>2 DEF InChannel, OutWhileWriting
<1>5. CASE wire' = wire /\ writer' = "ended"
  <2>1. TypeOK'
    BY <1>1, <1>3, <1>5 DEF TypeOK
  <2>2. InHand'
    BY <1>1, <1>2, <1>5 DEF InHand
  <2>3. ChannelInTurn'
    BY <1>1, <1>2, <1>5 DEF ChannelInTurn
  <2>4. AnswersInTurn' /\ AnsweredOnce'
    BY <1>1, <1>2, <1>5 DEF AnswersInTurn, AnsweredOnce
  <2>5. NoAnswerVanishes'
    BY <1>5 DEF NoAnswerVanishes
  <2> QED
    BY <1>4, <2>1, <2>2, <2>3, <2>4, <2>5
<1>6. CASE wire' = Append(wire, out) /\ writer' = "ready"
  <2>1. out # 0 => ViaQueue(out) /\ kind[out] \in Asking
    BY DEF InChannel, ViaQueue, Asking
  <2>2. \A m \in ToSet(wire) : ViaQueue(m) /\ out # 0 => m < out
    BY DEF ChannelInTurn
  <2>3. out # 0 => out \notin ToSet(wire)
    BY <1>3, <2>1, <2>2
  <2>4. ViaQueue(out) => out # 0
    BY DEF ViaQueue
  <2>5. /\ wire' \in Seq(0..read) /\ ToSet(wire') = ToSet(wire) \cup {out}
        /\ AnswersInTurn' /\ AnsweredOnce'
    BY <1>1, <1>3, <1>6, <2>1, <2>2, <2>3, <2>4, WireGrows
  <2>6. TypeOK'
    BY <1>1, <1>3, <1>6, <2>5 DEF TypeOK
  <2>7. InHand'
    BY <1>1, <1>2, <2>5 DEF InHand
  <2>8. ChannelInTurn'
    BY <1>1, <1>2, <2>4, <2>5 DEF ChannelInTurn
  <2>9. NoAnswerVanishes'
    BY <1>1, <1>2, <2>5 DEF NoAnswerVanishes
  <2> QED
    BY <1>4, <2>5, <2>6, <2>7, <2>8, <2>9
<1> QED
  BY <1>1, <1>5, <1>6

-----------------------------------------------------------------------------
(* The theorems *)

LEMMA BridgeStep == BridgeInv /\ [Next]_vars => BridgeInv'
<1> SUFFICES ASSUME BridgeInv, [Next]_vars PROVE BridgeInv'
  OBVIOUS
<1>1. CASE QuietStep
  BY <1>1, QuietSteps
<1>2. CASE ReadFrame \/ Handle \/ Answer \/ Refuse
  BY <1>2, ReadFrameStep, HandleStep, AnswerStep, RefuseStep
<1>3. CASE Take \/ TakeFails \/ Write
  BY <1>3, TakeStep, TakeFailsStep, WriteStepKeeps
<1>4. CASE Push
  BY <1>4, PushStep
<1>5. CASE \E k \in Kinds : PeerSends(k)
  BY <1>5, PeerSendsStep
<1>6. CASE UNCHANGED vars
  <2>1. /\ UNCHANGED <<kind, read, handled, queue, skipped, wire, out, writer, reader>>
        /\ UNCHANGED <<peer, closed, codec, negotiated, stop, done, queueOpen, pushes, panicked>>
    BY <1>6 DEF vars, peerVars, connVars, readVars, queueVars, writeVars, appVars
  <2>2. TypeOK'
    BY <2>1 DEF BridgeInv, TypeOK
  <2> QED
    BY <2>1, <2>2, QuietKeeps
<1> QED
  BY <1>1, <1>2, <1>3, <1>4, <1>5, <1>6 DEF Next, ReadStep, WriteStep, QuietStep

\* Whatever the two goroutines, the peer and the application do, what passes
\* through writeCh is an answer a handler gave, newer than all before it.
THEOREM BridgeInvariant == Spec => []BridgeInv
<1>1. Init => BridgeInv
  BY BridgeInit
<1>2. BridgeInv /\ [Next]_vars => BridgeInv'
  BY BridgeStep
<1> QED
  BY <1>1, <1>2, PTL DEF Spec

\* The channel never holds more than it was made for, and every number in it,
\* and on the wire, is that of a frame that was read.
THEOREM BridgeTypeCorrect == Spec => []TypeOK
<1>1. BridgeInv => TypeOK
  BY DEF BridgeInv
<1> QED
  BY <1>1, BridgeInvariant, PTL

\* The answers of handlers reach the peer in the order of their requests: what
\* the read loop hands over, the write loop does not reorder, whatever is
\* dropped in between.
THEOREM AnswersStayInTurn == Spec => []AnswersInTurn
<1>1. BridgeInv => AnswersInTurn
  BY DEF BridgeInv
<1> QED
  BY <1>1, BridgeInvariant, PTL

\* Two goroutines write to the connection, and still no request is answered
\* twice, once with an error and once by its handler's result for example.
THEOREM NobodyAnsweredTwice == Spec => []AnsweredOnce
<1>1. BridgeInv => AnsweredOnce
  BY DEF BridgeInv
<1> QED
  BY <1>1, BridgeInvariant, PTL

\* As long as the write loop runs, the answer of a handler is accounted for.
THEOREM AnswersDoNotVanish == Spec => []NoAnswerVanishes
<1>1. BridgeInv => NoAnswerVanishes
  BY DEF BridgeInv
<1> QED
  BY <1>1, BridgeInvariant, PTL

\* Once the connection is closed the filters let nothing through to a handler.
LEMMA ClosedKeepsOut ==
  ASSUME NEW n \in Frames,
         closed, n \notin handled, ~(reader = "handling" /\ read = n), [Next]_vars
  PROVE  closed' /\ n \notin handled' /\ ~(reader' = "handling" /\ read' = n)
<1> USE DEF peerVars, connVars, readVars, queueVars, writeVars, appVars
<1>1. CASE UNCHANGED vars
  BY <1>1 DEF vars
<1>2. CASE CheckStop \/ ReadFrame \/ ReadEnd \/ Filter \/ Handle \/ Answer
  BY <1>2 DEF CheckStop, ReadFrame, ReadEnd, Filter, Handle, Answer
<1>3. CASE Refuse \/ CloseFatal \/ Leave \/ Unwind \/ End \/ WriteStep
  BY <1>3 DEF Refuse, CloseFatal, Leave, Unwind, End, WriteStep, Take, TakeFails, Write, WriterEnds
<1>4. CASE Stop \/ CloseConn \/ SetCodec \/ Push
  BY <1>4 DEF Stop, CloseConn, SetCodec, Push
<1>5. ASSUME NEW k \in Kinds, PeerSends(k)
      PROVE  closed' /\ n \notin handled' /\ ~(reader' = "handling" /\ read' = n)
  BY <1>5 DEF PeerSends
<1>6. ASSUME NEW p \in {"stalled", "eof", "reset"}, PeerTurns(p)
      PROVE  closed' /\ n \notin handled' /\ ~(reader' = "handling" /\ read' = n)
  BY <1>6 DEF PeerTurns
<1> QED
  BY <1>1, <1>2, <1>3, <1>4, <1>5, <1>6 DEF Next, ReadStep

\* Closing the connection keeps the frames already read from being handled,
\* but the one that has passed the filters.
THEOREM HandlersStopWhenClosed == Spec => NoHandlerOnceClosed
<1>1. ASSUME NEW n \in Frames
      PROVE  Spec => [](closed /\ n \notin handled /\ ~(reader = "handling" /\ read = n)
                          => [](n \notin handled))
  <2>1. closed /\ n \notin handled /\ ~(reader = "handling" /\ read = n) /\ [Next]_vars
          => (closed /\ n \notin handled /\ ~(reader = "handling" /\ read = n))'
    BY ClosedKeepsOut
  <2> QED
    BY <2>1, PTL DEF Spec
<1> QED
  BY <1>1 DEF NoHandlerOnceClosed

-----------------------------------------------------------------------------
(* The refinement of Replies: what each step looks like to the peer         *)

USE DEF Promise!vars

LEMMA RepliesInit == Init => Promise!Init
<1> SUFFICES ASSUME Init PROVE Promise!Init
  OBVIOUS
<1>1. Len(<<>>) = 0 /\ DOMAIN <<>> = {} /\ ToSet(<<>>) = {}
  BY DEF ToSet
<1> QED
  BY <1>1 DEF Init, Promise!Init, Wanted, Owed, Stage

\* Steps that the peer cannot tell from none: the read loop and the write loop
\* come and go, the codec changes, the application stops the bridge.
Unseen ==
  \/ CheckStop \/ ReadEnd \/ Leave \/ End \/ WriterEnds \/ Stop \/ SetCodec
  \/ \E p \in {"stalled", "eof", "reset"} : PeerTurns(p)
  \/ UNCHANGED vars

LEMMA UnseenSteps == Unseen => UNCHANGED Promise!vars
<1> USE DEF peerVars, connVars, readVars, queueVars, writeVars, appVars, Wanted, Owed, Stage
<1>1. CASE CheckStop \/ ReadEnd \/ Leave \/ End
  BY <1>1 DEF CheckStop, ReadEnd, Leave, End
<1>2. CASE WriterEnds \/ Stop \/ SetCodec \/ UNCHANGED vars
  BY <1>2 DEF WriterEnds, Stop, SetCodec, vars
<1>3. ASSUME NEW p \in {"stalled", "eof", "reset"}, PeerTurns(p)
      PROVE  UNCHANGED Promise!vars
  BY <1>3 DEF PeerTurns
<1> QED
  BY <1>1, <1>2, <1>3 DEF Unseen

\* Whoever closes the Conn, to the peer it is the end.
LEMMA ClosingIsShut == CloseFatal \/ Unwind \/ CloseConn => Promise!Shut
<1> USE DEF peerVars, readVars, queueVars, writeVars, Wanted, Owed, Stage, Promise!Shut
<1>1. CloseFatal => Promise!Shut
  BY DEF CloseFatal
<1>2. Unwind => Promise!Shut
  BY DEF Unwind
<1>3. CloseConn => Promise!Shut
  BY DEF CloseConn
<1> QED
  BY <1>1, <1>2, <1>3

LEMMA SendingIsAsk ==
  ASSUME BridgeInv, NEW k \in Kinds, PeerSends(k)
  PROVE  Promise!Ask
<1>1. kind' = Append(kind, k) /\ kind \in Seq(Kinds)
  BY DEF PeerSends, BridgeInv, TypeOK
<1>2. /\ Len(kind) \in Nat /\ Len(kind') = Len(kind) + 1
      /\ DOMAIN kind = 1..Len(kind) /\ DOMAIN kind' = 1..(Len(kind) + 1)
      /\ \A n \in 1..Len(kind) : kind'[n] = kind[n]
      /\ kind'[Len(kind) + 1] = k
  BY <1>1, AppendElements
<1>3. DOMAIN kind' = DOMAIN kind \cup {Len(kind')}
  BY <1>2
<1>4. Wanted' = IF k \in Asking THEN Wanted \cup {Len(kind')} ELSE Wanted
  <2>1. \A n \in DOMAIN kind : kind'[n] = kind[n] /\ n # Len(kind')
    BY <1>2
  <2>2. kind'[Len(kind')] = k
    BY <1>2
  <2> QED
    BY <1>3, <2>1, <2>2 DEF Wanted, Asking
<1> QED
  BY <1>2, <1>4 DEF PeerSends, connVars, readVars, queueVars, writeVars,
                    Owed, Stage, Promise!Ask

\* A frame that was read is one of those the peer sent.
LEMMA ReadIsSent ==
  ASSUME TypeOK, NEW n \in 1..Len(kind)
  PROVE  n \in DOMAIN kind /\ (kind[n] \in Asking => n \in Wanted)
<1>1. DOMAIN kind = 1..Len(kind)
  BY LenProperties DEF TypeOK
<1> QED
  BY <1>1 DEF Wanted

LEMMA ReadingIsTakeUp ==
  ASSUME BridgeInv, ReadFrame
  PROVE  Promise!TakeUp
<1>1. /\ reader = "decoding" /\ read < Len(kind) /\ read' = read + 1
      /\ UNCHANGED <<handled, peerVars, connVars, queueVars, writeVars, wire>>
      /\ reader' \in {"failing", "closing", "checking", "filtering"}
      /\ reader' = "failing" => kind[read'] = "garbled"
  BY DEF ReadFrame
<1>2. read' \in 1..Len(kind)
  BY <1>1, Places DEF BridgeInv
<1>3. reader' = "failing" => read' \in Wanted
  BY <1>1, <1>2, ReadIsSent DEF BridgeInv, Asking
<1>4. Wanted' = Wanted /\ Owed' = Owed
  BY <1>1 DEF peerVars, queueVars, writeVars, Wanted, Owed
<1>5. Stage = "idle" /\ (Stage' \in {"idle", "taken"} \/ (Stage' = "failed" /\ reader' = "failing"))
  BY <1>1 DEF Stage
<1> QED
  BY <1>1, <1>3, <1>4, <1>5 DEF peerVars, connVars, Promise!TakeUp

LEMMA FilterIsAdmit == Filter => Promise!Admit
  BY DEF Filter, peerVars, connVars, queueVars, writeVars, Wanted, Owed, Stage, Promise!Admit

LEMMA HandlingIsRun ==
  ASSUME BridgeInv, Handle
  PROVE  Promise!Run
<1>1. /\ reader = "handling" /\ handled' = handled \cup {read}
      /\ UNCHANGED <<read, peerVars, closed, queueVars, writeVars, wire>>
      /\ \/ reader' = "refusing" /\ kind[read] = "failing"
         \/ reader' = "answering" /\ kind[read] \in {"negotiate", "request", "garbled"}
         \/ reader' = "checking"
  BY DEF Handle
<1>2. read \in 1..Len(kind)
  BY <1>1, Places DEF BridgeInv, InHand
<1>3. reader' \in {"refusing", "answering"} => read \in Wanted
  BY <1>1, <1>2, ReadIsSent DEF BridgeInv, Asking
<1>4. Wanted' = Wanted /\ Owed' = Owed
  BY <1>1 DEF peerVars, queueVars, writeVars, Wanted, Owed
<1>5. /\ Stage = "admitted"
      /\ Stage' = "idle" \/ (Stage' \in {"ran", "failed"} /\ reader' \in {"refusing", "answering"})
  BY <1>1 DEF Stage
<1> QED
  BY <1>1, <1>3, <1>4, <1>5 DEF peerVars, Promise!Run

\* What the channel takes in is owed from then on; a full one changes nothing.
LEMMA EnqueueOwes ==
  ASSUME BridgeInv, NEW n \in 0..read, Enqueue(n), out' = out
  PROVE  Owed' \in {Owed, (Owed \cup {n}) \ {0}}
<1>1. CASE queue' = queue
  BY <1>1 DEF Owed
<1>2. CASE queue' = Append(queue, n)
  <2>1. queue \in Seq(0..read)
    BY DEF BridgeInv, TypeOK
  <2>2. ToSet(Append(queue, n)) = ToSet(queue) \cup {n}
    <3> DEFINE S == 0..read
    <3>1. queue \in Seq(S) /\ n \in S
      BY <2>1
    <3> HIDE DEF S
    <3> QED
      BY ONLY <3>1, AppendElements
  <2> QED
    BY <1>2, <2>2 DEF Owed
<1> QED
  BY <1>1, <1>2 DEF Enqueue

LEMMA AnswerIsOwe ==
  ASSUME BridgeInv, Answer
  PROVE  Promise!Owe
<1>1. /\ reader = "answering" /\ reader' = "checking" /\ Enqueue(read)
      /\ UNCHANGED <<read, handled, peerVars, connVars, writeVars, wire>>
  BY DEF Answer
<1>2. read \in 0..read /\ read # 0
  BY <1>1, Places DEF BridgeInv, InHand
<1>3. Owed' \in {Owed, Owed \cup {read}}
  <2>1. Owed' \in {Owed, (Owed \cup {read}) \ {0}}
    BY <1>1, <1>2, EnqueueOwes DEF writeVars
  <2> QED
    BY <1>2, <2>1 DEF Owed
<1> QED
  BY <1>1, <1>3 DEF peerVars, connVars, Wanted, Stage, Promise!Owe

LEMMA PushIsUnseen ==
  ASSUME BridgeInv, Push
  PROVE  UNCHANGED Promise!vars
<1>1. /\ UNCHANGED <<peerVars, connVars, readVars, writeVars, wire>>
      /\ Enqueue(0) \/ UNCHANGED queueVars
  BY DEF Push
<1>2. Owed' = Owed
  <2>1. CASE Enqueue(0)
    <3>1. 0 \in 0..read
      BY Places DEF BridgeInv
    <3>2. Owed' \in {Owed, (Owed \cup {0}) \ {0}}
      BY <1>1, <2>1, <3>1, EnqueueOwes DEF writeVars
    <3> QED
      BY <3>2 DEF Owed
  <2>2. CASE UNCHANGED queueVars
    BY <1>1, <2>2 DEF queueVars, writeVars, Owed
  <2> QED
    BY <1>1, <2>1, <2>2
<1> QED
  BY <1>1, <1>2 DEF peerVars, connVars, readVars, Wanted, Stage

LEMMA RefuseIsRefuse == Refuse => Promise!Refuse
<1> SUFFICES ASSUME Refuse PROVE Promise!Refuse
  OBVIOUS
<1>1. /\ reader \in {"refusing", "failing"} /\ reader' \in {"closing", "checking"}
      /\ UNCHANGED <<read, handled, peerVars, connVars, queueVars, writeVars>>
      /\ (~closed /\ wire' = Append(wire, read)) \/ UNCHANGED wire
  BY DEF Refuse, WriteSucceeds
<1> QED
  BY <1>1 DEF peerVars, connVars, queueVars, writeVars, Wanted, Owed, Stage,
              Promise!Refuse, Promise!Leaves

LEMMA TakingIsUnseen ==
  ASSUME BridgeInv, Take
  PROVE  UNCHANGED Promise!vars
<1>1. /\ writer = "ready" /\ queue # <<>> /\ queue' = Tail(queue) /\ out' = Head(queue)
      /\ UNCHANGED <<peerVars, connVars, readVars, wire>>
  BY DEF Take
<1>2. ToSet(queue) = ToSet(queue') \cup {out'} /\ out = 0
  BY <1>1, ChannelShrinks DEF BridgeInv, OutWhileWriting
<1> QED
  BY <1>1, <1>2 DEF peerVars, connVars, readVars, Wanted, Owed, Stage

\* What cannot be encrypted is lost, and it was owed longest.
LEMMA SkippingIsSettle ==
  ASSUME BridgeInv, TakeFails
  PROVE  Promise!Settle \/ UNCHANGED Promise!vars
<1> DEFINE n == Head(queue)
<1>1. /\ writer = "ready" /\ queue # <<>> /\ queue' = Tail(queue)
      /\ UNCHANGED <<peerVars, connVars, readVars, writeVars, wire>>
  BY DEF TakeFails
<1>2. out = 0 /\ out' = 0
  BY <1>1 DEF BridgeInv, OutWhileWriting, writeVars
<1>3. /\ n \in 0..read /\ ToSet(queue) = ToSet(queue') \cup {n}
      /\ n # 0 => \A m \in ToSet(queue') \ {0} : n < m
  BY <1>1, ChannelShrinks
<1>4. read \in Nat /\ ToSet(queue) \subseteq 0..read
  BY Places DEF BridgeInv
<1>5. Stage' = Stage /\ Wanted' = Wanted
  BY <1>1 DEF peerVars, readVars, Stage, Wanted
<1> HIDE DEF n
<1>6. CASE n = 0
  BY <1>1, <1>2, <1>3, <1>5, <1>6 DEF peerVars, connVars, readVars, Owed
<1>7. CASE n # 0
  <2>1. n \in Owed /\ Owed' = Owed \ {n} /\ \A m \in Owed : n <= m
    BY <1>2, <1>3, <1>4, <1>7 DEF Owed
  <2> QED
    BY <1>1, <1>5, <2>1 DEF peerVars, connVars, readVars, Promise!Settle
<1> QED
  BY <1>6, <1>7

\* What is written, or lost in writing, was owed longest, or is the server's own.
LEMMA WritingIsSettle ==
  ASSUME BridgeInv, Write
  PROVE  Promise!Settle \/ Promise!SendOwn \/ UNCHANGED Promise!vars
<1>1. /\ out' = 0 /\ UNCHANGED <<queueVars, peerVars, connVars, readVars>>
      /\ (~closed /\ wire' = Append(wire, out)) \/ UNCHANGED wire
  BY DEF Write, WriteSucceeds
<1>2. read \in Nat /\ out \in 0..read /\ ToSet(queue) \subseteq 0..read
  BY Places DEF BridgeInv, TypeOK
<1>3. Stage' = Stage /\ Wanted' = Wanted /\ queue' = queue
  BY <1>1 DEF peerVars, readVars, queueVars, Stage, Wanted
<1>4. CASE out = 0
  BY <1>1, <1>3, <1>4 DEF peerVars, connVars, readVars, Owed, Promise!SendOwn, Promise!Leaves
<1>5. CASE out # 0
  <2>1. \A m \in ToSet(queue) \ {0} : out < m
    BY <1>5 DEF BridgeInv, ChannelInTurn
  <2>2. out \in Owed /\ Owed' = Owed \ {out} /\ \A m \in Owed : out <= m
    BY <1>1, <1>2, <1>3, <1>5, <2>1 DEF Owed
  <2> QED
    BY <1>1, <1>3, <2>2 DEF peerVars, connVars, readVars, Promise!Settle, Promise!Leaves
<1> QED
  BY <1>4, <1>5

LEMMA RepliesStep == BridgeInv /\ [Next]_vars => [Promise!Next]_(Promise!vars)
<1> SUFFICES ASSUME BridgeInv, [Next]_vars PROVE Promise!Next \/ UNCHANGED Promise!vars
  OBVIOUS
<1> USE DEF Promise!Next
<1>1. CASE Unseen
  BY <1>1, UnseenSteps
<1>2. CASE CloseFatal \/ Unwind \/ CloseConn
  BY <1>2, ClosingIsShut
<1>3. CASE ReadFrame \/ Filter \/ Handle \/ Answer \/ Refuse
  BY <1>3, ReadingIsTakeUp, FilterIsAdmit, HandlingIsRun, AnswerIsOwe, RefuseIsRefuse
<1>4. CASE Take \/ TakeFails \/ Write \/ Push
  BY <1>4, TakingIsUnseen, SkippingIsSettle, WritingIsSettle, PushIsUnseen
<1>5. CASE \E k \in Kinds : PeerSends(k)
  BY <1>5, SendingIsAsk
<1> QED
  BY <1>1, <1>2, <1>3, <1>4, <1>5 DEF Next, ReadStep, WriteStep, Unseen

\* To the peer, two goroutines with a channel between them that may be full,
\* a codec that may fail and a Conn that anybody may close are as one that
\* takes up its frames in order and answers them in turn, each at most once,
\* and nobody after the end.
THEOREM BridgeImplementsReplies == Spec => ImplementsReplies
<1>1. Init => Promise!Init
  BY RepliesInit
<1>2. BridgeInv /\ [Next]_vars => [Promise!Next]_(Promise!vars)
  BY RepliesStep
<1> QED
  BY <1>1, <1>2, BridgeInvariant, PTL DEF Spec, Promise!Spec, ImplementsReplies
=============================================================================
