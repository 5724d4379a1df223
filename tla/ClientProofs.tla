---------------------------- MODULE ClientProofs ----------------------------
(***************************************************************************)
(* Theorems about Client, for every number of requests, every MaxSeq and   *)
(* every MaxRetries.  IInv, defined in Client, is the inductive invariant. *)
(***************************************************************************)
EXTENDS Client, WellFoundedInduction, TLAPS

-----------------------------------------------------------------------------
(* The arithmetic of sequence numbers, for every set of pending numbers and *)
(* every MaxSeq, the code's 2^16-1 and 2^32-1 among them                    *)

\* What one step of the counter does, with its wrap.
LEMMA AdvanceValue ==
  ASSUME NEW n \in Seqs
  PROVE  Advance(n) = IF n + 1 < MaxSeq THEN n + 1 ELSE 1
<1> USE MaxSeqAssumption DEF Seqs
<1>1. CASE n + 1 < MaxSeq
  <2>1. (n + 1) % MaxSeq = n + 1
    BY <1>1
  <2> QED
    BY <1>1, <2>1 DEF Advance
<1>2. CASE n + 1 = MaxSeq
  <2>1. (n + 1) % MaxSeq = 0
    BY <1>2
  <2> QED
    BY <1>2, <2>1 DEF Advance
<1>3. CASE n = MaxSeq
  <2>1. (n + 1) % MaxSeq = 1
    BY <1>3
  <2> QED
    BY <1>3, <2>1 DEF Advance
<1> QED
  BY <1>1, <1>2, <1>3

\* Allocate returns one of the numbers, never the 0 that says "closed", and
\* leaves its counter at one, also after a conflict, whose step has no modulo.
THEOREM AllocationStaysInRange ==
  ASSUME NEW n \in Seqs, NEW used
  PROVE  Allocation(n, used) \in [seq : Seqs, next : Seqs]
<1>1. Advance(n) \in Seqs /\ Advance(n) + 1 \in Seqs
  BY AdvanceValue, MaxSeqAssumption DEF Seqs
<1> QED
  BY <1>1 DEF Allocation

\* A set of natural numbers has a least one.
LEMMA LeastOf ==
  ASSUME NEW T \in SUBSET Nat, T # {}
  PROVE  \E x \in T : \A y \in T : x <= y
<1> DEFINE R == {ss \in Nat \X Nat : ss[1] < ss[2]}
<1>1. IsWellFoundedOn(R, Nat)
  BY NatLessThanWellFounded DEF OpToRel
<1>2. \A x, y \in Nat : ~(<<y, x>> \in R) => x <= y
  OBVIOUS
<1> HIDE DEF R
<1>3. \E x \in T : \A y \in T : ~(<<y, x>> \in R)
  BY <1>1, WFMin
<1> QED
  BY <1>2, <1>3

\* The values of the counter over successive allocations without a conflict.
CountsOn(counter) ==
  /\ counter \in [Nat -> 1..(MaxSeq - 1)]
  /\ \A i \in Nat : counter[i + 1] = Advance(counter[i])

\* Up to the wrap it counts by one.
LEMMA CountsUp ==
  ASSUME NEW counter, CountsOn(counter), NEW i \in Nat, NEW k \in Nat,
         counter[i] + k < MaxSeq
  PROVE  counter[i + k] = counter[i] + k
<1> USE MaxSeqAssumption
<1> DEFINE T == {d \in Nat : counter[i] + d < MaxSeq /\ counter[i + d] # counter[i] + d}
<1>1. SUFFICES ASSUME T # {} PROVE FALSE
  OBVIOUS
<1>2. PICK d \in T : \A e \in T : d <= e
  BY <1>1, LeastOf
<1>3. counter[i] \in 1..(MaxSeq - 1)
  BY DEF CountsOn
<1>4. d # 0
  BY <1>2, <1>3
<1>5. d - 1 \in Nat /\ ~(d <= d - 1) /\ counter[i] + (d - 1) < MaxSeq
  BY <1>2, <1>3, <1>4
<1>6. counter[i + (d - 1)] = counter[i] + (d - 1)
  BY <1>2, <1>5
<1>7. i + (d - 1) \in Nat /\ (i + (d - 1)) + 1 = i + d
  BY <1>5
<1>8. counter[i + d] = Advance(counter[i] + (d - 1))
  BY <1>6, <1>7 DEF CountsOn
<1>9. counter[i] + (d - 1) \in Seqs /\ (counter[i] + (d - 1)) + 1 < MaxSeq
  BY <1>2, <1>3, <1>5 DEF Seqs
<1>10. counter[i + d] = (counter[i] + (d - 1)) + 1
  BY <1>8, <1>9, AdvanceValue
<1> QED
  BY <1>2, <1>3, <1>10

\* After it, it counts by one from 1.
LEMMA CountsOver ==
  ASSUME NEW counter, CountsOn(counter), NEW i \in Nat, NEW k \in Nat,
         MaxSeq <= counter[i] + k, k < MaxSeq
  PROVE  counter[i + k] = (counter[i] + k) - (MaxSeq - 1)
<1> USE MaxSeqAssumption
<1> DEFINE w == (MaxSeq - 1) - counter[i]
<1>1. counter[i] \in 1..(MaxSeq - 1)
  BY DEF CountsOn
<1>2. w \in Nat /\ counter[i] + w = MaxSeq - 1 /\ k - (w + 1) \in Nat
  BY <1>1
<1>3. counter[i + w] = MaxSeq - 1
  BY <1>2, CountsUp
<1>4. MaxSeq - 1 \in Seqs /\ ~((MaxSeq - 1) + 1 < MaxSeq)
  BY DEF Seqs
<1>5. i + w \in Nat /\ (i + w) + 1 \in Nat
  BY <1>2
<1>6. counter[(i + w) + 1] = 1
  BY <1>3, <1>4, <1>5, AdvanceValue DEF CountsOn
<1>7. 1 + (k - (w + 1)) < MaxSeq
  BY <1>1, <1>2
<1>8. counter[((i + w) + 1) + (k - (w + 1))] = 1 + (k - (w + 1))
  BY <1>2, <1>5, <1>6, <1>7, CountsUp
<1>9. ((i + w) + 1) + (k - (w + 1)) = i + k
  BY <1>2
<1>10. 1 + (k - (w + 1)) = (counter[i] + k) - (MaxSeq - 1)
  BY <1>1, <1>2
<1> QED
  BY <1>8, <1>9, <1>10

\* Numbers repeat only after all others had their turn: when two of a series of
\* allocations without conflicts return the same number, every number of
\* 1..MaxSeq-1 was returned from the one to the other.  It is what keeps a late
\* answer from meeting a new request with its number (Allocate's counter).
THEOREM NumbersTakeTurns ==
  ASSUME NEW counter \in [Nat -> Seqs], NEW used,
         counter[0] < MaxSeq,
         \A i \in Nat : /\ counter[i] \notin used[i]
                        /\ counter[i + 1] = Allocation(counter[i], used[i]).next,
         NEW i \in Nat, NEW j \in Nat, i < j,
         Allocation(counter[i], used[i]).seq = Allocation(counter[j], used[j]).seq,
         NEW s \in 1..(MaxSeq - 1)
  PROVE  \E k \in i..(j - 1) : Allocation(counter[k], used[k]).seq = s
<1> USE MaxSeqAssumption
<1>1. \A k \in Nat : /\ Allocation(counter[k], used[k]).seq = counter[k]
                     /\ counter[k + 1] = Advance(counter[k])
  BY DEF Allocation
<1>2. ASSUME NEW n \in Seqs PROVE Advance(n) \in 1..(MaxSeq - 1)
  <2>1. Advance(n) = IF n + 1 < MaxSeq THEN n + 1 ELSE 1
    BY AdvanceValue
  <2>2. n \in Nat /\ 1 <= n
    BY DEF Seqs
  <2> QED
    BY ONLY <2>1, <2>2, MaxSeqAssumption
<1>3. \A k \in Nat : counter[k] \in 1..(MaxSeq - 1)
  <2> SUFFICES ASSUME NEW k \in Nat PROVE counter[k] \in 1..(MaxSeq - 1)
    OBVIOUS
  <2>1. CASE k = 0
    BY <2>1 DEF Seqs
  <2>2. CASE k # 0
    <3>1. k - 1 \in Nat /\ (k - 1) + 1 = k
      BY <2>2
    <3>2. counter[k] = Advance(counter[k - 1]) /\ counter[k - 1] \in Seqs
      BY <1>1, <3>1
    <3> QED
      BY <1>2, <3>2
  <2> QED
    BY <2>1, <2>2
<1>4. CountsOn(counter)
  <2>1. counter \in [Nat -> 1..(MaxSeq - 1)]
    BY <1>3
  <2> QED
    BY <1>1, <2>1 DEF CountsOn
<1>5. counter[i] = counter[j] /\ counter[i] \in 1..(MaxSeq - 1)
  BY <1>1, <1>3
<1>6. MaxSeq - 1 <= j - i
  <2> SUFFICES ASSUME j - i < MaxSeq - 1 PROVE FALSE
    BY <1>5
  <2>1. j - i \in Nat /\ j - i # 0 /\ i + (j - i) = j
    OBVIOUS
  <2>2. CASE counter[i] + (j - i) < MaxSeq
    <3>1. counter[j] = counter[i] + (j - i)
      BY <1>4, <2>1, <2>2, CountsUp
    <3> QED
      BY <1>5, <2>1, <3>1
  <2>3. CASE MaxSeq <= counter[i] + (j - i)
    <3>1. counter[j] = (counter[i] + (j - i)) - (MaxSeq - 1)
      BY <1>4, <2>1, <2>3, CountsOver
    <3> QED
      BY <1>5, <2>1, <3>1
  <2> QED
    BY <1>5, <2>1, <2>2, <2>3
<1>7. CASE counter[i] <= s
  <2> DEFINE k == s - counter[i]
  <2>1. /\ k \in Nat /\ i + k \in i..(j - 1) /\ counter[i] + k < MaxSeq
        /\ counter[i] + k = s
    BY <1>5, <1>6, <1>7
  <2> HIDE DEF k
  <2>2. counter[i + k] = counter[i] + k
    BY ONLY <1>4, <2>1, CountsUp, i \in Nat
  <2>3. i + k \in Nat
    BY <2>1
  <2> QED
    BY <1>1, <2>1, <2>2, <2>3
<1>8. CASE s < counter[i]
  <2> DEFINE k == (s + (MaxSeq - 1)) - counter[i]
  <2>1. /\ k \in Nat /\ i + k \in i..(j - 1) /\ MaxSeq <= counter[i] + k /\ k < MaxSeq
        /\ (counter[i] + k) - (MaxSeq - 1) = s
    BY <1>5, <1>6, <1>8
  <2> HIDE DEF k
  <2>2. counter[i + k] = (counter[i] + k) - (MaxSeq - 1)
    BY ONLY <1>4, <2>1, CountsOver, i \in Nat
  <2>3. i + k \in Nat
    BY <2>1
  <2> QED
    BY <1>1, <2>1, <2>2, <2>3
<1> QED
  BY <1>5, <1>7, <1>8

\* A number that is pending is given out again only when it and the one before
\* it are both pending.
THEOREM RepeatsNeedTwo ==
  ASSUME NEW n \in Seqs, NEW used
  PROVE  RepeatNeedsTwoPending(n, used)
BY DEF RepeatNeedsTwoPending, Allocation

\* And then it is, whatever else is free: with 1 and 2 pending and the counter at
\* 1, Allocate returns 2, although 3 was free.
THEOREM RepeatsAlthoughFree ==
  ASSUME MaxSeq > 4
  PROVE  \E n \in Seqs, used \in SUBSET Seqs : ~FreshWhileOneIsFree(n, used)
<1>1. 1 \in Seqs /\ {1, 2} \in SUBSET Seqs
  BY MaxSeqAssumption DEF Seqs
<1>2. Advance(1) = 2
  BY <1>1, AdvanceValue, MaxSeqAssumption
<1>3. Allocation(1, {1, 2}).seq = 2
  BY <1>2 DEF Allocation
<1>4. 3 \in 1..(MaxSeq - 1) /\ 3 \notin {1, 2}
  BY MaxSeqAssumption
<1>5. ~FreshWhileOneIsFree(1, {1, 2})
  BY <1>3, <1>4 DEF FreshWhileOneIsFree
<1> QED
  BY <1>1, <1>5

-----------------------------------------------------------------------------
(* The inductive invariant *)

LEMMA AdvanceInRange ==
  ASSUME NEW n \in Seqs
  PROVE  /\ Advance(n) \in Seqs
         /\ Advance(n) < MaxSeq
         /\ n + 1 < MaxSeq => Advance(n) = n + 1
         /\ n + 1 = MaxSeq => Advance(n) = 1
BY AdvanceValue, MaxSeqAssumption DEF Seqs

LEMMA AllocationInRange ==
  ASSUME NEW n \in Seqs, NEW used
  PROVE  Allocation(n, used).seq \in Seqs /\ Allocation(n, used).next \in Seqs
BY AllocationStaysInRange

\* Every action keeps the type invariant.  A second close of done is the last
\* thing that happens, so no channel is closed a third time.
LEMMA TypeStep ==
  ASSUME IInv, ~Panicked, Step
  PROVE  TypeOK'
<1>. USE DEF IInv, TypeOK, SMTypeOK, CallStates, LoopStates, Errors,
             smVars, netVars
<1>1. ASSUME NEW r \in Requests, Begin(r)
      PROVE  TypeOK'
  BY <1>1, AllocationInRange DEF Begin, Allocate
<1>2. ASSUME NEW r \in Requests, Refused(r)
      PROVE  TypeOK'
  BY <1>2 DEF Refused
<1>3. ASSUME NEW r \in Requests, Queue(r)
      PROVE  TypeOK'
  BY <1>3 DEF Queue, Enqueue
<1>4. ASSUME NEW r \in Requests, Write(r)
      PROVE  TypeOK'
  BY <1>4 DEF Write, WriteReaches, WriteLost
<1>5. ASSUME NEW r \in Requests, WriteError(r)
      PROVE  TypeOK'
  BY <1>5 DEF WriteError, WriteFails
<1>6. ASSUME NEW r \in Requests, CtxDone(r)
      PROVE  TypeOK'
  BY <1>6 DEF CtxDone
<1>7. ASSUME NEW r \in Requests, ReturnAnswer(r)
      PROVE  TypeOK'
  BY <1>7 DEF ReturnAnswer
<1>8. ASSUME NEW r \in Requests, ReturnError(r)
      PROVE  TypeOK'
  BY <1>8 DEF ReturnError
<1>9. ASSUME NEW r \in Requests, Finish(r)
      PROVE  TypeOK'
  <2>1. \A q \in Requests : closes[q] + 1 \in 0..2
    BY DEF Panicked
  <2>. QED BY <1>9, <2>1 DEF Finish, Remove
<1>10. ASSUME NEW r \in Requests, Timer(r)
      PROVE  TypeOK'
  <2>1. loop[r] = "armed" => retries[r] + 1 \in 0..(MaxRetries + 1)
    BY MaxRetriesAssumption DEF RetriesBounded
  <2>. QED BY <1>10, <2>1 DEF Timer, TimerAfterSettled, TimerExpires, DoneSeen
<1>11. ASSUME NEW r \in Requests, Retransmit(r)
      PROVE  TypeOK'
  BY <1>11 DEF Retransmit, Resent, WriteReaches, WriteLost
<1>12. ASSUME NEW r \in Requests, RetransmitError(r)
      PROVE  TypeOK'
  <2>1. closes[r] + 1 \in 0..2
    BY DEF Panicked
  <2>. QED BY <1>12, <2>1 DEF RetransmitError, ResendFailed, Abandon, WriteFails
<1>13. ASSUME NEW r \in Requests, Exhausted(r)
      PROVE  TypeOK'
  <2>1. closes[r] + 1 \in 0..2
    BY DEF Panicked
  <2>. QED BY <1>13, <2>1 DEF Exhausted, GiveUp, Abandon
<1>14. ASSUME NEW r \in Requests, ReceiveMatched(r)
      PROVE  TypeOK'
  <2>1. seq[r] \in Seqs
    BY <1>14 DEF ReceiveMatched, Numbered
  <2>. QED BY <1>14, <2>1 DEF ReceiveMatched, ResolveLookup
<1>15. ASSUME NEW r \in Requests, ReceiveStale(r)
      PROVE  TypeOK'
  BY <1>15 DEF ReceiveStale
<1>16. ASSUME Deliver
      PROVE  TypeOK'
  <2>1. hit \in Requests /\ frame \in Requests /\ closes[hit] + 1 \in 0..2
    BY <1>16 DEF Deliver, ReaderHolds, Panicked
  <2>. QED BY <1>16, <2>1 DEF Deliver, ResolveDeliver
<1>17. ASSUME ReaderExit
      PROVE  TypeOK'
  BY <1>17 DEF ReaderExit
<1>18. ASSUME CloseBegin
      PROVE  TypeOK'
  <2>1. \A q \in Requests : closes[q] + 1 \in 0..2
    BY DEF Panicked
  <2>. QED BY <1>18, <2>1 DEF CloseBegin, CloseManager
<1>19. ASSUME CloseConn
      PROVE  TypeOK'
  BY <1>19 DEF CloseConn
<1>20. ASSUME CloseReturn
      PROVE  TypeOK'
  BY <1>20 DEF CloseReturn
<1>21. ASSUME LinkFails
      PROVE  TypeOK'
  BY <1>21 DEF LinkFails
<1>. QED BY <1>1, <1>2, <1>3, <1>4, <1>5, <1>6, <1>7, <1>8, <1>9, <1>10,
            <1>11, <1>12, <1>13, <1>14, <1>15, <1>16, <1>17, <1>18, <1>19,
            <1>20, <1>21 DEF Step, CallStep, RetryStep, CloseStep

\* retryLoop re-arms its timer only while it may resend once more.
LEMMA RetriesStep ==
  ASSUME IInv, ~Panicked, Step
  PROVE  RetriesBounded'
<1>. USE MaxRetriesAssumption
<1>. USE DEF IInv, TypeOK, SMTypeOK, CallStates, LoopStates, Errors,
             smVars, netVars, RetriesBounded
<1>1. ASSUME NEW r \in Requests, Queue(r)
      PROVE  RetriesBounded'
  BY <1>1 DEF Queue, Enqueue, Numbered
<1>2. ASSUME NEW r \in Requests, Timer(r)
      PROVE  RetriesBounded'
  BY <1>2 DEF Timer, TimerAfterSettled, TimerExpires, DoneSeen
<1>3. ASSUME NEW r \in Requests, Retransmit(r)
      PROVE  RetriesBounded'
  BY <1>3 DEF Retransmit, Resent, WriteReaches, WriteLost
<1>4. ASSUME NEW r \in Requests, RetransmitError(r)
      PROVE  RetriesBounded'
  BY <1>4 DEF RetransmitError, ResendFailed, Abandon, WriteFails
<1>5. ASSUME NEW r \in Requests, Exhausted(r)
      PROVE  RetriesBounded'
  BY <1>5 DEF Exhausted, GiveUp, Abandon
<1>6. ASSUME NEW r \in Requests,
             Begin(r) \/ Refused(r) \/ Write(r)
               \/ WriteError(r) \/ CtxDone(r) \/ ReturnAnswer(r)
      PROVE  RetriesBounded'
  BY <1>6 DEF Begin, Allocate, Refused, Write, WriteReaches, WriteLost,
     WriteError, WriteFails, CtxDone, ReturnAnswer
<1>7. ASSUME NEW r \in Requests,
             ReturnError(r) \/ Finish(r)
               \/ ReceiveMatched(r) \/ ReceiveStale(r)
      PROVE  RetriesBounded'
  BY <1>7 DEF ReturnError, Finish, Remove, ReceiveMatched, ResolveLookup,
     ReceiveStale
<1>8. ASSUME
             Deliver \/ ReaderExit \/ CloseBegin
               \/ CloseConn \/ CloseReturn \/ LinkFails
      PROVE  RetriesBounded'
  BY <1>8 DEF Deliver, ResolveDeliver, ReaderExit, CloseBegin,
     CloseManager, CloseConn, CloseReturn, LinkFails
<1>. QED BY <1>1, <1>2, <1>3, <1>4, <1>5, <1>6, <1>7, <1>8 DEF Step,
            CallStep, RetryStep, CloseStep

\* A request has its number before it is queued, sent or looked for.
LEMMA NumberedStep ==
  ASSUME IInv, ~Panicked, Step
  PROVE  Numbered'
<1>. USE DEF IInv, TypeOK, SMTypeOK, CallStates, LoopStates, Errors,
             smVars, netVars, Numbered
<1>1. ASSUME NEW r \in Requests, Begin(r)
      PROVE  Numbered'
  BY <1>1, AllocationInRange DEF Begin, Allocate, PendingIsLive
<1>2. ASSUME NEW r \in Requests, Queue(r)
      PROVE  Numbered'
  BY <1>2 DEF Queue, Enqueue
<1>3. ASSUME NEW r \in Requests, Write(r)
      PROVE  Numbered'
  BY <1>3 DEF Write, WriteReaches, WriteLost
<1>4. ASSUME NEW r \in Requests, Finish(r)
      PROVE  Numbered'
  <2>1. \A q \in Requests : call[q] \in {"idle", "allocated"} => q # pending[seq[r]]
    BY <1>4, RequestsAssumption DEF Finish, PendingIsLive
  <2>. QED BY <1>4, <2>1 DEF Finish, Remove
<1>5. ASSUME NEW r \in Requests, Timer(r)
      PROVE  Numbered'
  BY <1>5 DEF Timer, TimerAfterSettled, TimerExpires, DoneSeen
<1>6. ASSUME NEW r \in Requests, Retransmit(r)
      PROVE  Numbered'
  BY <1>6 DEF Retransmit, Resent, WriteReaches, WriteLost
<1>7. ASSUME NEW r \in Requests, RetransmitError(r)
      PROVE  Numbered'
  BY <1>7 DEF RetransmitError, ResendFailed, Abandon, WriteFails
<1>8. ASSUME NEW r \in Requests, Exhausted(r)
      PROVE  Numbered'
  BY <1>8 DEF Exhausted, GiveUp, Abandon
<1>9. ASSUME Deliver
      PROVE  Numbered'
  BY <1>9 DEF Deliver, ResolveDeliver, ReaderHolds
<1>10. ASSUME CloseBegin
      PROVE  Numbered'
  BY <1>10, RequestsAssumption DEF CloseBegin, CloseManager, PendingIsLive
<1>11. ASSUME NEW r \in Requests,
              Refused(r) \/ WriteError(r) \/ CtxDone(r)
                \/ ReturnAnswer(r) \/ ReturnError(r) \/ ReceiveMatched(r)
      PROVE  Numbered'
  BY <1>11 DEF Refused, WriteError, WriteFails, CtxDone, ReturnAnswer,
     ReturnError, ReceiveMatched, ResolveLookup
<1>12. ASSUME NEW r \in Requests, ReceiveStale(r)
      PROVE  Numbered'
  BY <1>12 DEF ReceiveStale
<1>13. ASSUME ReaderExit \/ CloseConn \/ CloseReturn \/ LinkFails
      PROVE  Numbered'
  BY <1>13 DEF ReaderExit, CloseConn, CloseReturn, LinkFails
<1>. QED BY <1>1, <1>2, <1>3, <1>4, <1>5, <1>6, <1>7, <1>8, <1>9, <1>10,
            <1>11, <1>12, <1>13 DEF Step, CallStep, RetryStep, CloseStep

\* Whoever settles a request, returns from its call or ends its retryLoop
\* takes it out of the table first, or finds that somebody did.
LEMMA PendingStep ==
  ASSUME IInv, ~Panicked, Step
  PROVE  PendingIsLive'
<1>. USE DEF IInv, TypeOK, SMTypeOK, CallStates, LoopStates, Errors,
             smVars, netVars, PendingIsLive, Numbered
<1>1. ASSUME NEW r \in Requests, Begin(r)
      PROVE  PendingIsLive'
  BY <1>1 DEF Begin, Allocate
<1>2. ASSUME NEW r \in Requests, Queue(r)
      PROVE  PendingIsLive'
  BY <1>2 DEF Queue, Enqueue
<1>3. ASSUME NEW r \in Requests, ReturnAnswer(r)
      PROVE  PendingIsLive'
  BY <1>3 DEF ReturnAnswer, OpenIsEmpty
<1>4. ASSUME NEW r \in Requests, Finish(r)
      PROVE  PendingIsLive'
  BY <1>4 DEF Finish, Remove
<1>5. ASSUME NEW r \in Requests, Timer(r)
      PROVE  PendingIsLive'
  BY <1>5 DEF Timer, TimerAfterSettled, TimerExpires, DoneSeen
<1>6. ASSUME NEW r \in Requests, Retransmit(r)
      PROVE  PendingIsLive'
  BY <1>6 DEF Retransmit, Resent, WriteReaches, WriteLost
<1>7. ASSUME NEW r \in Requests, RetransmitError(r)
      PROVE  PendingIsLive'
  BY <1>7 DEF RetransmitError, ResendFailed, Abandon, WriteFails
<1>8. ASSUME NEW r \in Requests, Exhausted(r)
      PROVE  PendingIsLive'
  BY <1>8 DEF Exhausted, GiveUp, Abandon
<1>9. ASSUME NEW r \in Requests, ReceiveMatched(r)
      PROVE  PendingIsLive'
  BY <1>9 DEF ReceiveMatched, ResolveLookup
<1>10. ASSUME Deliver
      PROVE  PendingIsLive'
  BY <1>10 DEF Deliver, ResolveDeliver, ReaderHolds
<1>11. ASSUME CloseBegin
      PROVE  PendingIsLive'
  BY <1>11 DEF CloseBegin, CloseManager
<1>12. ASSUME NEW r \in Requests,
              Refused(r) \/ Write(r) \/ WriteError(r)
                \/ CtxDone(r) \/ ReturnError(r) \/ ReceiveStale(r)
      PROVE  PendingIsLive'
  BY <1>12 DEF Refused, Write, WriteReaches, WriteLost, WriteError,
     WriteFails, CtxDone, ReturnError, ReceiveStale
<1>13. ASSUME ReaderExit \/ CloseConn \/ CloseReturn \/ LinkFails
      PROVE  PendingIsLive'
  BY <1>13 DEF ReaderExit, CloseConn, CloseReturn, LinkFails
<1>. QED BY <1>1, <1>2, <1>3, <1>4, <1>5, <1>6, <1>7, <1>8, <1>9, <1>10,
            <1>11, <1>12, <1>13 DEF Step, CallStep, RetryStep, CloseStep

\* Between the two halves of Resolve the request it found stays its own.
LEMMA ReaderStep ==
  ASSUME IInv, ~Panicked, Step
  PROVE  ReaderHolds'
<1>. USE RequestsAssumption
<1>. USE DEF IInv, TypeOK, SMTypeOK, CallStates, LoopStates, Errors,
             smVars, netVars, ReaderHolds, Numbered, PendingIsLive
<1>1. ASSUME NEW r \in Requests, Begin(r)
      PROVE  ReaderHolds'
  <2>1. hit # NoReq => hit # r /\ frame # r
    BY <1>1 DEF Begin, Seqs
  <2>. QED BY <1>1, <2>1 DEF Begin, Allocate
<1>2. ASSUME NEW r \in Requests, Queue(r)
      PROVE  ReaderHolds'
  BY <1>2 DEF Queue, Enqueue
<1>3. ASSUME NEW r \in Requests, Finish(r)
      PROVE  ReaderHolds'
  BY <1>3 DEF Finish, Remove
<1>4. ASSUME NEW r \in Requests, RetransmitError(r)
      PROVE  ReaderHolds'
  BY <1>4 DEF RetransmitError, ResendFailed, Abandon, WriteFails
<1>5. ASSUME NEW r \in Requests, Exhausted(r)
      PROVE  ReaderHolds'
  BY <1>5 DEF Exhausted, GiveUp, Abandon
<1>6. ASSUME NEW r \in Requests, ReceiveMatched(r)
      PROVE  ReaderHolds'
  BY <1>6 DEF ReceiveMatched, ResolveLookup
<1>7. ASSUME Deliver
      PROVE  ReaderHolds'
  BY <1>7 DEF Deliver, ResolveDeliver
<1>8. ASSUME CloseBegin
      PROVE  ReaderHolds'
  BY <1>8 DEF CloseBegin, CloseManager
<1>9. ASSUME NEW r \in Requests,
             Refused(r) \/ Write(r) \/ WriteError(r)
               \/ CtxDone(r) \/ ReturnAnswer(r) \/ ReturnError(r)
      PROVE  ReaderHolds'
  BY <1>9 DEF Refused, Write, WriteReaches, WriteLost, WriteError,
     WriteFails, CtxDone, ReturnAnswer, ReturnError
<1>10. ASSUME NEW r \in Requests,
              Timer(r) \/ Retransmit(r) \/ ReceiveStale(r)
      PROVE  ReaderHolds'
  BY <1>10 DEF Timer, TimerAfterSettled, TimerExpires, DoneSeen,
     Retransmit, Resent, WriteReaches, WriteLost, ReceiveStale
<1>11. ASSUME ReaderExit \/ CloseConn \/ CloseReturn \/ LinkFails
      PROVE  ReaderHolds'
  BY <1>11 DEF ReaderExit, CloseConn, CloseReturn, LinkFails
<1>. QED BY <1>1, <1>2, <1>3, <1>4, <1>5, <1>6, <1>7, <1>8, <1>9, <1>10,
            <1>11 DEF Step, CallStep, RetryStep, CloseStep

\* Whoever writes to a request's channels closed its done first.
LEMMA OpenStep ==
  ASSUME IInv, ~Panicked, Step
  PROVE  OpenIsEmpty'
<1>. USE FailedAssumption
<1>. USE DEF IInv, TypeOK, SMTypeOK, CallStates, LoopStates, Errors,
             smVars, netVars, OpenIsEmpty
<1>1. ASSUME NEW r \in Requests, ReturnAnswer(r)
      PROVE  OpenIsEmpty'
  BY <1>1 DEF ReturnAnswer
<1>2. ASSUME NEW r \in Requests, Finish(r)
      PROVE  OpenIsEmpty'
  BY <1>2 DEF Finish, Remove
<1>3. ASSUME NEW r \in Requests, RetransmitError(r)
      PROVE  OpenIsEmpty'
  BY <1>3 DEF RetransmitError, ResendFailed, Abandon, WriteFails
<1>4. ASSUME NEW r \in Requests, Exhausted(r)
      PROVE  OpenIsEmpty'
  BY <1>4 DEF Exhausted, GiveUp, Abandon
<1>5. ASSUME Deliver
      PROVE  OpenIsEmpty'
  BY <1>5 DEF Deliver, ResolveDeliver
<1>6. ASSUME CloseBegin
      PROVE  OpenIsEmpty'
  BY <1>6 DEF CloseBegin, CloseManager
<1>7. ASSUME NEW r \in Requests,
             Begin(r) \/ Refused(r) \/ Queue(r)
               \/ Write(r) \/ WriteError(r) \/ CtxDone(r)
      PROVE  OpenIsEmpty'
  BY <1>7 DEF Begin, Allocate, Refused, Queue, Enqueue, Write,
     WriteReaches, WriteLost, WriteError, WriteFails, CtxDone
<1>8. ASSUME NEW r \in Requests,
             ReturnError(r) \/ Timer(r)
               \/ Retransmit(r) \/ ReceiveMatched(r) \/ ReceiveStale(r)
      PROVE  OpenIsEmpty'
  BY <1>8 DEF ReturnError, Timer, TimerAfterSettled, TimerExpires,
     DoneSeen, Retransmit, Resent, WriteReaches, WriteLost, ReceiveMatched,
     ResolveLookup, ReceiveStale
<1>9. ASSUME ReaderExit \/ CloseConn \/ CloseReturn \/ LinkFails
      PROVE  OpenIsEmpty'
  BY <1>9 DEF ReaderExit, CloseConn, CloseReturn, LinkFails
<1>. QED BY <1>1, <1>2, <1>3, <1>4, <1>5, <1>6, <1>7, <1>8, <1>9 DEF Step,
            CallStep, RetryStep, CloseStep

\* Only the first to close done writes to the channels.
LEMMA SettledStep ==
  ASSUME IInv, ~Panicked, Step
  PROVE  SettledOnce'
<1>. USE FailedAssumption
<1>. USE DEF IInv, TypeOK, SMTypeOK, CallStates, LoopStates, Errors,
             smVars, netVars, SettledOnce, OpenIsEmpty
<1>1. ASSUME NEW r \in Requests, ReturnAnswer(r)
      PROVE  SettledOnce'
  BY <1>1 DEF ReturnAnswer
<1>2. ASSUME NEW r \in Requests, Finish(r)
      PROVE  SettledOnce'
  BY <1>2 DEF Finish, Remove
<1>3. ASSUME NEW r \in Requests, RetransmitError(r)
      PROVE  SettledOnce'
  BY <1>3 DEF RetransmitError, ResendFailed, Abandon, WriteFails
<1>4. ASSUME NEW r \in Requests, Exhausted(r)
      PROVE  SettledOnce'
  BY <1>4 DEF Exhausted, GiveUp, Abandon
<1>5. ASSUME Deliver
      PROVE  SettledOnce'
  BY <1>5 DEF Deliver, ResolveDeliver
<1>6. ASSUME CloseBegin
      PROVE  SettledOnce'
  BY <1>6, RequestsAssumption DEF CloseBegin, CloseManager, PendingIsLive
<1>7. ASSUME NEW r \in Requests,
             Begin(r) \/ Refused(r) \/ Queue(r)
               \/ Write(r) \/ WriteError(r) \/ CtxDone(r)
      PROVE  SettledOnce'
  BY <1>7 DEF Begin, Allocate, Refused, Queue, Enqueue, Write,
     WriteReaches, WriteLost, WriteError, WriteFails, CtxDone
<1>8. ASSUME NEW r \in Requests,
             ReturnError(r) \/ Timer(r)
               \/ Retransmit(r) \/ ReceiveMatched(r) \/ ReceiveStale(r)
      PROVE  SettledOnce'
  BY <1>8 DEF ReturnError, Timer, TimerAfterSettled, TimerExpires,
     DoneSeen, Retransmit, Resent, WriteReaches, WriteLost, ReceiveMatched,
     ResolveLookup, ReceiveStale
<1>9. ASSUME ReaderExit \/ CloseConn \/ CloseReturn \/ LinkFails
      PROVE  SettledOnce'
  BY <1>9 DEF ReaderExit, CloseConn, CloseReturn, LinkFails
<1>. QED BY <1>1, <1>2, <1>3, <1>4, <1>5, <1>6, <1>7, <1>8, <1>9 DEF Step,
            CallStep, RetryStep, CloseStep

\* Resolve goes by the number, and numbers of queued requests do not change.
LEMMA SameNumberStep ==
  ASSUME IInv, ~Panicked, Step
  PROVE  SameNumber'
<1>. USE FailedAssumption
<1>. USE DEF IInv, TypeOK, SMTypeOK, CallStates, LoopStates, Errors,
             smVars, netVars, SameNumber, Numbered
<1>1. ASSUME NEW r \in Requests, Begin(r)
      PROVE  SameNumber'
  <2>1. \A q \in Requests :
         /\ respC[q] # NoReq => q # r /\ respC[q] # r
         /\ result[q] \in Requests => q # r /\ result[q] # r
    BY <1>1 DEF Begin, Seqs
  <2>2. \A q \in Requests : q # r => seq'[q] = seq[q]
    BY <1>1 DEF Begin, Allocate
  <2>3. respC' = respC /\ result' = result
    BY <1>1 DEF Begin, Allocate
  <2>4. ASSUME NEW q \in Requests, respC[q] # NoReq
        PROVE  seq'[q] \in Seqs /\ seq'[respC[q]] = seq'[q]
    BY <2>1, <2>2, <2>4
  <2>5. ASSUME NEW q \in Requests, result[q] \in Requests
        PROVE  seq'[q] \in Seqs /\ seq'[result[q]] = seq'[q]
    BY <2>1, <2>2, <2>5
  <2>. QED BY <2>3, <2>4, <2>5
<1>2. ASSUME NEW r \in Requests, ReturnAnswer(r)
      PROVE  SameNumber'
  BY <1>2 DEF ReturnAnswer
<1>3. ASSUME Deliver
      PROVE  SameNumber'
  BY <1>3 DEF Deliver, ResolveDeliver, ReaderHolds
<1>4. ASSUME NEW r \in Requests,
             Refused(r) \/ Queue(r) \/ Write(r)
               \/ WriteError(r) \/ CtxDone(r) \/ ReturnError(r)
      PROVE  SameNumber'
  BY <1>4 DEF Refused, Queue, Enqueue, Write, WriteReaches, WriteLost,
     WriteError, WriteFails, CtxDone, ReturnError
<1>5. ASSUME NEW r \in Requests,
             Finish(r) \/ Timer(r) \/ Retransmit(r)
               \/ RetransmitError(r) \/ Exhausted(r) \/ ReceiveMatched(r) \/ ReceiveStale(r)
      PROVE  SameNumber'
  BY <1>5 DEF Finish, Remove, Timer, TimerAfterSettled, TimerExpires,
     DoneSeen, Retransmit, Resent, WriteReaches, WriteLost,
     RetransmitError, ResendFailed, Abandon, WriteFails, Exhausted, GiveUp,
     ReceiveMatched, ResolveLookup, ReceiveStale
<1>6. ASSUME
             ReaderExit \/ CloseBegin
               \/ CloseConn \/ CloseReturn \/ LinkFails
      PROVE  SameNumber'
  BY <1>6 DEF ReaderExit, CloseBegin, CloseManager, CloseConn, CloseReturn,
     LinkFails
<1>. QED BY <1>1, <1>2, <1>3, <1>4, <1>5, <1>6 DEF Step, CallStep,
            RetryStep, CloseStep

\* Up to the wrap, Allocate never meets a conflict: all pending numbers are
\* smaller than the counter.
LEMMA NumbersInOrderStep ==
  ASSUME IInv, ~Panicked, Step
  PROVE  NumbersInOrder'
<1>. USE DEF IInv, TypeOK, SMTypeOK, CallStates, LoopStates, Errors,
             smVars, netVars, NumbersInOrder, NoWrap
<1>1. ASSUME NEW r \in Requests, Begin(r)
      PROVE  NumbersInOrder'
  <2>. SUFFICES ASSUME allocs + 1 < MaxSeq
              PROVE  NumbersInOrder'
    BY <1>1 DEF Begin
  <2>1. next = allocs + 1 /\ next < MaxSeq
    BY MaxSeqAssumption
  <2>2. \A q \in Requests : seq[q] \in Nat /\ seq[q] < next
    BY <2>1, MaxSeqAssumption DEF Seqs
  <2>3. pending[next] = NoReq
    BY <2>2, MaxSeqAssumption DEF PendingIsLive, Seqs
  <2>4. seq' = [seq EXCEPT ![r] = next] /\ next' = Advance(next)
    BY <1>1, <2>3 DEF Begin, Allocate, Allocation
  <2>5. next' = IF allocs + 1 < MaxSeq - 1 THEN allocs + 2 ELSE 1
    BY <2>1, <2>4, AdvanceInRange, MaxSeqAssumption
  <2>6. /\ allocs' = allocs + 1
       /\ \A q \in Requests : seq'[q] = IF q = r THEN next ELSE seq[q]
    BY <1>1, <2>4 DEF Begin
  <2>7. \A q \in Requests : seq'[q] <= allocs'
    BY <2>1, <2>2, <2>6
  <2>8. ASSUME NEW q1 \in Requests, NEW q2 \in Requests,
               seq'[q1] = seq'[q2], seq'[q1] # 0
        PROVE  q1 = q2
    BY <2>1, <2>2, <2>6, <2>8, MaxSeqAssumption
  <2>9. next' = IF allocs' < MaxSeq - 1 THEN allocs' + 1 ELSE 1
    BY <2>5, <2>6, MaxSeqAssumption
  <2>. QED BY <2>7, <2>8, <2>9
<1>2. ASSUME NEW r \in Requests,
             Refused(r) \/ Queue(r) \/ Write(r)
               \/ WriteError(r) \/ CtxDone(r) \/ ReturnAnswer(r)
      PROVE  NumbersInOrder'
  BY <1>2 DEF Refused, Queue, Enqueue, Write, WriteReaches, WriteLost,
     WriteError, WriteFails, CtxDone, ReturnAnswer
<1>3. ASSUME NEW r \in Requests,
             ReturnError(r) \/ Finish(r) \/ Timer(r) \/ Retransmit(r)
               \/ RetransmitError(r) \/ Exhausted(r) \/ ReceiveMatched(r) \/ ReceiveStale(r)
      PROVE  NumbersInOrder'
  BY <1>3 DEF ReturnError, Finish, Remove, Timer, TimerAfterSettled,
     TimerExpires, DoneSeen, Retransmit, Resent, WriteReaches, WriteLost,
     RetransmitError, ResendFailed, Abandon, WriteFails, Exhausted, GiveUp,
     ReceiveMatched, ResolveLookup, ReceiveStale
<1>4. ASSUME
             Deliver \/ ReaderExit \/ CloseBegin
               \/ CloseConn \/ CloseReturn \/ LinkFails
      PROVE  NumbersInOrder'
  BY <1>4 DEF Deliver, ResolveDeliver, ReaderExit, CloseBegin,
     CloseManager, CloseConn, CloseReturn, LinkFails
<1>. QED BY <1>1, <1>2, <1>3, <1>4 DEF Step, CallStep, RetryStep, CloseStep

\* A request leaves the table only to somebody who then writes to its channels,
\* or with its own call; a number that is its own cannot be taken from it.
LEMMA StrandedStep ==
  ASSUME IInv, ~Panicked, Step
  PROVE  QueuedNotStranded'
<1>. USE DEF IInv, TypeOK, SMTypeOK, CallStates, LoopStates, Errors,
             smVars, netVars, QueuedNotStranded, WillHear, NoWrap,
             NumbersInOrder, Numbered, PendingIsLive
<1>1. ASSUME NEW r \in Requests, Begin(r)
      PROVE  QueuedNotStranded'
  <2>. SUFFICES ASSUME NoWrap', ~Panicked', NEW q \in Requests,
                       call'[q] \in {"queued", "waiting"}
              PROVE  WillHear(q)'
    OBVIOUS
  <2>1. NoWrap /\ call[q] \in {"queued", "waiting"} /\ q # r
    BY <1>1, MaxSeqAssumption DEF Begin
  <2>2. seq'[q] = seq[q]
    BY <1>1, <2>1 DEF Begin, Allocate
  <2>. QED BY <1>1, <2>1, <2>2 DEF Begin, Allocate
<1>2. ASSUME NEW r \in Requests, Queue(r)
      PROVE  QueuedNotStranded'
  <2>. SUFFICES ASSUME NoWrap', ~Panicked', NEW q \in Requests,
                       call'[q] \in {"queued", "waiting"}
              PROVE  WillHear(q)'
    OBVIOUS
  <2>1. CASE q = r
    BY <1>2, <2>1 DEF Queue, Enqueue
  <2>2. CASE q # r
    <3>1. call[q] \in {"queued", "waiting"} /\ call[r] = "allocated" /\ NoWrap
        BY <1>2, <2>2 DEF Queue
    <3>2. seq[q] # seq[r] /\ seq[q] \in Seqs
        BY <3>1, <2>2 DEF Seqs
    <3>. QED BY <1>2, <3>1, <3>2 DEF Queue, Enqueue
  <2>. QED BY <2>1, <2>2
<1>3. ASSUME NEW r \in Requests, ReturnAnswer(r)
      PROVE  QueuedNotStranded'
  BY <1>3 DEF ReturnAnswer
<1>4. ASSUME NEW r \in Requests, ReturnError(r)
      PROVE  QueuedNotStranded'
  BY <1>4 DEF ReturnError
<1>5. ASSUME NEW r \in Requests, Finish(r)
      PROVE  QueuedNotStranded'
  <2>. SUFFICES ASSUME NoWrap', ~Panicked', NEW q \in Requests,
                       call'[q] \in {"queued", "waiting"}
              PROVE  WillHear(q)'
    OBVIOUS
  <2>1. call[q] \in {"queued", "waiting"} /\ q # r /\ call[r] = "removing" /\ NoWrap
    BY <1>5 DEF Finish
  <2>2. seq[q] # seq[r] /\ seq[q] \in Seqs
    BY <2>1 DEF Seqs
  <2>. QED BY <1>5, <2>1, <2>2 DEF Finish, Remove
<1>6. ASSUME NEW r \in Requests, RetransmitError(r)
      PROVE  QueuedNotStranded'
  <2>. SUFFICES ASSUME NoWrap', ~Panicked', NEW q \in Requests,
                       call'[q] \in {"queued", "waiting"}
              PROVE  WillHear(q)'
    OBVIOUS
  <2>1. call[q] \in {"queued", "waiting"} /\ loop[r] # "none" /\ NoWrap
    BY <1>6 DEF RetransmitError, ResendFailed, Abandon, WriteFails
  <2>2. CASE q = r
    <3>1. closes[q] = 0
        BY <1>6, <2>2 DEF Panicked, RetransmitError, ResendFailed, Abandon, WriteFails
    <3>. QED BY <1>6, <2>2, <3>1 DEF OpenIsEmpty, RetransmitError, ResendFailed, Abandon, WriteFails
  <2>3. CASE q # r
    <3>1. seq[q] # seq[r] /\ seq[q] \in Seqs
        BY <2>1, <2>3 DEF Seqs
    <3>. QED BY <1>6, <2>1, <2>3, <3>1 DEF RetransmitError, ResendFailed, Abandon, WriteFails
  <2>. QED BY <2>2, <2>3
<1>7. ASSUME NEW r \in Requests, Exhausted(r)
      PROVE  QueuedNotStranded'
  <2>. SUFFICES ASSUME NoWrap', ~Panicked', NEW q \in Requests,
                       call'[q] \in {"queued", "waiting"}
              PROVE  WillHear(q)'
    OBVIOUS
  <2>1. call[q] \in {"queued", "waiting"} /\ loop[r] # "none" /\ NoWrap
    BY <1>7 DEF Exhausted, GiveUp, Abandon
  <2>2. CASE q = r
    <3>1. closes[q] = 0
        BY <1>7, <2>2 DEF Panicked, Exhausted, GiveUp, Abandon
    <3>. QED BY <1>7, <2>2, <3>1 DEF OpenIsEmpty, Exhausted, GiveUp, Abandon
  <2>3. CASE q # r
    <3>1. seq[q] # seq[r] /\ seq[q] \in Seqs
        BY <2>1, <2>3 DEF Seqs
    <3>. QED BY <1>7, <2>1, <2>3, <3>1 DEF Exhausted, GiveUp, Abandon
  <2>. QED BY <2>2, <2>3
<1>8. ASSUME NEW r \in Requests, ReceiveMatched(r)
      PROVE  QueuedNotStranded'
  <2>. SUFFICES ASSUME NoWrap', ~Panicked', NEW q \in Requests,
                       call'[q] \in {"queued", "waiting"}
              PROVE  WillHear(q)'
    OBVIOUS
  <2>1. NoWrap /\ WillHear(q) /\ hit = NoReq /\ hit # q
    BY <1>8, RequestsAssumption DEF ReceiveMatched, ResolveLookup, ReaderHolds
  <2>. QED BY <1>8, <2>1 DEF ReceiveMatched, ResolveLookup
<1>9. ASSUME Deliver
      PROVE  QueuedNotStranded'
  <2>. SUFFICES ASSUME NoWrap', ~Panicked', NEW q \in Requests,
                       call'[q] \in {"queued", "waiting"}
              PROVE  WillHear(q)'
    OBVIOUS
  <2>1. NoWrap /\ WillHear(q)
    BY <1>9 DEF Deliver, ResolveDeliver
  <2>2. CASE hit = q
    <3>1. closes[q] = 0 /\ respC[q] = NoReq
        BY <1>9, <2>2 DEF Deliver, ResolveDeliver, Panicked, OpenIsEmpty
    <3>2. frame \in Requests /\ frame # NoReq
        BY <2>2, RequestsAssumption DEF ReaderHolds
    <3>. QED BY <1>9, <2>2, <3>1, <3>2 DEF Deliver, ResolveDeliver
  <2>3. CASE hit # q
    BY <1>9, <2>1, <2>3 DEF Deliver, ResolveDeliver
  <2>. QED BY <2>2, <2>3
<1>10. ASSUME CloseBegin
      PROVE  QueuedNotStranded'
  BY <1>10 DEF CloseBegin, CloseManager
<1>11. ASSUME NEW r \in Requests,
              Refused(r) \/ Write(r) \/ WriteError(r)
                \/ CtxDone(r) \/ Timer(r) \/ Retransmit(r)
      PROVE  QueuedNotStranded'
  BY <1>11 DEF Refused, Write, WriteReaches, WriteLost, WriteError,
     WriteFails, CtxDone, Timer, TimerAfterSettled, TimerExpires, DoneSeen,
     Retransmit, Resent
<1>12. ASSUME NEW r \in Requests, ReceiveStale(r)
      PROVE  QueuedNotStranded'
  BY <1>12 DEF ReceiveStale
<1>13. ASSUME ReaderExit \/ CloseConn \/ CloseReturn \/ LinkFails
      PROVE  QueuedNotStranded'
  BY <1>13 DEF ReaderExit, CloseConn, CloseReturn, LinkFails
<1>. QED BY <1>1, <1>2, <1>3, <1>4, <1>5, <1>6, <1>7, <1>8, <1>9, <1>10,
            <1>11, <1>12, <1>13 DEF Step, CallStep, RetryStep, CloseStep

\* The error is chosen before Remove is called.
LEMMA RemovingStep ==
  ASSUME IInv, ~Panicked, Step
  PROVE  RemovingFailed'
<1>. USE DEF IInv, TypeOK, SMTypeOK, CallStates, LoopStates, Errors,
             smVars, netVars, RemovingFailed
<1>1. ASSUME NEW r \in Requests,
             Begin(r) \/ Refused(r) \/ Queue(r)
               \/ Write(r) \/ WriteError(r) \/ CtxDone(r)
      PROVE  RemovingFailed'
  BY <1>1 DEF Begin, Allocate, Refused, Queue, Enqueue, Write,
     WriteReaches, WriteLost, WriteError, WriteFails, CtxDone
<1>2. ASSUME NEW r \in Requests,
             ReturnAnswer(r) \/ ReturnError(r) \/ Finish(r) \/ Timer(r)
               \/ Retransmit(r) \/ RetransmitError(r) \/ Exhausted(r) \/ ReceiveMatched(r) \/ ReceiveStale(r)
      PROVE  RemovingFailed'
  BY <1>2 DEF ReturnAnswer, ReturnError, Finish, Remove, Timer,
     TimerAfterSettled, TimerExpires, DoneSeen, Retransmit, Resent,
     WriteReaches, WriteLost, RetransmitError, ResendFailed, Abandon,
     WriteFails, Exhausted, GiveUp, ReceiveMatched, ResolveLookup,
     ReceiveStale
<1>3. ASSUME
             Deliver \/ ReaderExit \/ CloseBegin
               \/ CloseConn \/ CloseReturn \/ LinkFails
      PROVE  RemovingFailed'
  BY <1>3 DEF Deliver, ResolveDeliver, ReaderExit, CloseBegin,
     CloseManager, CloseConn, CloseReturn, LinkFails
<1>. QED BY <1>1, <1>2, <1>3 DEF Step, CallStep, RetryStep, CloseStep

-----------------------------------------------------------------------------
LEMMA InitHolds == Init => IInv
<1>. SUFFICES ASSUME Init PROVE IInv
  OBVIOUS
<1>. USE MaxSeqAssumption, RequestsAssumption, FailedAssumption, MaxRetriesAssumption
     DEF Init, SMInit, Seqs
<1>1. TypeOK
  <2>1. next \in Seqs /\ 0 \in 0..(MaxRetries + 1)
    OBVIOUS
  <2>2. retries \in [Requests -> 0..(MaxRetries + 1)]
    BY <2>1
  <2>3. pending \in [Seqs -> Requests \cup {NoReq}] /\ seq \in [Requests -> Seqs \cup {0}]
    OBVIOUS
  <2>4. closes \in [Requests -> 0..2] /\ loop \in [Requests -> LoopStates]
    BY DEF LoopStates
  <2>5. respC \in [Requests -> Requests \cup {NoReq}] /\ errC \in [Requests -> Errors]
    BY DEF Errors
  <2>. QED BY <2>1, <2>2, <2>3, <2>4, <2>5 DEF TypeOK, SMTypeOK, CallStates
<1>2. RetriesBounded /\ Numbered /\ PendingIsLive /\ ReaderHolds
  BY DEF RetriesBounded, Numbered, PendingIsLive, ReaderHolds
<1>3. OpenIsEmpty /\ SettledOnce /\ SameNumber /\ RemovingFailed
  BY DEF OpenIsEmpty, SettledOnce, SameNumber, RemovingFailed
<1>4. NumbersInOrder /\ QueuedNotStranded
  BY DEF NumbersInOrder, QueuedNotStranded, NoWrap
<1>. QED BY <1>1, <1>2, <1>3, <1>4 DEF IInv

\* A step that changes nothing keeps the invariant, also after a panic.
LEMMA StutterHolds ==
  ASSUME IInv, UNCHANGED vars
  PROVE  IInv'
BY DEF IInv, vars, smVars, netVars, TypeOK, SMTypeOK, Panicked, NoWrap,
       RetriesBounded, Numbered, PendingIsLive, ReaderHolds, OpenIsEmpty,
       SettledOnce, SameNumber, NumbersInOrder, QueuedNotStranded, WillHear, RemovingFailed

\* The invariant is inductive.
LEMMA IInvStep == IInv /\ [Next]_vars => IInv'
<1>1. ASSUME IInv, UNCHANGED vars PROVE IInv'
  BY <1>1, StutterHolds
<1>2. ASSUME IInv, ~Panicked, Step PROVE IInv'
  BY <1>2, TypeStep, RetriesStep, NumberedStep, PendingStep, ReaderStep, OpenStep,
     SettledStep, SameNumberStep, NumbersInOrderStep, StrandedStep, RemovingStep DEF IInv
<1>. QED BY <1>1, <1>2 DEF Next, Stopped

\* IInv holds in every state of the client.
THEOREM InvariantHolds == Spec => []IInv
BY InitHolds, IInvStep, PTL DEF Spec

-----------------------------------------------------------------------------
\* Every variable of the client stays in its range: seq.go's counters, the
\* states of its goroutines, and done closed at most twice.
THEOREM TypeCorrect == Spec => []TypeOK
<1>1. IInv => TypeOK
  BY DEF IInv
<1>. QED BY <1>1, InvariantHolds, PTL

\* No entry of sm.pending is ever dead, even after the numbers have wrapped:
\* Enqueue, Resolve, Remove, Close and retryLoop leave none behind.
THEOREM PendingAlwaysLive == Spec => []PendingIsLive
<1>1. IInv => PendingIsLive
  BY DEF IInv
<1>. QED BY <1>1, InvariantHolds, PTL

\* A request never gets both an answer and an error, whoever of readLoop,
\* retryLoop and Close comes first, even after the numbers have wrapped.
THEOREM SettledAtMostOnce == Spec => []SettledOnce
<1>1. IInv => SettledOnce
  BY DEF IInv
<1>. QED BY <1>1, InvariantHolds, PTL

\* While no number has been used twice, SendRequest returns the answer to its
\* own request: Resolve matches by number and a number is one request's.
THEOREM AnswersMatch == Spec => []OwnAnswer
<1>1. ASSUME IInv PROVE OwnAnswer
  <2>. SUFFICES ASSUME NoWrap, NEW r \in Requests, result[r] \in Requests
                PROVE  result[r] = r
    BY DEF OwnAnswer
  <2>1. seq[r] \in Seqs /\ seq[result[r]] = seq[r]
    BY <1>1 DEF IInv, SameNumber
  <2>. QED BY <1>1, <2>1 DEF IInv, NumbersInOrder, Seqs
<1>. QED BY <1>1, InvariantHolds, PTL

\* While no number has been used twice, a call in WaitForResponse always has
\* somebody left to end it, without any deadline of its own.
THEOREM NobodyStranded == Spec => []NotStranded
<1>1. IInv => NotStranded
  BY DEF IInv, QueuedNotStranded, NotStranded
<1>. QED BY <1>1, InvariantHolds, PTL

\* retryLoop's look at the table keeps it from retrying a settled request.
THEOREM NoRetryOnceSettled == Spec => SettledNotRetried
<1>. DEFINE P == \A r \in Requests : NoWrap /\ closes[r] > 0 => retries'[r] = retries[r]
<1>1. IInv /\ [Next]_vars => [P]_vars
  <2>. SUFFICES ASSUME IInv, ~Panicked, Step,
                       NEW r \in Requests, NoWrap, closes[r] > 0
                PROVE  retries'[r] = retries[r]
    BY DEF Next, Stopped
  <2>1. ~TimerExpires(r)
    <3>. SUFFICES ASSUME loop[r] = "armed", pending[seq[r]] # NoReq PROVE FALSE
      BY DEF TimerExpires
    <3>1. seq[r] \in Seqs
      BY DEF IInv, Numbered
    <3>2. pending[seq[r]] \in Requests /\ seq[pending[seq[r]]] = seq[r]
      BY <3>1 DEF IInv, TypeOK, SMTypeOK, PendingIsLive
    <3>3. pending[seq[r]] = r
      BY <3>1, <3>2 DEF IInv, NumbersInOrder, Seqs
    <3>. QED BY <3>1, <3>3 DEF IInv, PendingIsLive
  <2>2. ASSUME NEW q \in Requests, TimerExpires(q) PROVE retries'[r] = retries[r]
    BY <2>1, <2>2 DEF TimerExpires, IInv, TypeOK, SMTypeOK
  <2>3. retries' = retries \/ \E q \in Requests : TimerExpires(q)
    BY DEF Step, CallStep, RetryStep, CloseStep, smVars, Begin, Allocate, Refused,
           Queue, Enqueue, Write, WriteError, ReturnAnswer, ReturnError, CtxDone,
           Finish, Remove, Timer, TimerAfterSettled, DoneSeen, Retransmit, Resent,
           RetransmitError, ResendFailed, Exhausted, GiveUp, Abandon, ReceiveMatched,
           ResolveLookup, ReceiveStale, Deliver, ResolveDeliver, ReaderExit, CloseBegin,
           CloseManager, CloseConn, CloseReturn, LinkFails
  <2>. QED BY <2>2, <2>3
<1>. QED BY <1>1, InvariantHolds, PTL DEF Spec, SettledNotRetried

-----------------------------------------------------------------------------
\* The calls' phase and result change only as RequestReply allows.
LEMMA StepRefines ==
  ASSUME IInv, NoWrap, [Next]_vars
  PROVE  [RR!Next]_(RR!vars)
<1>. USE DEF IInv, TypeOK, SMTypeOK, CallStates, smVars, netVars, RR!vars
<1>1. CASE UNCHANGED vars
  BY <1>1 DEF vars
<1>2. ASSUME NEW r \in Requests, Begin(r) PROVE RR!Next
  <2>1. RR!Call(r)
    BY <1>2 DEF Begin, Allocate, RR!Call
  <2>. QED BY <2>1 DEF RR!Next
<1>3. ASSUME NEW r \in Requests, Refused(r) PROVE RR!Next
  <2>1. RR!Fail(r)
    BY <1>3 DEF Refused, RR!Fail, RR!Return
  <2>. QED BY <2>1 DEF RR!Next
<1>4. ASSUME NEW r \in Requests, ReturnAnswer(r) PROVE RR!Next
  <2>1. respC[r] = r
    <3>1. respC[r] \in Requests /\ seq[r] \in Seqs /\ seq[respC[r]] = seq[r]
      BY <1>4 DEF ReturnAnswer, SameNumber
    <3>. QED BY <3>1 DEF NumbersInOrder, Seqs
  <2>2. RR!Answer(r)
    BY <1>4, <2>1 DEF ReturnAnswer, RR!Answer, RR!Return
  <2>. QED BY <2>2 DEF RR!Next
<1>5. ASSUME NEW r \in Requests, Finish(r) PROVE RR!Next
  <2>1. RR!Fail(r)
    BY <1>5 DEF Finish, Remove, RemovingFailed, RR!Fail, RR!Return
  <2>. QED BY <2>1 DEF RR!Next
<1>6. ASSUME CloseBegin PROVE RR!Next
  BY <1>6 DEF CloseBegin, CloseManager, RR!Next, RR!Shut
<1>7. ASSUME NEW r \in Requests,
             Queue(r) \/ Write(r) \/ WriteError(r) \/ ReturnError(r) \/ CtxDone(r)
      PROVE  UNCHANGED RR!vars
  BY <1>7 DEF Queue, Enqueue, Write, WriteError, ReturnError, CtxDone
<1>8. ASSUME NEW r \in Requests,
             RetryStep(r) \/ ReceiveMatched(r) \/ ReceiveStale(r)
      PROVE  UNCHANGED RR!vars
  BY <1>8 DEF RetryStep, Timer, TimerAfterSettled, TimerExpires, DoneSeen, Retransmit,
              Resent, RetransmitError, ResendFailed, Exhausted, GiveUp, Abandon,
              ReceiveMatched, ResolveLookup, ReceiveStale
<1>9. ASSUME Deliver \/ ReaderExit \/ CloseStep \/ LinkFails
      PROVE  UNCHANGED RR!vars
  BY <1>9 DEF Deliver, ResolveDeliver, ReaderExit, CloseStep, CloseConn, CloseReturn, LinkFails
<1>. QED
  BY <1>1, <1>2, <1>3, <1>4, <1>5, <1>6, <1>7, <1>8, <1>9
     DEF Next, Stopped, Step, CallStep

\* While no number has been used twice, the client implements RequestReply:
\* an accepted SendRequest returns once, with its own answer or an error, and
\* after Close no call is accepted.
THEOREM ClientImplementsRequestReply == Spec /\ []NoWrap => ImplementsRequestReply
<1>1. Init => RR!Init
  BY DEF Init, SMInit, RR!Init
<1>2. IInv /\ NoWrap /\ [Next]_vars => [RR!Next]_(RR!vars)
  BY StepRefines
<1>. QED BY <1>1, <1>2, InvariantHolds, PTL DEF Spec, RR!Spec, ImplementsRequestReply
=============================================================================
