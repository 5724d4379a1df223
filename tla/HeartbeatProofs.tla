--------------------------- MODULE HeartbeatProofs ---------------------------
(***************************************************************************)
(* Proofs about Heartbeat, for every MaxMissed.                            *)
(***************************************************************************)
EXTENDS Heartbeat, SequenceTheorems, TLAPS

USE MaxMissedAssumption

-----------------------------------------------------------------------------
(* The inductive invariant                                                 *)

Flags ==
  /\ cancelled => stopped
  /\ stopper # "idle" => stopped
  /\ done <=> loop = "ended"
  /\ stopper = "returned" => loop = "ended"

\* The goroutine acts on the loss once, when the count is full, and no sooner.
CountFits ==
  /\ loop \in {"select", "beating", "answered"} => missed < MaxMissed
  /\ loop = "losing" => missed = MaxMissed
  /\ lost > 0 => missed = MaxMissed /\ loop \in {"inStop", "ended"}

\* The count is one of heartbeats in succession, up to the last one.
CountsLast ==
  /\ missed <= Len(recent)
  /\ \A i \in 1..Len(recent) : i > Len(recent) - missed => recent[i] # "answer"

\* No heartbeat follows one that stop made fail.
CancelledIsLast ==
  \A i \in 1..Len(recent) :
    recent[i] = "cancelled" => i = Len(recent) /\ stopped /\ loop \notin {"beating", "answered"}

HInv == TypeOK /\ Flags /\ CountFits /\ CountsLast /\ CancelledIsLast

-----------------------------------------------------------------------------
(* The proofs                                                              *)

LEMMA HInvInit == Init => HInv
<1> SUFFICES ASSUME Init PROVE HInv
  OBVIOUS
<1>1. recent = <<>> /\ recent \in Seq(Outcomes) /\ Len(recent) = 0
  BY DEF Init
<1>2. missed = 0 /\ missed \in 0..MaxMissed /\ lost = 0 /\ lost \in 0..1
  BY DEF Init
<1>3. TypeOK
  <2>1. /\ onLost \in {"none", "plain", "stops"}
        /\ loop \in {"select", "beating", "answered", "losing", "inStop", "ended"}
        /\ stopper \in {"idle", "flagged", "cancelled", "returned"}
        /\ peer \in {"up", "silent"}
    BY DEF Init
  <2>2. done \in BOOLEAN /\ stopped \in BOOLEAN /\ cancelled \in BOOLEAN /\ closed \in BOOLEAN
    BY DEF Init
  <2>3. Len(recent) <= MaxMissed
    BY <1>1
  <2> QED
    BY <1>1, <1>2, <2>1, <2>2, <2>3 DEF TypeOK
<1>4. Flags
  BY DEF Init, Flags
<1>5. CountFits
  BY DEF Init, CountFits
<1>6. CountsLast
  BY <1>1, <1>2 DEF CountsLast
<1>7. CancelledIsLast
  BY <1>1 DEF CancelledIsLast
<1> QED
  BY <1>3, <1>4, <1>5, <1>6, <1>7 DEF HInv

\* The history after one more heartbeat: the outcome is its last entry, and the
\* others have moved by at most one place.
LEMMA EndedEffect ==
  ASSUME TypeOK, NEW outcome \in Outcomes, Ended(outcome)
  PROVE  \E d \in {0, 1} :
           /\ recent' \in Seq(Outcomes) /\ Len(recent') <= MaxMissed
           /\ Len(recent') = Len(recent) + 1 - d
           /\ d = 1 => Len(recent) = MaxMissed
           /\ recent'[Len(recent')] = outcome
           /\ \A i \in 1..(Len(recent') - 1) : recent'[i] = recent[i + d]
<1> DEFINE all == Append(recent, outcome)
<1>1. recent \in Seq(Outcomes) /\ Len(recent) \in Nat /\ Len(recent) <= MaxMissed
  BY DEF TypeOK
<1>2. /\ all \in Seq(Outcomes) /\ all # <<>> /\ Len(all) = Len(recent) + 1
      /\ \A i \in 1..Len(recent) : all[i] = recent[i]
      /\ all[Len(recent) + 1] = outcome
  BY <1>1, AppendProperties
<1>3. recent' = IF Len(all) > MaxMissed THEN Tail(all) ELSE all
  BY DEF Ended
<1>4. /\ Tail(all) \in Seq(Outcomes) /\ Len(Tail(all)) = Len(all) - 1
      /\ \A i \in 1..Len(Tail(all)) : Tail(all)[i] = all[i + 1]
  BY <1>2, HeadTailProperties
<1> HIDE DEF all
<1>5. CASE Len(all) > MaxMissed
  <2> WITNESS 1 \in {0, 1}
  <2>1. recent' = Tail(all) /\ Len(recent') = Len(recent) /\ Len(recent) = MaxMissed
    BY <1>1, <1>2, <1>3, <1>4, <1>5
  <2> QED
    BY <1>1, <1>2, <1>4, <2>1
<1>6. CASE ~(Len(all) > MaxMissed)
  <2> WITNESS 0 \in {0, 1}
  <2> QED
    BY <1>1, <1>2, <1>3, <1>6
<1> QED
  BY <1>5, <1>6

LEMMA AnswerStep ==
  ASSUME HInv, Answer
  PROVE  HInv'
<1>1. /\ loop = "answered" /\ Ended("answer") /\ missed' = 0 /\ loop' = "select"
      /\ UNCHANGED <<done, lost, onLost, stopped, cancelled, stopper, closed, peer>>
  BY DEF Answer, stopVars
<1>2. PICK d \in {0, 1} :
        /\ recent' \in Seq(Outcomes) /\ Len(recent') <= MaxMissed
        /\ Len(recent') = Len(recent) + 1 - d
        /\ recent'[Len(recent')] = "answer"
        /\ \A i \in 1..(Len(recent') - 1) : recent'[i] = recent[i + d]
  BY <1>1, EndedEffect DEF HInv, Outcomes
<1>3. TypeOK'
  BY <1>1, <1>2 DEF HInv, TypeOK
<1>4. Flags' /\ CountFits'
  BY <1>1 DEF HInv, Flags, CountFits
<1>5. CountsLast'
  BY <1>1, <1>2 DEF HInv, TypeOK, CountsLast
<1>6. CancelledIsLast'
  <2>1. /\ Len(recent) \in Nat /\ Len(recent') \in Nat
        /\ \A i \in 1..Len(recent) : recent[i] # "cancelled"
    BY <1>1, <1>2 DEF HInv, TypeOK, CancelledIsLast
  <2>2. ASSUME NEW i \in 1..Len(recent') PROVE recent'[i] # "cancelled"
    <3>1. CASE i = Len(recent')
      BY <1>2, <3>1
    <3>2. CASE i # Len(recent')
      <4>1. i \in 1..(Len(recent') - 1) /\ i + d \in 1..Len(recent)
        BY ONLY <1>2, <2>1, <2>2, <3>2
      <4> QED
        BY ONLY <1>2, <2>1, <4>1
    <3> QED
      BY <3>1, <3>2
  <2> QED
    BY ONLY <2>2 DEF CancelledIsLast
<1> QED
  BY <1>3, <1>4, <1>5, <1>6 DEF HInv

LEMMA MissStep ==
  ASSUME HInv, Miss
  PROVE  HInv'
<1>1. PICK c \in Causes : Ended(c)
  BY DEF Miss
<1>2. /\ loop \in {"beating", "answered"} /\ missed' = missed + 1
      /\ loop' = IF missed' >= MaxMissed THEN "losing" ELSE "select"
      /\ UNCHANGED <<done, lost, onLost, stopped, cancelled, stopper, closed, peer>>
  BY DEF Miss, stopVars
<1>3. c \in Outcomes /\ c # "answer" /\ (c = "cancelled" => cancelled)
  BY DEF Causes, Outcomes
<1>4. PICK d \in {0, 1} :
        /\ recent' \in Seq(Outcomes) /\ Len(recent') <= MaxMissed
        /\ Len(recent') = Len(recent) + 1 - d
        /\ d = 1 => Len(recent) = MaxMissed
        /\ recent'[Len(recent')] = c
        /\ \A i \in 1..(Len(recent') - 1) : recent'[i] = recent[i + d]
  BY <1>1, <1>3, EndedEffect DEF HInv
<1>5. missed \in Nat /\ missed < MaxMissed /\ missed' \in 0..MaxMissed
  BY <1>2 DEF HInv, TypeOK, CountFits
<1>6. TypeOK'
  BY <1>2, <1>4, <1>5 DEF HInv, TypeOK
<1>7. Flags' /\ CountFits'
  BY <1>2, <1>5 DEF HInv, TypeOK, Flags, CountFits
<1>8. CountsLast'
  <2>1. Len(recent) \in Nat /\ missed <= Len(recent) /\ Len(recent') \in Nat
    BY <1>4 DEF HInv, TypeOK, CountsLast
  <2>2. missed' <= Len(recent')
    BY <1>2, <1>4, <1>5, <2>1
  <2>3. ASSUME NEW i \in 1..Len(recent'), i > Len(recent') - missed'
        PROVE  recent'[i] # "answer"
    <3>1. CASE i = Len(recent')
      BY <1>3, <1>4, <3>1
    <3>2. CASE i # Len(recent')
      <4>1. i \in 1..(Len(recent') - 1) /\ recent'[i] = recent[i + d]
        BY <1>4, <2>1, <2>3, <3>2
      <4>2. i + d \in 1..Len(recent) /\ i + d > Len(recent) - missed
        BY <1>2, <1>4, <1>5, <2>1, <2>3, <4>1
      <4> QED
        BY <4>1, <4>2 DEF HInv, CountsLast
    <3> QED
      BY <3>1, <3>2
  <2> QED
    BY <2>2, <2>3 DEF CountsLast
<1>9. CancelledIsLast'
  <2>1. \A i \in 1..Len(recent) : recent[i] # "cancelled"
    BY <1>2 DEF HInv, CancelledIsLast
  <2>2. \A i \in 1..(Len(recent') - 1) : recent'[i] # "cancelled"
    BY <1>4, <2>1 DEF HInv, TypeOK
  <2>3. c = "cancelled" => stopped'
    BY <1>2, <1>3 DEF HInv, Flags
  <2>4. loop' \notin {"beating", "answered"}
    BY <1>2
  <2> QED
    BY <1>4, <2>2, <2>3, <2>4 DEF CancelledIsLast
<1> QED
  BY <1>6, <1>7, <1>8, <1>9 DEF HInv

\* The other steps leave the history and the count alone.
LEMMA QuietStep ==
  ASSUME HInv, UNCHANGED <<missed, recent>>,
         \/ Tick \/ DoneSeen \/ AnswerArrives \/ Lose
         \/ StopFlag \/ StopStep \/ AppCloses \/ FallsSilent \/ UNCHANGED vars
  PROVE  HInv'
<1> USE DEF Tick, DoneSeen, AnswerArrives, Lose, StopFlag, StopStep, StopCancel, StopReturn,
            AppCloses, FallsSilent, End, vars, loopVars, stopVars
<1>1. TypeOK'
  <2> SUFFICES /\ loop' \in {"select", "beating", "answered", "losing", "inStop", "ended"}
               /\ stopper' \in {"idle", "flagged", "cancelled", "returned"}
               /\ onLost' = onLost /\ lost' \in 0..1 /\ peer' \in {"up", "silent"}
               /\ done' \in BOOLEAN /\ stopped' \in BOOLEAN
               /\ cancelled' \in BOOLEAN /\ closed' \in BOOLEAN
    BY DEF HInv, TypeOK
  <2>1. /\ done \in BOOLEAN /\ stopped \in BOOLEAN /\ cancelled \in BOOLEAN /\ closed \in BOOLEAN
        /\ stopper \in {"idle", "flagged", "cancelled", "returned"}
        /\ loop \in {"select", "beating", "answered", "losing", "inStop", "ended"}
        /\ lost \in 0..1 /\ peer \in {"up", "silent"}
    BY DEF HInv, TypeOK
  <2>2. CASE Lose
    <3>1. closed' \in BOOLEAN /\ done' \in BOOLEAN
      <4>1. closed' = (closed \/ onLost = "none")
        BY <2>2
      <4>2. done' = TRUE \/ done' = done
        BY <2>2
      <4>3. closed' \in BOOLEAN
        BY ONLY <4>1, Zenon
      <4> QED
        BY <2>1, <4>2, <4>3
    <3>2. UNCHANGED <<onLost, stopper, peer>>
      BY <2>2
    <3>3. stopped' \in BOOLEAN /\ cancelled' \in BOOLEAN
      <4>1. (stopped' = TRUE \/ stopped' = stopped) /\ (cancelled' = TRUE \/ cancelled' = cancelled)
        BY <2>2
      <4> QED
        BY <2>1, <4>1
    <3>4. loop' \in {"inStop", "ended"} /\ lost' \in 0..1
      BY <2>2 DEF HInv, TypeOK, CountFits
    <3> QED
      BY <2>1, <3>1, <3>2, <3>3, <3>4
  <2>3. CASE Tick
    BY <2>1, <2>3
  <2>4. CASE DoneSeen
    BY <2>1, <2>4
  <2>5. CASE AnswerArrives
    BY <2>1, <2>5
  <2>6. CASE StopFlag
    BY <2>1, <2>6
  <2>7. CASE StopCancel
    BY <2>1, <2>7
  <2>8. CASE StopReturn
    BY <2>1, <2>8
  <2>9. CASE AppCloses
    BY <2>1, <2>9
  <2>10. CASE FallsSilent
    BY <2>1, <2>10
  <2>11. CASE UNCHANGED vars
    BY <2>1, <2>11
  <2>12. StopStep => StopCancel \/ StopReturn
    BY DEF StopStep
  <2> QED
    BY <2>2, <2>3, <2>4, <2>5, <2>6, <2>7, <2>8, <2>9, <2>10, <2>11, <2>12
<1>2. Flags'
  <2>1. CASE Lose
    BY <2>1 DEF HInv, TypeOK, Flags
  <2>2. CASE Tick \/ DoneSeen \/ AnswerArrives
    BY <2>2 DEF HInv, TypeOK, Flags
  <2>3. CASE StopFlag \/ StopStep
    <3>1. UNCHANGED <<loop, done>>
      BY <2>3
    <3>3. cancelled' => stopped'
      <4>1. CASE StopFlag
        BY <4>1
      <4>2. CASE StopCancel
        <5>1. stopper = "flagged" /\ UNCHANGED stopped
          BY <4>2
        <5> QED
          BY <5>1 DEF HInv, Flags
      <4>3. CASE StopReturn
        BY <4>3 DEF HInv, Flags
      <4> QED
        BY <2>3, <4>1, <4>2, <4>3
    <3>2. stopper' = "returned" => loop = "ended"
      BY <2>3 DEF HInv, Flags
    <3> QED
      BY <3>1, <3>2, <3>3 DEF HInv, Flags
  <2>4. CASE AppCloses \/ FallsSilent \/ UNCHANGED vars
    BY <2>4 DEF HInv, TypeOK, Flags
  <2> QED
    BY <2>1, <2>2, <2>3, <2>4
<1>3. CountFits'
  BY DEF HInv, TypeOK, Flags, CountFits
<1>4. CountsLast'
  BY DEF HInv, CountsLast
<1>5. CancelledIsLast'
  BY DEF HInv, CancelledIsLast
<1> QED
  BY <1>1, <1>2, <1>3, <1>4, <1>5 DEF HInv

LEMMA HInvStep == HInv /\ [Next]_vars => HInv'
<1> SUFFICES ASSUME HInv, [Next]_vars PROVE HInv'
  OBVIOUS
<1>1. CASE Answer
  BY <1>1, AnswerStep
<1>2. CASE Miss
  BY <1>2, MissStep
<1>3. CASE \/ Tick \/ DoneSeen \/ AnswerArrives \/ Lose
           \/ StopFlag \/ StopStep \/ AppCloses \/ FallsSilent \/ UNCHANGED vars
  <2>1. UNCHANGED <<missed, recent>>
    BY <1>3 DEF Tick, DoneSeen, AnswerArrives, Lose, StopFlag, StopStep, StopCancel,
                StopReturn, AppCloses, FallsSilent, vars, loopVars
  <2> QED
    BY <1>3, <2>1, QuietStep
<1> QED
  BY <1>1, <1>2, <1>3 DEF Next, LoopStep

-----------------------------------------------------------------------------
\* The invariant of StartHeartbeat's goroutine holds in every run.
THEOREM HeartbeatInvariant == Spec => []HInv
BY HInvInit, HInvStep, PTL DEF Spec

\* OnLost is called, or the client closed, only after MaxMissed heartbeats in
\* succession went without an answer, whatever stop and Close do meanwhile.
THEOREM LossesAreReal == Spec => []LostOnlyByMissing
<1>1. HInv => LostOnlyByMissing
  <2> SUFFICES ASSUME HInv, lost > 0
               PROVE  /\ Len(recent) = MaxMissed
                      /\ \A i \in 1..MaxMissed : recent[i] # "answer"
                      /\ \A i \in 1..(MaxMissed - 1) : recent[i] # "cancelled"
    BY DEF LostOnlyByMissing
  <2>1. missed = MaxMissed /\ Len(recent) = MaxMissed
    BY DEF HInv, TypeOK, CountFits, CountsLast
  <2> QED
    BY <2>1 DEF HInv, TypeOK, CountsLast, CancelledIsLast
<1> QED
  BY <1>1, HeartbeatInvariant, PTL

\* Once stop has returned the goroutine does nothing any more.
THEOREM StopIsFinal == Spec => NothingAfterStop
<1> DEFINE Still == stopper = "returned" => lost' = lost /\ recent' = recent /\ loop' = loop
<1>1. HInv /\ [Next]_vars => [Still]_vars
  <2> SUFFICES ASSUME HInv, [Next]_vars, stopper = "returned"
               PROVE  lost' = lost /\ recent' = recent /\ loop' = loop
    OBVIOUS
  <2>1. loop = "ended"
    BY DEF HInv, Flags
  <2> QED
    BY <2>1 DEF Next, LoopStep, StopStep, Tick, DoneSeen, AnswerArrives, Answer, Miss, Lose,
                StopFlag, StopCancel, StopReturn, AppCloses, FallsSilent, vars, loopVars
<1> QED
  BY <1>1, HeartbeatInvariant, PTL DEF Spec, NothingAfterStop
=============================================================================
