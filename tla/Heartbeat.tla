------------------------------ MODULE Heartbeat ------------------------------
(***************************************************************************)
(* StartHeartbeat (basic/message/client.go): the goroutine that sends a    *)
(* heartbeat at every tick, and the stop function it hands out, called by  *)
(* another goroutine.  Client.SendRequest and Client.Close are seen from   *)
(* outside; module Client shows that both return.                          *)
(*                                                                         *)
(* cfg.OnLost is "none", a callback that returns ("plain"), or one that    *)
(* calls the stop function ("stops").                                      *)
(***************************************************************************)
EXTENDS Naturals, Sequences

CONSTANT MaxMissed   \* cfg.MaxMissed

ASSUME MaxMissedAssumption == MaxMissed \in Nat \ {0}

VARIABLES
  onLost,     \* cfg.OnLost
  loop,       \* where the goroutine is
  missed,     \* its count of heartbeats missed in succession
  done,       \* the channel done is closed
  stopped,    \* the flag stopped
  cancelled,  \* ctx is done
  stopper,    \* where the call of stop is
  lost,       \* how often the loss was acted upon: OnLost or Close called
  closed,     \* the client is closed
  peer,       \* whether the server still answers
  recent      \* history: how the last MaxMissed heartbeats ended

loopVars == <<loop, missed, done, lost, recent>>
stopVars == <<stopped, cancelled, stopper>>
vars == <<onLost, loopVars, stopVars, closed, peer>>

Outcomes == {"answer", "timeout", "closed", "cancelled"}

TypeOK ==
  /\ onLost \in {"none", "plain", "stops"}
  /\ loop \in {"select", "beating", "answered", "losing", "inStop", "ended"}
  /\ missed \in 0..MaxMissed
  /\ done \in BOOLEAN /\ stopped \in BOOLEAN /\ cancelled \in BOOLEAN
  /\ stopper \in {"idle", "flagged", "cancelled", "returned"}
  /\ lost \in 0..1
  /\ closed \in BOOLEAN
  /\ peer \in {"up", "silent"}
  /\ recent \in Seq(Outcomes) /\ Len(recent) <= MaxMissed

Init ==
  /\ onLost \in {"none", "plain", "stops"}
  /\ loop = "select"
  /\ missed = 0
  /\ done = FALSE /\ stopped = FALSE /\ cancelled = FALSE
  /\ stopper = "idle"
  /\ lost = 0
  /\ closed = FALSE
  /\ peer = "up"
  /\ recent = <<>>

-----------------------------------------------------------------------------
(* The goroutine *)

\* The goroutine returns, and its defer closes done.
End == loop' = "ended" /\ done' = TRUE

\* The select takes the tick, also when ctx is done as well.
Tick ==
  /\ loop = "select"
  /\ IF stopped THEN End ELSE loop' = "beating" /\ UNCHANGED done
  /\ UNCHANGED <<onLost, missed, lost, recent, stopVars, closed, peer>>

\* The select takes ctx.Done().
DoneSeen ==
  /\ loop = "select"
  /\ cancelled
  /\ End
  /\ UNCHANGED <<onLost, missed, lost, recent, stopVars, closed, peer>>

\* The heartbeat ended like this; the history keeps the last MaxMissed.
Ended(outcome) ==
  LET all == Append(recent, outcome)
  IN  recent' = IF Len(all) > MaxMissed THEN Tail(all) ELSE all

\* The client's readLoop takes the answer; SendRequest has yet to see it.
AnswerArrives ==
  /\ loop = "beating"
  /\ peer = "up" /\ ~closed
  /\ loop' = "answered"
  /\ UNCHANGED <<missed, done, lost, recent, onLost, stopVars, closed, peer>>

\* A plausible slip: only a loss puts the count back.
AnswerKeepsCount ==
  /\ loop = "answered"
  /\ Ended("answer")
  /\ loop' = "select"
  /\ UNCHANGED <<missed, done, lost, onLost, stopVars, closed, peer>>

\* SendRequest returns the answer, also when its context is done by then or
\* the client closed.
Answer ==
  /\ loop = "answered"
  /\ Ended("answer")
  /\ missed' = 0
  /\ loop' = "select"
  /\ UNCHANGED <<done, lost, onLost, stopVars, closed, peer>>

\* What makes SendRequest fail: its timeout or lost frames, the client being
\* closed, stop.  When an answer and the end of its context meet, either wins.
Causes ==
  {"timeout"} \cup {c \in {"closed"} : closed /\ loop = "beating"}
              \cup {c \in {"cancelled"} : cancelled}

\* A plausible slip: the count is declared inside the loop.
MissStartsOver ==
  /\ loop \in {"beating", "answered"}
  /\ \E c \in Causes : Ended(c)
  /\ missed' = 1
  /\ loop' = IF missed' >= MaxMissed THEN "losing" ELSE "select"
  /\ UNCHANGED <<done, lost, onLost, stopVars, closed, peer>>

\* Any error of SendRequest is a miss.
Miss ==
  /\ loop \in {"beating", "answered"}
  /\ \E c \in Causes : Ended(c)
  /\ missed' = missed + 1
  /\ loop' = IF missed' >= MaxMissed THEN "losing" ELSE "select"
  /\ UNCHANGED <<done, lost, onLost, stopVars, closed, peer>>

\* A plausible slip: this return was forgotten when done was closed by hand.
LoseLeavesDoneOpen ==
  /\ loop = "losing"
  /\ lost' = lost + 1
  /\ closed' = (closed \/ onLost = "none")
  /\ loop' = "ended"
  /\ UNCHANGED <<done, missed, recent, onLost, stopVars, peer>>

\* OnLost is called, or the client closed when there is none, and the goroutine
\* returns; with an OnLost that calls stop it waits for its own end.
Lose ==
  /\ loop = "losing"
  /\ lost' = lost + 1
  /\ closed' = (closed \/ onLost = "none")
  /\ IF onLost = "stops"
     THEN loop' = "inStop" /\ stopped' = TRUE /\ cancelled' = TRUE /\ UNCHANGED done
     ELSE End /\ UNCHANGED <<stopped, cancelled>>
  /\ UNCHANGED <<missed, recent, onLost, stopper, peer>>

-----------------------------------------------------------------------------
(* stop, called by another goroutine *)

StopFlag ==
  /\ stopper = "idle"
  /\ stopped' = TRUE
  /\ stopper' = "flagged"
  /\ UNCHANGED <<cancelled, onLost, loopVars, closed, peer>>

StopCancel ==
  /\ stopper = "flagged"
  /\ cancelled' = TRUE
  /\ stopper' = "cancelled"
  /\ UNCHANGED <<stopped, onLost, loopVars, closed, peer>>

\* A plausible slip: stop does not wait for the goroutine.
StopReturnAtOnce ==
  /\ stopper = "cancelled"
  /\ stopper' = "returned"
  /\ UNCHANGED <<stopped, cancelled, onLost, loopVars, closed, peer>>

\* <-done
StopReturn ==
  /\ stopper = "cancelled"
  /\ done
  /\ stopper' = "returned"
  /\ UNCHANGED <<stopped, cancelled, onLost, loopVars, closed, peer>>

-----------------------------------------------------------------------------
(* The rest of the client, and the server *)

AppCloses ==
  /\ ~closed
  /\ closed' = TRUE
  /\ UNCHANGED <<onLost, loopVars, stopVars, peer>>

\* The server stops answering for good.
FallsSilent ==
  /\ peer = "up"
  /\ peer' = "silent"
  /\ UNCHANGED <<onLost, loopVars, stopVars, closed>>

LoopStep == Tick \/ DoneSeen \/ AnswerArrives \/ Answer \/ Miss \/ Lose
StopStep == StopCancel \/ StopReturn

Next == LoopStep \/ StopFlag \/ StopStep \/ AppCloses \/ FallsSilent

Spec == Init /\ [][Next]_vars

\* The ticker ticks, SendRequest and Close return, and a call of stop goes on.
\* Nothing makes anybody stop, close or fall silent.
FairSpec == Spec /\ WF_vars(LoopStep) /\ WF_vars(StopStep)

-----------------------------------------------------------------------------
(* Correctness *)

(***************************************************************************)
(* The loss is acted upon only after MaxMissed heartbeats in succession    *)
(* brought no answer, and all but the last of them failed by themselves:   *)
(* stop, which makes SendRequest fail too, is at most the last straw.      *)
(***************************************************************************)
LostOnlyByMissing ==
  lost > 0 =>
    /\ Len(recent) = MaxMissed
    /\ \A i \in 1..MaxMissed : recent[i] # "answer"
    /\ \A i \in 1..(MaxMissed - 1) : recent[i] # "cancelled"

\* When stop has returned the goroutine is gone: it will not call OnLost, send
\* or close the client any more, however it was interrupted.
NothingAfterStop ==
  [][stopper = "returned" => lost' = lost /\ recent' = recent /\ loop' = loop]_vars

\* stop returns, whatever the goroutine is doing and whether or not the loss is
\* being acted upon, as long as OnLost does not call stop itself.
StopReturns == stopper # "idle" /\ onLost # "stops" ~> stopper = "returned"

\* A server that has fallen silent is noticed, unless the loop was stopped.
SilenceNoticed == peer = "silent" ~> lost > 0 \/ stopped
=============================================================================
