------------------------------ MODULE Replies ------------------------------
(***************************************************************************)
(* What serving a connection promises the peer (ConnectionBridge.Serve in  *)
(* conn/bridge.go), with nothing of how: no loops, no channel, no codec.   *)
(* Frames are taken up one at a time, in order; a handler sees a frame at  *)
(* most once, and none that was not admitted while the connection was      *)
(* open.  Frames that ask may be answered, each at most once: results of   *)
(* handlers leave, or are lost, in the order they were owed, and an error  *)
(* leaves at once, before the next frame is taken up.  Nothing leaves      *)
(* after the end.  Bridge implements it.                                   *)
(***************************************************************************)
EXTENDS Naturals, Sequences

VARIABLES
  asked,    \* how many frames the peer has sent
  wanted,   \* those that want an answer
  taken,    \* how many were taken up
  stage,    \* what becomes of the last of them
  run,      \* the frames a handler was called for
  owed,     \* the results that have not left yet
  written,  \* the answers that have left, by frame; 0 is the server's own frame
  open      \* the connection is open

vars == <<asked, wanted, taken, stage, run, owed, written, open>>

Init ==
  /\ asked = 0 /\ wanted = {} /\ taken = 0
  /\ stage = "idle" /\ run = {} /\ owed = {}
  /\ written = <<>> /\ open = TRUE

Ask ==
  /\ asked' = asked + 1
  /\ wanted' \in {wanted, wanted \cup {asked'}}
  /\ UNCHANGED <<taken, stage, run, owed, written, open>>

\* A frame is let in, dropped (a response, or one that cannot be read), or
\* refused before any handler.
TakeUp ==
  /\ stage = "idle"
  /\ taken < asked
  /\ taken' = taken + 1
  /\ stage' \in {"idle", "taken"} \/ (stage' = "failed" /\ taken' \in wanted)
  /\ UNCHANGED <<asked, wanted, run, owed, written, open>>

Admit ==
  /\ stage = "taken"
  /\ stage' = IF open THEN "admitted" ELSE "idle"
  /\ UNCHANGED <<asked, wanted, taken, run, owed, written, open>>

\* The handler has a result or an error to send back, or neither.
Run ==
  /\ stage = "admitted"
  /\ run' = run \cup {taken}
  /\ stage' = "idle" \/ (stage' \in {"ran", "failed"} /\ taken \in wanted)
  /\ UNCHANGED <<asked, wanted, taken, owed, written, open>>

\* The result joins those that are owed, or there is no room and it is lost.
Owe ==
  /\ stage = "ran"
  /\ stage' = "idle"
  /\ owed' \in {owed, owed \cup {taken}}
  /\ UNCHANGED <<asked, wanted, taken, run, written, open>>

Leaves(n) == open /\ written' = Append(written, n)

\* The error is sent, or its write fails.
Refuse ==
  /\ stage = "failed"
  /\ stage' = "idle"
  /\ Leaves(taken) \/ UNCHANGED written
  /\ UNCHANGED <<asked, wanted, taken, run, owed, open>>

\* The result that is owed longest leaves, or is lost.
Settle ==
  \E n \in owed :
    /\ \A m \in owed : n <= m
    /\ owed' = owed \ {n}
    /\ Leaves(n) \/ UNCHANGED written
    /\ UNCHANGED <<asked, wanted, taken, stage, run, open>>

SendOwn ==
  /\ Leaves(0)
  /\ UNCHANGED <<asked, wanted, taken, stage, run, owed, open>>

Shut ==
  /\ open' = FALSE
  /\ UNCHANGED <<asked, wanted, taken, stage, run, owed, written>>

Next == Ask \/ TakeUp \/ Admit \/ Run \/ Owe \/ Refuse \/ Settle \/ SendOwn \/ Shut

Spec == Init /\ [][Next]_vars
=============================================================================
