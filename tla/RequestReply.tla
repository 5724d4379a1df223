---------------------------- MODULE RequestReply ----------------------------
(***************************************************************************)
(* What SendRequest promises its callers, with nothing of how: a call that *)
(* was accepted returns once, with the answer to that very request or with *)
(* an error, and a closed client accepts no call.  Client implements it.   *)
(***************************************************************************)
CONSTANTS Requests,   \* the calls
          None,       \* no result yet
          Failed      \* the call returned an error

VARIABLES phase, result, shut

vars == <<phase, result, shut>>

Init ==
  /\ phase = [r \in Requests |-> "idle"]
  /\ result = [r \in Requests |-> None]
  /\ shut = FALSE

Call(r) ==
  /\ phase[r] = "idle"
  /\ ~shut
  /\ phase' = [phase EXCEPT ![r] = "called"]
  /\ UNCHANGED <<result, shut>>

Return(r, x) ==
  /\ phase' = [phase EXCEPT ![r] = "returned"]
  /\ result' = [result EXCEPT ![r] = x]
  /\ UNCHANGED shut

Answer(r) == phase[r] = "called" /\ Return(r, r)

\* An error can also be returned at once, to a call that was never accepted.
Fail(r) == phase[r] \in {"idle", "called"} /\ Return(r, Failed)

Shut ==
  /\ shut' = TRUE
  /\ UNCHANGED <<phase, result>>

Next == Shut \/ \E r \in Requests : Call(r) \/ Answer(r) \/ Fail(r)

Spec == Init /\ [][Next]_vars
=============================================================================
