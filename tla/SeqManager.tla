----------------------------- MODULE SeqManager -----------------------------
(***************************************************************************)
(* conn.SeqManager (conn/seq.go): sequence numbers, the table of pending   *)
(* requests and one retryLoop goroutine per request.                       *)
(*                                                                         *)
(* The module holds the state and the operations; the goroutines that call *)
(* them are in Client.  A request is the call of SendRequest it belongs to *)
(* and is used once.  An operator is what runs between taking and          *)
(* releasing sm.mu, or between two such sections.                          *)
(*                                                                         *)
(* A Go channel of capacity 1 is the value in it, NoReq or "none" when     *)
(* empty.  The channel done is only ever closed, so it is the number of    *)
(* times it was: closing it a second time panics.                          *)
(***************************************************************************)
EXTENDS SeqAlloc

CONSTANTS Requests,     \* the SendRequest calls
          MaxRetries,   \* api.MaxRetries, 3 in the code
          NoReq         \* no request

ASSUME RequestsAssumption == NoReq \notin Requests
ASSUME MaxRetriesAssumption == MaxRetries \in Nat

VARIABLES
  next,      \* sm.next
  closed,    \* sm.closed
  pending,   \* sm.pending: the request at each sequence number
  seq,       \* pr.Seq; 0 before Allocate
  retries,   \* pr.Retries
  loop,      \* where the request's retryLoop is
  closes,    \* how often pr.done was closed
  respC,     \* pr.ResponseC: the request whose answer it holds
  errC       \* pr.ErrC

smVars == <<next, closed, pending, seq, retries, loop, closes, respC, errC>>

LoopStates == {"none", "armed", "resend", "giveup", "exited"}
Errors == {"none", "MaxRetries", "Retransmit", "ConnClosed"}

SMTypeOK ==
  /\ next \in Seqs
  /\ closed \in BOOLEAN
  /\ pending \in [Seqs -> Requests \cup {NoReq}]
  /\ seq \in [Requests -> Seqs \cup {0}]
  /\ retries \in [Requests -> 0..(MaxRetries + 1)]
  /\ loop \in [Requests -> LoopStates]
  /\ closes \in [Requests -> 0..2]
  /\ respC \in [Requests -> Requests \cup {NoReq}]
  /\ errC \in [Requests -> Errors]

\* NewSeqManager
SMInit ==
  /\ next = 1
  /\ closed = FALSE
  /\ pending = [s \in Seqs |-> NoReq]
  /\ seq = [r \in Requests |-> 0]
  /\ retries = [r \in Requests |-> 0]
  /\ loop = [r \in Requests |-> "none"]
  /\ closes = [r \in Requests |-> 0]
  /\ respC = [r \in Requests |-> NoReq]
  /\ errC = [r \in Requests |-> "none"]

\* Some goroutine closed a closed channel: the Go runtime ends the process.
Panicked == \E r \in Requests : closes[r] > 1

-----------------------------------------------------------------------------
\* A plausible slip: the closed flag is not looked at.
AllocateWhenClosed(r) ==
  /\ LET a == Allocation(next, {s \in Seqs : pending[s] # NoReq})
     IN /\ seq' = [seq EXCEPT ![r] = a.seq]
        /\ next' = a.next
  /\ UNCHANGED <<closed, pending, retries, loop, closes, respC, errC>>

\* Allocate; it returns 0 and changes nothing when the manager is closed.
Allocate(r) ==
  /\ ~closed
  /\ LET a == Allocation(next, {s \in Seqs : pending[s] # NoReq})
     IN /\ seq' = [seq EXCEPT ![r] = a.seq]
        /\ next' = a.next
  /\ UNCHANGED <<closed, pending, retries, loop, closes, respC, errC>>

\* Enqueue replaces whatever is at the number and does not look at closed.
Enqueue(r) ==
  /\ pending' = [pending EXCEPT ![seq[r]] = r]
  /\ loop' = [loop EXCEPT ![r] = "armed"]
  /\ UNCHANGED <<next, closed, seq, retries, closes, respC, errC>>

\* The locked part of Resolve, for a number that is pending.
ResolveLookup(s) ==
  /\ pending[s] # NoReq
  /\ pending' = [pending EXCEPT ![s] = NoReq]
  /\ UNCHANGED <<next, closed, seq, retries, loop, closes, respC, errC>>

\* A plausible slip: the answer is put in the channel and done is not closed.
ResolveDeliverKeepsLoop(r, f) ==
  /\ respC' = [respC EXCEPT ![r] = IF @ = NoReq THEN f ELSE @]
  /\ UNCHANGED <<next, closed, pending, seq, retries, loop, closes, errC>>

\* The rest of Resolve, outside the lock: close done, then hand over the
\* answer f.  A panic in the close leaves the answer undelivered.
ResolveDeliver(r, f) ==
  /\ closes' = [closes EXCEPT ![r] = @ + 1]
  /\ respC' = [respC EXCEPT ![r] = IF closes[r] = 0 /\ @ = NoReq THEN f ELSE @]
  /\ UNCHANGED <<next, closed, pending, seq, retries, loop, errC>>

-----------------------------------------------------------------------------
\* retryLoop's select: the timer fires.  The code asks whether the *number*
\* is pending, not whether this request is.
TimerAfterSettled(r) ==
  /\ loop[r] = "armed"
  /\ pending[seq[r]] = NoReq
  /\ loop' = [loop EXCEPT ![r] = "exited"]
  /\ UNCHANGED <<next, closed, pending, seq, retries, closes, respC, errC>>

\* A plausible slip: the table is not looked at again when the timer fires.
TimerExpiresUnchecked(r) ==
  /\ loop[r] = "armed"
  /\ retries' = [retries EXCEPT ![r] = @ + 1]
  /\ loop' = [loop EXCEPT ![r] = IF retries[r] + 1 > MaxRetries
                                  THEN "giveup" ELSE "resend"]
  /\ UNCHANGED <<next, closed, pending, seq, closes, respC, errC>>

\* A plausible slip: the number of retransmissions has no limit.
TimerExpiresForever(r) ==
  /\ loop[r] = "armed"
  /\ pending[seq[r]] # NoReq
  /\ loop' = [loop EXCEPT ![r] = "resend"]
  /\ UNCHANGED <<next, closed, pending, seq, retries, closes, respC, errC>>

\* The number is pending: count the expiry, then resend or give up.
TimerExpires(r) ==
  /\ loop[r] = "armed"
  /\ pending[seq[r]] # NoReq
  /\ retries' = [retries EXCEPT ![r] = @ + 1]
  /\ loop' = [loop EXCEPT ![r] = IF retries[r] + 1 > MaxRetries
                                  THEN "giveup" ELSE "resend"]
  /\ UNCHANGED <<next, closed, pending, seq, closes, respC, errC>>

\* retryLoop's select: done is closed.
DoneSeen(r) ==
  /\ loop[r] = "armed"
  /\ closes[r] > 0
  /\ loop' = [loop EXCEPT ![r] = "exited"]
  /\ UNCHANGED <<next, closed, pending, seq, retries, closes, respC, errC>>

\* onRetransmit succeeded: arm the next, longer timer.
Resent(r) ==
  /\ loop[r] = "resend"
  /\ loop' = [loop EXCEPT ![r] = "armed"]
  /\ UNCHANGED <<next, closed, pending, seq, retries, closes, respC, errC>>

\* A plausible slip: the caller is not told.
AbandonSilently(r, e) ==
  /\ pending' = [pending EXCEPT ![seq[r]] = NoReq]
  /\ closes' = [closes EXCEPT ![r] = @ + 1]
  /\ loop' = [loop EXCEPT ![r] = "exited"]
  /\ UNCHANGED <<next, closed, seq, retries, respC, errC>>

(***************************************************************************)
(* retryLoop ends the request with error e: delete the number, close done, *)
(* put the error in the channel.  The delete is locked and the other two   *)
(* are not; they are one action because nothing between them reads or      *)
(* writes what they touch: after the delete no other goroutine finds the   *)
(* request, and one that had found it before closes done as well, whatever *)
(* the order.                                                              *)
(***************************************************************************)
Abandon(r, e) ==
  /\ pending' = [pending EXCEPT ![seq[r]] = NoReq]
  /\ closes' = [closes EXCEPT ![r] = @ + 1]
  /\ errC' = [errC EXCEPT ![r] = IF closes[r] = 0 /\ @ = "none" THEN e ELSE @]
  /\ loop' = [loop EXCEPT ![r] = "exited"]
  /\ UNCHANGED <<next, closed, seq, retries, respC>>

GiveUp(r) == loop[r] = "giveup" /\ Abandon(r, "MaxRetries")

ResendFailed(r) == loop[r] = "resend" /\ Abandon(r, "Retransmit")

-----------------------------------------------------------------------------
\* Remove drops whatever request is at the number.
Remove(s) ==
  /\ pending' = [pending EXCEPT ![s] = NoReq]
  /\ closes' = [r \in Requests |-> IF r = pending[s] THEN closes[r] + 1 ELSE closes[r]]
  /\ UNCHANGED <<next, closed, seq, retries, loop, respC, errC>>

\* A plausible slip: Close empties the table and tells nobody.
CloseManagerSilently ==
  LET waiting == {r \in Requests : \E s \in Seqs : pending[s] = r}
  IN /\ closed' = TRUE
     /\ pending' = [s \in Seqs |-> NoReq]
     /\ closes' = [r \in Requests |-> IF r \in waiting THEN closes[r] + 1 ELSE closes[r]]
     /\ UNCHANGED <<next, seq, retries, loop, respC, errC>>

\* Close: one locked section over the whole table.
CloseManager ==
  LET waiting == {r \in Requests : \E s \in Seqs : pending[s] = r}
  IN /\ closed' = TRUE
     /\ pending' = [s \in Seqs |-> NoReq]
     /\ closes' = [r \in Requests |-> IF r \in waiting THEN closes[r] + 1 ELSE closes[r]]
     /\ errC' = [r \in Requests |-> IF r \in waiting /\ errC[r] = "none"
                                     THEN "ConnClosed" ELSE errC[r]]
     /\ UNCHANGED <<next, seq, retries, loop, respC>>
=============================================================================
