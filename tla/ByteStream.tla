----------------------------- MODULE ByteStream -----------------------------
(***************************************************************************)
(* What the decoder expects of the connection it reads (io.Reader, as      *)
(* ensureBytes in conn/decoder.go uses it): the bytes the peer sent, in    *)
(* order, each once, in pieces that fit the room there is, up to an end    *)
(* after which nothing comes.  Bytes are known by their number.            *)
(***************************************************************************)
EXTENDS Naturals, Sequences

CONSTANTS Room  \* the most that one Read may bring

VARIABLES
  sent,   \* how many bytes the peer has sent
  got,    \* the bytes that Read has brought
  ended   \* Read has returned an error

vars == <<sent, got, ended>>

Init == sent = 0 /\ got = <<>> /\ ended = FALSE

Send ==
  /\ sent' \in Nat /\ sent' >= sent
  /\ UNCHANGED <<got, ended>>

Following(k) == [i \in 1..k |-> Len(got) + i]

Read(k) ==
  /\ ~ended
  /\ Len(got) + k <= sent
  /\ got' = got \o Following(k)
  /\ UNCHANGED <<sent, ended>>

\* The last Read may bring something along with the error.
End(k) ==
  /\ ~ended
  /\ Len(got) + k <= sent
  /\ got' = got \o Following(k)
  /\ ended' = TRUE
  /\ UNCHANGED sent

Next ==
  \/ Send
  \/ \E k \in 0..Room : Read(k) \/ End(k)

Spec == Init /\ [][Next]_vars
=============================================================================
