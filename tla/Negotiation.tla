----------------------------- MODULE Negotiation -----------------------------
(***************************************************************************)
(* Content negotiation between clients and a MessageServer: Negotiate      *)
(* (basic/message/client.go) on a Client, whose retryLoop resends what is   *)
(* not answered in time, and NegotiatePayloadHandler.Handle                    *)
(* (basic/message/handler/negotiate.go), which the bridge's read loop      *)
(* calls for each copy it gets.  The connections are those of              *)
(* MessageServer, which this module extends; each has its client.          *)
(*                                                                         *)
(* A call of Negotiate is known by its turn, which stands for the sequence *)
(* number of its request.  A retryLoop counts the expiry of its timer while *)
(* the request waits, and resends it later, without looking again: the     *)
(* copy may follow the request of a later call.  The negotiator is the application's: it may     *)
(* accept one copy of a request and refuse another, as one that checks     *)
(* a token that can be used once does.  It leaves the answer's SessionID   *)
(* to the handler, as the one of the repository does.                      *)
(***************************************************************************)
EXTENDS MessageServer, Sequences, SequencesExt

CONSTANTS Callers,   \* those of Conns whose client negotiates
          NoSession, \* the session_id property is not set
          Refusal,   \* an error in the place of a session
          MaxCopies, \* how often one request is sent at most; 1 + MaxRetries
          MaxSends   \* bound: the requests and expired timers of all clients

ASSUME CallersAssumption == Callers \subseteq Conns
ASSUME MarksAssumption == {NoSession, Refusal} \cap ((0..Cardinality(Fresh)) \X Nat) = {}
ASSUME CopiesAssumption == MaxCopies \in Nat \ {0} /\ MaxSends \in Nat

VARIABLES
  call,     \* what has become of the client's last call of Negotiate
  turn,     \* how many calls there were
  copies,   \* how often the last one's request was sent or is to be
  sends,    \* how many requests and expired timers there were
  due,      \* the turns whose retryLoop is about to resend
  up,       \* the requests on their way to the server
  hands,    \* what the read loop is about to answer
  queue,    \* the bridge's writeCh
  down,     \* the answers on their way to the client
  given,    \* sessionSeq of the handler
  server,   \* session_id of the server's Conn, set along with CODEC_TYPE
  client,   \* session_id of the client's Conn, set along with CODEC_TYPE
  accepts   \* history: how many copies, of whichever turn, the server accepted
            \* since the last call began

clientVars == <<call, turn, copies, sends, due, client>>
serverVars == <<hands, queue, given, server, accepts>>
wireVars == <<up, down>>
tableVars == <<id, lastId, phase, bridges, registry>>
allVars == <<tableVars, clientVars, serverVars, wireVars>>

\* A session is the number of its connection and one the handler counts.
Sessions == Ids \X Nat
Answers == [turn : Nat, session : Sessions \cup {Refusal}]

NegotiationTypeOK ==
  /\ TypeOK
  /\ call \in [Callers -> {"idle", "waiting", "accepted", "failed"}]
  /\ turn \in [Callers -> Nat]
  /\ copies \in [Callers -> Nat]
  /\ sends \in Nat
  /\ due \in [Callers -> SUBSET Nat]
  /\ up \in [Callers -> Seq(Nat)]
  /\ hands \in [Callers -> Seq(Answers)]
  /\ queue \in [Callers -> Seq(Answers)]
  /\ down \in [Callers -> Seq(Answers)]
  /\ given \in Nat
  /\ server \in [Callers -> Sessions \cup {NoSession}]
  /\ client \in [Callers -> Sessions \cup {NoSession}]
  /\ accepts \in [Callers -> Nat]

Nothing == [c \in Callers |-> <<>>]

NegotiationInit ==
  /\ Init
  /\ call = [c \in Callers |-> "idle"]
  /\ turn = [c \in Callers |-> 0]
  /\ copies = [c \in Callers |-> 0]
  /\ sends = 0
  /\ due = [c \in Callers |-> {}]
  /\ up = Nothing /\ hands = Nothing /\ queue = Nothing /\ down = Nothing
  /\ given = 0
  /\ server = [c \in Callers |-> NoSession]
  /\ client = [c \in Callers |-> NoSession]
  /\ accepts = [c \in Callers |-> 0]

Push(box, c, x) == [box EXCEPT ![c] = Append(@, x)]
Pop(box, c) == [box EXCEPT ![c] = Tail(@)]

-----------------------------------------------------------------------------
(* The client *)

\* Negotiate sends its request, once the connection is there.
Call(c) ==
  /\ phase[c] # "none"
  /\ call[c] # "waiting"
  /\ sends < MaxSends
  /\ sends' = sends + 1
  /\ turn' = [turn EXCEPT ![c] = @ + 1]
  /\ copies' = [copies EXCEPT ![c] = 1]
  /\ call' = [call EXCEPT ![c] = "waiting"]
  /\ up' = Push(up, c, turn'[c])
  /\ accepts' = [accepts EXCEPT ![c] = 0]
  /\ UNCHANGED <<tableVars, due, client, hands, queue, given, server, down>>

\* The timer of the request expires before its answer has come.  Its retryLoop
\* counts that, and is about to resend; it waits for no timer until it has.
TimerExpires(c) ==
  /\ call[c] = "waiting" /\ turn[c] \notin due[c]
  /\ copies[c] < MaxCopies /\ sends < MaxSends
  /\ sends' = sends + 1
  /\ copies' = [copies EXCEPT ![c] = @ + 1]
  /\ due' = [due EXCEPT ![c] = @ \cup {turn[c]}]
  /\ UNCHANGED <<tableVars, call, turn, client, serverVars, wireVars>>

\* The retryLoop resends, whatever has become of the call in the meantime.
Resend(c) ==
  \E t \in due[c] :
    /\ due' = [due EXCEPT ![c] = @ \ {t}]
    /\ up' = Push(up, c, t)
    /\ UNCHANGED <<tableVars, call, turn, copies, sends, client, serverVars, down>>

\* The copy cannot be written, which ends the retryLoop and the call.  (If the
\* call had settled, its channel done is closed twice: see Client.)
ResendFails(c) ==
  /\ call[c] = "waiting" /\ turn[c] \in due[c]
  /\ due' = [due EXCEPT ![c] = @ \ {turn[c]}]
  /\ call' = [call EXCEPT ![c] = "failed"]
  /\ UNCHANGED <<tableVars, turn, copies, sends, client, serverVars, wireVars>>

\* SendRequest fails: the retransmissions are used up, the context is done, the
\* client was closed.
GiveUp(c) ==
  /\ call[c] = "waiting"
  /\ call' = [call EXCEPT ![c] = "failed"]
  /\ UNCHANGED <<tableVars, turn, copies, sends, due, client, serverVars, wireVars>>

\* Negotiate takes what the answer says.  An error is no JSON, and ends the
\* call without a response.
TakeAnswer(c, answer) ==
  IF answer.session = Refusal
  THEN call' = [call EXCEPT ![c] = "failed"] /\ UNCHANGED client
  ELSE /\ call' = [call EXCEPT ![c] = "accepted"]
       /\ client' = [client EXCEPT ![c] = answer.session]

\* A plausible slip: whatever answer comes is the answer.
ReceiveUnmatched(c) ==
  /\ down[c] # <<>>
  /\ down' = Pop(down, c)
  /\ IF call[c] = "waiting"
     THEN TakeAnswer(c, Head(down[c]))
     ELSE UNCHANGED <<call, client>>
  /\ UNCHANGED <<tableVars, turn, copies, sends, due, serverVars, up>>

\* An answer arrives.  It counts if it has the number of a request that waits.
Receive(c) ==
  /\ down[c] # <<>>
  /\ down' = Pop(down, c)
  /\ IF call[c] = "waiting" /\ Head(down[c]).turn = turn[c]
     THEN TakeAnswer(c, Head(down[c]))
     ELSE UNCHANGED <<call, client>>
  /\ UNCHANGED <<tableVars, turn, copies, sends, due, serverVars, up>>

-----------------------------------------------------------------------------
(* The server *)

\* The read loop has a copy of a request in its hands and nothing else.
Handling(c) == phase[c] = "serving" /\ hands[c] = <<>> /\ up[c] # <<>>

\* A plausible slip: each connection counts its sessions for itself.
AcceptCountsAlone(c) ==
  /\ Handling(c)
  /\ given' = given + 1
  /\ LET session == <<id[c], IF server[c] = NoSession THEN 1 ELSE server[c][2] + 1>>
     IN  /\ server' = [server EXCEPT ![c] = session]
         /\ hands' = Push(hands, c, [turn |-> Head(up[c]), session |-> session])
  /\ accepts' = [accepts EXCEPT ![c] = @ + 1]
  /\ up' = Pop(up, c)
  /\ UNCHANGED <<tableVars, clientVars, queue, down>>

\* A plausible slip: a Conn that has a session keeps it.
AcceptKeepsFirst(c) ==
  /\ Handling(c)
  /\ given' = given + 1
  /\ LET session == <<id[c], given'>>
     IN  /\ server' = [server EXCEPT ![c] = IF @ = NoSession THEN session ELSE @]
         /\ hands' = Push(hands, c, [turn |-> Head(up[c]), session |-> session])
  /\ accepts' = [accepts EXCEPT ![c] = @ + 1]
  /\ up' = Pop(up, c)
  /\ UNCHANGED <<tableVars, clientVars, queue, down>>

\* Handle: each copy that is accepted gets a session of its own, which is set
\* on the Conn before it is answered.
Accept(c) ==
  /\ Handling(c)
  /\ given' = given + 1
  /\ LET session == <<id[c], given'>>
     IN  /\ server' = [server EXCEPT ![c] = session]
         /\ hands' = Push(hands, c, [turn |-> Head(up[c]), session |-> session])
  /\ accepts' = [accepts EXCEPT ![c] = @ + 1]
  /\ up' = Pop(up, c)
  /\ UNCHANGED <<tableVars, clientVars, queue, down>>

\* The body is empty or no request, or the negotiator refuses.  What is set on
\* the Conn stays.
Reject(c) ==
  /\ Handling(c)
  /\ hands' = Push(hands, c, [turn |-> Head(up[c]), session |-> Refusal])
  /\ up' = Pop(up, c)
  /\ UNCHANGED <<tableVars, clientVars, queue, given, server, accepts, down>>

\* The bridge answers: through writeCh, which drops what it cannot hold.
Respond(c) ==
  /\ hands[c] # <<>> /\ Head(hands[c]).session # Refusal
  /\ hands' = Pop(hands, c)
  /\ \/ queue' = Push(queue, c, Head(hands[c]))
     \/ UNCHANGED queue
  /\ UNCHANGED <<tableVars, clientVars, given, server, accepts, wireVars>>

\* An error goes past writeCh.
RespondError(c) ==
  /\ hands[c] # <<>> /\ Head(hands[c]).session = Refusal
  /\ hands' = Pop(hands, c)
  /\ down' = Push(down, c, Head(hands[c]))
  /\ UNCHANGED <<tableVars, clientVars, queue, given, server, accepts, up>>

\* The write loop, as long as the connection is there.
WriteAnswer(c) ==
  /\ phase[c] = "serving"
  /\ queue[c] # <<>>
  /\ down' = Push(down, c, Head(queue[c]))
  /\ queue' = Pop(queue, c)
  /\ UNCHANGED <<tableVars, clientVars, hands, given, server, accepts, up>>

-----------------------------------------------------------------------------
ClientStep(c) ==
  Call(c) \/ TimerExpires(c) \/ Resend(c) \/ ResendFails(c) \/ GiveUp(c) \/ Receive(c)
ServerStep(c) == Accept(c) \/ Reject(c) \/ Respond(c) \/ RespondError(c) \/ WriteAnswer(c)

NegotiationNext ==
  \/ Next /\ UNCHANGED <<clientVars, serverVars, wireVars>>
  \/ \E c \in Callers : ClientStep(c) \/ ServerStep(c)

NegotiationSpec == NegotiationInit /\ [][NegotiationNext]_allVars

-----------------------------------------------------------------------------
(* Correctness *)

\* No two connections have the same session, on whichever side, although the
\* connections of NewConn share the id that the sessions are named after.
SessionsDistinct ==
  \A c, d \in Callers :
    c # d => \A s \in {client[c], server[c]} \ {NoSession} : s \notin {client[d], server[d]}

\* A client that thinks it has negotiated has a session that its own connection
\* was given, and the server thinks so too: the server's session is that one or,
\* if another copy was accepted since, a later one.
ServerKnowsFirst ==
  \A c \in Callers :
    client[c] # NoSession =>
      /\ server[c] # NoSession
      /\ client[c][1] = server[c][1]
      /\ client[c][2] <= server[c][2]

\* Client and server agree on the session when a call has returned, if the server
\* accepted no other copy since the call began: neither one of its request nor
\* one of an earlier call's, which a retryLoop may send as late as that.  Answers
\* to earlier calls that come late do not count.
AgreeUnlessRepeated ==
  \A c \in Callers : call[c] = "accepted" /\ accepts[c] = 1 => client[c] = server[c]

-----------------------------------------------------------------------------
(* What the repository says of this code and the code does not do: TLC      *)
(* refutes it; README.md says in which configuration.                       *)

\* handler/negotiate.go: the session is set on the connection and returned to
\* the client.  A request that was sent twice is given two, the client takes the
\* first and the server keeps the last.
SessionsAgree == \A c \in Callers : call[c] = "accepted" => client[c] = server[c]
=============================================================================
