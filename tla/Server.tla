------------------------------- MODULE Server -------------------------------
(***************************************************************************)
(* server.Server (server/server.go): one call of ListenAndServe with its   *)
(* accept loop and the goroutine that closes the listener, the serve       *)
(* goroutine of every connection, the handler goroutines, and Shutdown.    *)
(* The connections' Conn (conn/connection.go) is seen as its closed flag   *)
(* and its context, which is done when the Conn is closed or s.cancel was   *)
(* called.  With WebSocket the listener is conn/ws.go's, whose Accept also *)
(* performs the upgrade.                                                   *)
(*                                                                         *)
(* Handlers and hooks are the application's; they are taken to return.     *)
(***************************************************************************)
EXTENDS Naturals

CONSTANTS Conns,      \* the connections clients open
          Frames,     \* the frames they send, each once
          NoConn,     \* no connection
          WebSocket   \* whether the transport is WebSocket

ASSUME NoConnAssumption == NoConn \notin Conns
ASSUME WebSocketAssumption == WebSocket \in BOOLEAN

VARIABLES
  cancelled,  \* ListenAndServe's ctx is done
  stopped,    \* s.ctx is done
  listening,  \* the listener is open
  accept,     \* where ListenAndServe is
  current,    \* the connection it is busy with
  peer,       \* the client's end of each connection
  closed,     \* Conn.closed
  conns,      \* s.conns
  serve,      \* where each connection's serve goroutine is
  onConnect,  \* how often the OnConnect hook ran
  onClose,    \* how often the OnClose hook ran
  shutdown,   \* where Shutdown is
  toClose,    \* the connections Shutdown has still to close
  kind,       \* what each frame is
  from,       \* the connection it was sent on
  frame       \* what became of it

acceptVars == <<cancelled, listening, accept, current>>
connVars == <<peer, closed, conns, serve, onConnect, onClose>>
shutdownVars == <<stopped, shutdown, toClose>>
frameVars == <<kind, from, frame>>
vars == <<acceptVars, connVars, shutdownVars, frameVars>>

\* A request that wants an answer, one that does not, one for an opcode nobody
\* registered, and what serve skips: responses, and notices of that opcode.
Kinds == {"request", "notice", "unknownRequest", "skipped"}

TypeOK ==
  /\ cancelled \in BOOLEAN /\ stopped \in BOOLEAN /\ listening \in BOOLEAN
  /\ accept \in {"idle", "accepting", "upgrading", "adding", "hook", "nil", "error"}
  /\ current \in Conns \cup {NoConn}
  /\ peer \in [Conns -> {"none", "up", "eof", "reset"}]
  /\ closed \in [Conns -> BOOLEAN]
  /\ conns \subseteq Conns
  /\ serve \in [Conns -> {"none", "reading", "hook", "closing", "deleting", "ended"}]
  /\ onConnect \in [Conns -> 0..1]
  /\ onClose \in [Conns -> 0..1]
  /\ shutdown \in {"idle", "cancelled", "closing", "done"}
  /\ toClose \subseteq Conns
  /\ kind \in [Frames -> Kinds \cup {"none"}]
  /\ from \in [Frames -> Conns \cup {NoConn}]
  /\ frame \in [Frames -> {"unsent", "sent", "handling", "answered", "failed", "ended"}]

\* NewServer
Init ==
  /\ cancelled = FALSE /\ stopped = FALSE /\ listening = FALSE
  /\ accept = "idle"
  /\ current = NoConn
  /\ peer = [c \in Conns |-> "none"]
  /\ closed = [c \in Conns |-> FALSE]
  /\ conns = {}
  /\ serve = [c \in Conns |-> "none"]
  /\ onConnect = [c \in Conns |-> 0]
  /\ onClose = [c \in Conns |-> 0]
  /\ shutdown = "idle"
  /\ toClose = {}
  /\ kind = [f \in Frames |-> "none"]
  /\ from = [f \in Frames |-> NoConn]
  /\ frame = [f \in Frames |-> "unsent"]

\* ctx.Context() of a connection is done.
ContextDone(c) == closed[c] \/ stopped

-----------------------------------------------------------------------------
(* ListenAndServe *)

Listen ==
  /\ accept = "idle"
  /\ listening' = TRUE
  /\ accept' = "accepting"
  /\ UNCHANGED <<cancelled, current, connVars, shutdownVars, frameVars>>

ListenFails ==
  /\ accept = "idle"
  /\ accept' = "error"
  /\ UNCHANGED <<cancelled, listening, current, connVars, shutdownVars, frameVars>>

\* The goroutine that waits for either context and closes the listener.
CloseListener ==
  /\ cancelled \/ stopped
  /\ listening
  /\ listening' = FALSE
  /\ UNCHANGED <<cancelled, accept, current, connVars, shutdownVars, frameVars>>

\* The caller's context ends.
Cancel ==
  /\ accept # "idle"
  /\ ~cancelled
  /\ cancelled' = TRUE
  /\ UNCHANGED <<listening, accept, current, connVars, shutdownVars, frameVars>>

\* A client dials and Accept takes its connection; ws.go's goes on with the
\* upgrade.
Accept(c) ==
  /\ accept = "accepting"
  /\ listening
  /\ peer[c] = "none"
  /\ peer' = [peer EXCEPT ![c] = "up"]
  /\ current' = c
  /\ accept' = IF WebSocket THEN "upgrading" ELSE "adding"
  /\ UNCHANGED <<cancelled, listening, closed, conns, serve, onConnect, onClose,
                 shutdownVars, frameVars>>

\* The client sent its upgrade request and it is a good one.
Upgrade ==
  /\ accept = "upgrading"
  /\ accept' = "adding"
  /\ UNCHANGED <<cancelled, listening, current, connVars, shutdownVars, frameVars>>

\* A plausible slip: the deferred listener.Close() is missing.
ReturnKeepsListener ==
  /\ accept' = IF cancelled \/ stopped THEN "nil" ELSE "error"
  /\ UNCHANGED listening

(***************************************************************************)
(* ListenAndServe returns: nil when one of the contexts is done, else the  *)
(* error.  Its defers close the listener.  A temporary error only delays   *)
(* the next Accept, and is no step of its own.                             *)
(***************************************************************************)
Return ==
  /\ accept' = IF cancelled \/ stopped THEN "nil" ELSE "error"
  /\ listening' = FALSE

\* Accept on a closed listener, or an error of the listener that lasts.
AcceptError ==
  /\ accept = "accepting"
  /\ Return
  /\ UNCHANGED <<cancelled, current, connVars, shutdownVars, frameVars>>

\* The upgrade request is bad or the connection ends in it: an error of Accept.
UpgradeError ==
  /\ accept = "upgrading"
  /\ Return
  /\ closed' = [closed EXCEPT ![current] = TRUE]
  /\ current' = NoConn
  /\ UNCHANGED <<cancelled, peer, conns, serve, onConnect, onClose,
                 shutdownVars, frameVars>>

\* newConnContext, and the new connection enters s.conns.
AddConn ==
  /\ accept = "adding"
  /\ conns' = conns \cup {current}
  /\ accept' = "hook"
  /\ UNCHANGED <<cancelled, listening, current, peer, closed, serve, onConnect,
                 onClose, shutdownVars, frameVars>>

\* A plausible slip: the hook is not called.
StartServeUnannounced ==
  /\ accept = "hook"
  /\ serve' = [serve EXCEPT ![current] = "reading"]
  /\ current' = NoConn
  /\ accept' = "accepting"
  /\ UNCHANGED <<cancelled, listening, peer, closed, conns, onConnect, onClose,
                 shutdownVars, frameVars>>

\* OnConnect, then go ctx.serve().
StartServe ==
  /\ accept = "hook"
  /\ onConnect' = [onConnect EXCEPT ![current] = @ + 1]
  /\ serve' = [serve EXCEPT ![current] = "reading"]
  /\ current' = NoConn
  /\ accept' = "accepting"
  /\ UNCHANGED <<cancelled, listening, peer, closed, conns, onClose,
                 shutdownVars, frameVars>>

-----------------------------------------------------------------------------
(* serve and the handlers *)

\* What can become of an answer that WritePacket is given: a closed Conn refuses
\* it; on an open one the write may fail, even to a client that is there, by its
\* deadline or in the encoding.  The error goes nowhere, and the Conn stays open.
Written(c) == IF closed[c] THEN {"ended"} ELSE {"answered", "failed"}

\* A plausible slip: an unknown opcode is skipped like a response.
ReadFrameSkipsUnknown(c, f) ==
  /\ serve[c] = "reading"
  /\ from[f] = c
  /\ frame[f] = "sent"
  /\ frame' = [frame EXCEPT ![f] = IF kind[f] \in {"request", "notice"}
                                    THEN "handling" ELSE "ended"]
  /\ UNCHANGED <<kind, from, acceptVars, connVars, shutdownVars>>

(***************************************************************************)
(* Decode returns a frame.  A request or notice for a known opcode runs in *)
(* a goroutine of its own; for an unknown opcode the request is answered   *)
(* here and now and the notice skipped, and so is a response.              *)
(***************************************************************************)
ReadFrame(c, f) ==
  /\ serve[c] = "reading"
  /\ from[f] = c
  /\ frame[f] = "sent"
  /\ \E end \in IF kind[f] \in {"request", "notice"} THEN {"handling"}
               ELSE IF kind[f] = "unknownRequest" THEN Written(c)
               ELSE {"ended"} :
       frame' = [frame EXCEPT ![f] = end]
  /\ UNCHANGED <<kind, from, acceptVars, connVars, shutdownVars>>

\* Decode returns io.EOF, which comes after every frame the client sent.
ReadEnd(c) ==
  /\ serve[c] = "reading"
  /\ peer[c] = "eof"
  /\ \A f \in Frames : from[f] = c => frame[f] # "sent"
  /\ serve' = [serve EXCEPT ![c] = "hook"]
  /\ UNCHANGED <<peer, closed, conns, onConnect, onClose, acceptVars, shutdownVars, frameVars>>

\* A plausible slip: serve tries again even though the Conn was closed.
ReadErrorOnlyOnStop(c) ==
  /\ serve[c] = "reading"
  /\ closed[c] \/ peer[c] = "reset"
  /\ stopped
  /\ serve' = [serve EXCEPT ![c] = "hook"]
  /\ UNCHANGED <<peer, closed, conns, onConnect, onClose, acceptVars, shutdownVars, frameVars>>

\* Decode returns another error: serve ends if the context is done, and else
\* tries again, at once and for as long as the error lasts.
ReadError(c) ==
  /\ serve[c] = "reading"
  /\ closed[c] \/ peer[c] = "reset"
  /\ ContextDone(c)
  /\ serve' = [serve EXCEPT ![c] = "hook"]
  /\ UNCHANGED <<peer, closed, conns, onConnect, onClose, acceptVars, shutdownVars, frameVars>>

\* The handler returned; what it returned is sent if the frame wants an answer.
HandlerReturns(f) ==
  /\ frame[f] = "handling"
  /\ \E end \in IF kind[f] = "request" THEN Written(from[f]) ELSE {"ended"} :
       frame' = [frame EXCEPT ![f] = end]
  /\ UNCHANGED <<kind, from, acceptVars, connVars, shutdownVars>>

\* cleanup's OnClose
CleanupHook(c) ==
  /\ serve[c] = "hook"
  /\ onClose' = [onClose EXCEPT ![c] = @ + 1]
  /\ serve' = [serve EXCEPT ![c] = "closing"]
  /\ UNCHANGED <<peer, closed, conns, onConnect, acceptVars, shutdownVars, frameVars>>

\* A plausible slip: cleanup leaves the connection open.
CleanupLeavesOpen(c) ==
  /\ serve[c] = "closing"
  /\ serve' = [serve EXCEPT ![c] = "deleting"]
  /\ UNCHANGED <<peer, closed, conns, onConnect, onClose, acceptVars, shutdownVars, frameVars>>

\* cleanup's ctx.Conn.Close()
CleanupClose(c) ==
  /\ serve[c] = "closing"
  /\ closed' = [closed EXCEPT ![c] = TRUE]
  /\ serve' = [serve EXCEPT ![c] = "deleting"]
  /\ UNCHANGED <<peer, conns, onConnect, onClose, acceptVars, shutdownVars, frameVars>>

\* cleanup's delete(s.conns, ctx)
CleanupDelete(c) ==
  /\ serve[c] = "deleting"
  /\ conns' = conns \ {c}
  /\ serve' = [serve EXCEPT ![c] = "ended"]
  /\ UNCHANGED <<peer, closed, onConnect, onClose, acceptVars, shutdownVars, frameVars>>

\* The application closes a connection it was handed.
CloseConn(c) ==
  /\ onConnect[c] = 1
  /\ ~closed[c]
  /\ closed' = [closed EXCEPT ![c] = TRUE]
  /\ UNCHANGED <<peer, conns, serve, onConnect, onClose, acceptVars, shutdownVars, frameVars>>

-----------------------------------------------------------------------------
(* Shutdown *)

ShutdownCancel ==
  /\ shutdown = "idle"
  /\ accept # "idle"
  /\ stopped' = TRUE
  /\ shutdown' = "cancelled"
  /\ UNCHANGED <<toClose, acceptVars, connVars, frameVars>>

ShutdownSnapshot ==
  /\ shutdown = "cancelled"
  /\ toClose' = conns
  /\ shutdown' = "closing"
  /\ UNCHANGED <<stopped, acceptVars, connVars, frameVars>>

ShutdownClose(c) ==
  /\ shutdown = "closing"
  /\ c \in toClose
  /\ closed' = [closed EXCEPT ![c] = TRUE]
  /\ toClose' = toClose \ {c}
  /\ UNCHANGED <<stopped, shutdown, peer, conns, serve, onConnect, onClose,
                 acceptVars, frameVars>>

ShutdownReturn ==
  /\ shutdown = "closing"
  /\ toClose = {}
  /\ shutdown' = "done"
  /\ UNCHANGED <<stopped, toClose, acceptVars, connVars, frameVars>>

-----------------------------------------------------------------------------
(* The clients; what they do to a connection closed here goes unnoticed. *)

Send(c, f) ==
  /\ peer[c] = "up"
  /\ ~closed[c]
  /\ ~(current = c /\ accept = "upgrading")
  /\ frame[f] = "unsent"
  /\ \E k \in Kinds : kind' = [kind EXCEPT ![f] = k]
  /\ from' = [from EXCEPT ![f] = c]
  /\ frame' = [frame EXCEPT ![f] = "sent"]
  /\ UNCHANGED <<acceptVars, connVars, shutdownVars>>

\* The client closes its end, or the connection breaks.
PeerEnds(c) ==
  /\ peer[c] = "up"
  /\ ~closed[c]
  /\ \E end \in {"eof", "reset"} : peer' = [peer EXCEPT ![c] = end]
  /\ UNCHANGED <<closed, conns, serve, onConnect, onClose, acceptVars, shutdownVars, frameVars>>

-----------------------------------------------------------------------------
AcceptStep == AcceptError \/ AddConn \/ StartServe \/ \E c \in Conns : Accept(c)

ServeStep(c) ==
  \/ ReadEnd(c) \/ ReadError(c)
  \/ CleanupHook(c) \/ CleanupClose(c) \/ CleanupDelete(c)
  \/ \E f \in Frames : ReadFrame(c, f)

ShutdownStep ==
  \/ ShutdownSnapshot \/ ShutdownReturn
  \/ \E c \in Conns : ShutdownClose(c)

ClientStep(c) == PeerEnds(c) \/ \E f \in Frames : Send(c, f)

Next ==
  \/ Listen \/ ListenFails \/ Cancel \/ CloseListener
  \/ AcceptStep \/ Upgrade \/ UpgradeError
  \/ ShutdownCancel \/ ShutdownStep
  \/ \E c \in Conns : ServeStep(c) \/ CloseConn(c) \/ ClientStep(c)
  \/ \E f \in Frames : HandlerReturns(f)

Spec == Init /\ [][Next]_vars

(***************************************************************************)
(* The goroutines that serve connections run when they can, the accept     *)
(* loop finishes what it has accepted, and handlers return.  An upgrade    *)
(* depends on the client, as do dialling, sending and closing; nothing     *)
(* below needs Shutdown to go on or the listener to be closed.             *)
(***************************************************************************)
FairSpec ==
  /\ Spec
  /\ WF_vars(AddConn \/ StartServe)
  /\ \A c \in Conns : WF_vars(ServeStep(c))
  /\ \A f \in Frames : WF_vars(HandlerReturns(f))

-----------------------------------------------------------------------------
(* Correctness *)

(***************************************************************************)
(* The application's view and the server's agree: a connection announced   *)
(* by OnConnect and not yet ended by OnClose is among the active ones, and *)
(* OnClose follows OnConnect, although accept loop, serve and Shutdown     *)
(* work on the connection at the same time.                                *)
(***************************************************************************)
HooksMatchConns ==
  \A c \in Conns :
    /\ onClose[c] <= onConnect[c]
    /\ onConnect[c] = 1 /\ onClose[c] = 0 => c \in conns

\* A connection leaves s.conns closed, announced and ended, and for good.
LeavesClosed ==
  \A c \in Conns :
    serve[c] = "ended" => closed[c] /\ c \notin conns /\ onConnect[c] = 1 /\ onClose[c] = 1

\* When ListenAndServe has returned nothing accepts any more, and no accepted
\* connection is left between Accept and its serve goroutine.
ReturnLeavesNothing ==
  accept \in {"nil", "error"} =>
    /\ ~listening
    /\ \A c \in Conns : peer[c] \in {"up", "eof", "reset"} /\ ~closed[c] => serve[c] # "none"

\* No request on a connection that stays up is passed over: by its handler, or with
\* an error when nobody registered its opcode, it comes to the write of its answer.
\* That the write succeeds nobody sees to: where it fails the request has none.
RequestsAnswered ==
  \A f \in Frames, c \in Conns :
    from[f] = c /\ frame[f] = "sent" /\ kind[f] \in {"request", "unknownRequest"}
      ~> (frame[f] \in {"answered", "failed"} \/ closed[c] \/ peer[c] # "up")

\* A connection that was closed, by whomever, leaves the active ones.
ClosedConnsLeave ==
  \A c \in Conns : c \in conns /\ closed[c] ~> c \notin conns

-----------------------------------------------------------------------------
(* What the repository says of this code and the code does not do: TLC      *)
(* refutes each of these; README.md says in which configuration.            *)

\* server.go, OnClose: the hook is called before the connection is closed.
\* Shutdown and CloseConn close it first.
HookBeforeClose ==
  \A c \in Conns : onConnect[c] = 1 /\ closed[c] => onClose[c] = 1

\* server.go, ConnContext: it is destroyed when the connection ends.  After a
\* reset serve retries for ever.
BrokenConnsLeave ==
  \A c \in Conns : c \in conns /\ peer[c] = "reset" ~> c \notin conns

\* server.go, newConnContext: when the server is shut down all connections
\* are cancelled.  One accepted meanwhile is served on.
ShutdownEndsConns ==
  \A c \in Conns : shutdown = "done" /\ c \in conns ~> c \notin conns

\* server.go, ListenAndServe: it returns only when its context is cancelled
\* or listening fails.  A client's bad upgrade request ends it as well.
ServesUntilTold ==
  accept = "error" => \A c \in Conns : ~(closed[c] /\ serve[c] = "none")
=============================================================================
