----------------------------- MODULE ServerProofs -----------------------------
(***************************************************************************)
(* Proofs about Server, for every set of connections and frames and for    *)
(* both kinds of transport.                                                *)
(***************************************************************************)
EXTENDS Server, TLAPS

USE NoConnAssumption, WebSocketAssumption

-----------------------------------------------------------------------------
(* The inductive invariant                                                 *)

\* Hooks, flag and table follow where the serve goroutine of a connection is.
Lifecycle ==
  \A c \in Conns :
    /\ onConnect[c] = 0 <=> serve[c] = "none"
    /\ onClose[c] = 1 <=> serve[c] \in {"closing", "deleting", "ended"}
    /\ serve[c] \in {"deleting", "ended"} => closed[c]
    /\ c \in conns <=> \/ serve[c] \in {"reading", "hook", "closing", "deleting"}
                       \/ accept = "hook" /\ current = c

\* The accept loop has a connection in its hands exactly while it works on one,
\* and an accepted connection is there unless it is served or was closed.
InHand ==
  /\ current = NoConn <=> accept \notin {"upgrading", "adding", "hook"}
  /\ \A c \in Conns :
       /\ current = c => serve[c] = "none" /\ peer[c] # "none"
       /\ peer[c] = "none" => serve[c] = "none"
       /\ peer[c] # "none" /\ ~closed[c] /\ serve[c] = "none" => current = c

OnlyWhileAccepting == listening => accept \notin {"idle", "nil", "error"}

ServerInv == TypeOK /\ Lifecycle /\ InHand /\ OnlyWhileAccepting

-----------------------------------------------------------------------------
(* The proofs                                                              *)

LEMMA ServerInit == Init => ServerInv
<1> SUFFICES ASSUME Init PROVE ServerInv
  OBVIOUS
<1> USE DEF Init
<1>1. TypeOK
  <2>1. cancelled \in BOOLEAN /\ stopped \in BOOLEAN /\ listening \in BOOLEAN
    OBVIOUS
  <2>2. accept \in {"idle", "accepting", "upgrading", "adding", "hook", "nil", "error"}
        /\ shutdown \in {"idle", "cancelled", "closing", "done"}
    OBVIOUS
  <2>3. /\ peer \in [Conns -> {"none", "up", "eof", "reset"}]
        /\ closed \in [Conns -> BOOLEAN]
        /\ serve \in [Conns -> {"none", "reading", "hook", "closing", "deleting", "ended"}]
    OBVIOUS
  <2>4. onConnect \in [Conns -> 0..1] /\ onClose \in [Conns -> 0..1]
    OBVIOUS
  <2>5. /\ kind \in [Frames -> Kinds \cup {"none"}]
        /\ from \in [Frames -> Conns \cup {NoConn}]
        /\ frame \in [Frames -> {"unsent", "sent", "handling", "answered", "failed", "ended"}]
    OBVIOUS
  <2> QED
    BY <2>1, <2>2, <2>3, <2>4, <2>5 DEF TypeOK
<1>2. Lifecycle /\ InHand /\ OnlyWhileAccepting
  BY DEF Lifecycle, InHand, OnlyWhileAccepting
<1> QED
  BY <1>1, <1>2 DEF ServerInv

LEMMA ListenSteps ==
  ASSUME ServerInv, Listen \/ ListenFails \/ CloseListener \/ Cancel
  PROVE  ServerInv'
<1> USE DEF ServerInv, acceptVars, connVars, shutdownVars, frameVars
<1>1. CASE Listen
  BY <1>1 DEF Listen, TypeOK, Lifecycle, InHand, OnlyWhileAccepting
<1>2. CASE ListenFails
  BY <1>2 DEF ListenFails, TypeOK, Lifecycle, InHand, OnlyWhileAccepting
<1>3. CASE CloseListener
  BY <1>3 DEF CloseListener, TypeOK, Lifecycle, InHand, OnlyWhileAccepting
<1>4. CASE Cancel
  BY <1>4 DEF Cancel, TypeOK, Lifecycle, InHand, OnlyWhileAccepting
<1> QED
  BY <1>1, <1>2, <1>3, <1>4

LEMMA AcceptSteps ==
  ASSUME ServerInv, AcceptStep \/ Upgrade \/ UpgradeError
  PROVE  ServerInv'
<1> USE DEF ServerInv, acceptVars, connVars, shutdownVars, frameVars
<1>1. ASSUME NEW c \in Conns, Accept(c)
      PROVE  ServerInv'
  <2>1. TypeOK'
    BY <1>1 DEF Accept, TypeOK
  <2>2. Lifecycle'
    BY <1>1 DEF Accept, TypeOK, Lifecycle, InHand
  <2>3. InHand'
    BY <1>1 DEF Accept, TypeOK, InHand
  <2>4. OnlyWhileAccepting'
    BY <1>1 DEF Accept, OnlyWhileAccepting
  <2> QED
    BY <2>1, <2>2, <2>3, <2>4
<1>2. CASE Upgrade
  BY <1>2 DEF Upgrade, TypeOK, Lifecycle, InHand, OnlyWhileAccepting
<1>3. CASE UpgradeError
  <2>1. current \in Conns
    BY <1>3 DEF UpgradeError, TypeOK, InHand
  <2>2. TypeOK'
    BY <1>3, <2>1 DEF UpgradeError, Return, TypeOK
  <2>3. Lifecycle'
    BY <1>3, <2>1 DEF UpgradeError, Return, TypeOK, Lifecycle, InHand
  <2>4. InHand' /\ OnlyWhileAccepting'
    BY <1>3, <2>1 DEF UpgradeError, Return, TypeOK, InHand, OnlyWhileAccepting
  <2> QED
    BY <2>2, <2>3, <2>4
<1>4. CASE AcceptError
  BY <1>4 DEF AcceptError, Return, TypeOK, Lifecycle, InHand, OnlyWhileAccepting
<1>5. CASE AddConn
  <2>1. current \in Conns /\ serve[current] = "none"
    BY <1>5 DEF AddConn, TypeOK, InHand
  <2>2. TypeOK' /\ OnlyWhileAccepting'
    BY <1>5, <2>1 DEF AddConn, TypeOK, OnlyWhileAccepting
  <2>3. Lifecycle'
    BY <1>5, <2>1 DEF AddConn, TypeOK, Lifecycle
  <2>4. InHand'
    BY <1>5, <2>1 DEF AddConn, TypeOK, InHand
  <2> QED
    BY <2>2, <2>3, <2>4
<1>6. CASE StartServe
  <2>1. current \in Conns /\ serve[current] = "none" /\ onConnect[current] = 0
        /\ peer[current] # "none"
    BY <1>6 DEF StartServe, TypeOK, InHand, Lifecycle
  <2>2. TypeOK'
    BY <1>6, <2>1 DEF StartServe, TypeOK
  <2>3. Lifecycle'
    BY <1>6, <2>1 DEF StartServe, TypeOK, Lifecycle
  <2>4. InHand' /\ OnlyWhileAccepting'
    BY <1>6, <2>1 DEF StartServe, TypeOK, InHand, OnlyWhileAccepting
  <2> QED
    BY <2>2, <2>3, <2>4
<1> QED
  BY <1>1, <1>2, <1>3, <1>4, <1>5, <1>6 DEF AcceptStep

\* The steps of a connection's serve goroutine that move it on.
LEMMA CleanupSteps ==
  ASSUME ServerInv, NEW c \in Conns,
         ReadEnd(c) \/ ReadError(c) \/ CleanupHook(c) \/ CleanupClose(c) \/ CleanupDelete(c)
  PROVE  ServerInv'
<1> USE DEF ServerInv, acceptVars, connVars, shutdownVars, frameVars
<1>1. serve[c] # "none" /\ current # c
  BY DEF ReadEnd, ReadError, CleanupHook, CleanupClose, CleanupDelete, InHand
<1>2. CASE ReadEnd(c)
  BY <1>1, <1>2 DEF ReadEnd, TypeOK, Lifecycle, InHand, OnlyWhileAccepting
<1>3. CASE ReadError(c)
  BY <1>1, <1>3 DEF ReadError, TypeOK, Lifecycle, InHand, OnlyWhileAccepting
<1>4. CASE CleanupHook(c)
  <2>1. onClose[c] = 0
    BY <1>4 DEF CleanupHook, TypeOK, Lifecycle
  <2> QED
    BY <1>1, <1>4, <2>1 DEF CleanupHook, TypeOK, Lifecycle, InHand, OnlyWhileAccepting
<1>5. CASE CleanupClose(c)
  BY <1>1, <1>5 DEF CleanupClose, TypeOK, Lifecycle, InHand, OnlyWhileAccepting
<1>6. CASE CleanupDelete(c)
  BY <1>1, <1>6 DEF CleanupDelete, TypeOK, Lifecycle, InHand, OnlyWhileAccepting
<1> QED
  BY <1>2, <1>3, <1>4, <1>5, <1>6

\* The steps that concern a frame and nothing else.
LEMMA FrameSteps ==
  ASSUME ServerInv, NEW f \in Frames,
         \/ HandlerReturns(f)
         \/ \E c \in Conns : ReadFrame(c, f) \/ Send(c, f)
  PROVE  ServerInv'
<1> USE DEF ServerInv, acceptVars, connVars, shutdownVars, frameVars
<1>1. UNCHANGED <<acceptVars, connVars, shutdownVars>>
  BY DEF HandlerReturns, ReadFrame, Send
<1>2. \A c : Written(c) \subseteq {"answered", "failed", "ended"}
  BY DEF Written
<1>3. kind' \in [Frames -> Kinds \cup {"none"}] /\ from' \in [Frames -> Conns \cup {NoConn}]
  BY DEF HandlerReturns, ReadFrame, Send, TypeOK
<1>4. frame' \in [Frames -> {"unsent", "sent", "handling", "answered", "failed", "ended"}]
  <2>1. ASSUME NEW end \in {"sent", "handling", "answered", "failed", "ended"},
               frame' = [frame EXCEPT ![f] = end]
        PROVE  frame' \in [Frames -> {"unsent", "sent", "handling", "answered", "failed", "ended"}]
    BY <2>1 DEF TypeOK
  <2>2. CASE HandlerReturns(f)
    <3>1. from[f] \in Conns \/ from[f] = NoConn
      BY DEF TypeOK
    <3>2. \E end \in {"answered", "failed", "ended"} : frame' = [frame EXCEPT ![f] = end]
      BY <1>2, <2>2, <3>1 DEF HandlerReturns
    <3> QED
      BY <2>1, <3>2
  <2>3. ASSUME NEW c \in Conns, ReadFrame(c, f) \/ Send(c, f)
        PROVE  frame' \in [Frames -> {"unsent", "sent", "handling", "answered", "failed", "ended"}]
    <3>1. \E end \in {"sent", "handling", "answered", "failed", "ended"} : frame' = [frame EXCEPT ![f] = end]
      BY <1>2, <2>3 DEF ReadFrame, Send
    <3> QED
      BY <2>1, <3>1
  <2> QED
    BY <2>2, <2>3
<1>5. TypeOK'
  BY <1>1, <1>3, <1>4 DEF TypeOK
<1> QED
  BY <1>1, <1>5 DEF Lifecycle, InHand, OnlyWhileAccepting

LEMMA ShutdownSteps ==
  ASSUME ServerInv, ShutdownCancel \/ ShutdownStep
  PROVE  ServerInv'
<1> USE DEF ServerInv, acceptVars, connVars, shutdownVars, frameVars
<1>1. CASE ShutdownCancel
  BY <1>1 DEF ShutdownCancel, TypeOK, Lifecycle, InHand, OnlyWhileAccepting
<1>2. CASE ShutdownSnapshot
  BY <1>2 DEF ShutdownSnapshot, TypeOK, Lifecycle, InHand, OnlyWhileAccepting
<1>3. CASE ShutdownReturn
  BY <1>3 DEF ShutdownReturn, TypeOK, Lifecycle, InHand, OnlyWhileAccepting
<1>4. ASSUME NEW c \in Conns, ShutdownClose(c)
      PROVE  ServerInv'
  BY <1>4 DEF ShutdownClose, TypeOK, Lifecycle, InHand, OnlyWhileAccepting
<1> QED
  BY <1>1, <1>2, <1>3, <1>4 DEF ShutdownStep

LEMMA EndSteps ==
  ASSUME ServerInv, NEW c \in Conns, CloseConn(c) \/ PeerEnds(c)
  PROVE  ServerInv'
<1> USE DEF ServerInv, acceptVars, connVars, shutdownVars, frameVars
<1>1. CASE CloseConn(c)
  BY <1>1 DEF CloseConn, TypeOK, Lifecycle, InHand, OnlyWhileAccepting
<1>2. CASE PeerEnds(c)
  <2>1. PICK end \in {"eof", "reset"} : peer' = [peer EXCEPT ![c] = end]
    BY <1>2 DEF PeerEnds
  <2> QED
    BY <1>2, <2>1 DEF PeerEnds, TypeOK, Lifecycle, InHand, OnlyWhileAccepting
<1> QED
  BY <1>1, <1>2

\* Accept loop, serve goroutines, handlers and Shutdown keep the flags, the hooks
\* and the table of active connections in step (server/server.go).
THEOREM ServerInvariant == Spec => []ServerInv
<1>1. ServerInv /\ [Next]_vars => ServerInv'
  <2> SUFFICES ASSUME ServerInv, [Next]_vars PROVE ServerInv'
    OBVIOUS
  <2>1. CASE UNCHANGED vars
    BY <2>1 DEF vars, acceptVars, connVars, shutdownVars, frameVars, ServerInv, TypeOK,
                Lifecycle, InHand, OnlyWhileAccepting
  <2>2. CASE Next
    BY <2>2, ListenSteps, AcceptSteps, CleanupSteps, FrameSteps, ShutdownSteps, EndSteps
       DEF Next, ServeStep, ClientStep
  <2> QED
    BY <2>1, <2>2
<1> QED
  BY <1>1, ServerInit, PTL DEF Spec

\* What the OnConnect and OnClose hooks told the application agrees with s.conns,
\* whichever of accept loop, serve, Shutdown and application acts first.
THEOREM HooksAgreeWithTable == Spec => []HooksMatchConns
<1>1. ServerInv => HooksMatchConns
  <2> SUFFICES ASSUME ServerInv, NEW c \in Conns
               PROVE  /\ onClose[c] <= onConnect[c]
                      /\ onConnect[c] = 1 /\ onClose[c] = 0 => c \in conns
    BY DEF HooksMatchConns
  <2>1. onConnect[c] \in 0..1 /\ onClose[c] \in 0..1
    BY DEF ServerInv, TypeOK
  <2>2. onConnect[c] = 0 => onClose[c] = 0
    BY <2>1 DEF ServerInv, Lifecycle
  <2>3. onConnect[c] = 1 /\ onClose[c] = 0 => c \in conns
    <3>1. serve[c] \in {"none", "reading", "hook", "closing", "deleting", "ended"}
      BY DEF ServerInv, TypeOK
    <3> QED
      BY <2>1, <3>1 DEF ServerInv, Lifecycle
  <2> QED
    BY <2>1, <2>2, <2>3
<1> QED
  BY <1>1, ServerInvariant, PTL

\* A serve goroutine ends with its connection closed, announced, ended once and
\* out of s.conns, and it stays so (serve and cleanup).
THEOREM ConnsLeaveClosed == Spec => []LeavesClosed
<1>1. ServerInv => LeavesClosed
  BY DEF ServerInv, TypeOK, Lifecycle, InHand, LeavesClosed
<1> QED
  BY <1>1, ServerInvariant, PTL

\* When ListenAndServe has returned, for whatever reason, the listener is closed
\* and every connection it accepted is served or closed.
THEOREM NothingLeftWhenReturned == Spec => []ReturnLeavesNothing
<1>1. ServerInv => ReturnLeavesNothing
  BY DEF ServerInv, TypeOK, Lifecycle, InHand, OnlyWhileAccepting, ReturnLeavesNothing
<1> QED
  BY <1>1, ServerInvariant, PTL
=============================================================================
