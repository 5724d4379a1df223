--------------------------- MODULE MessageServer ---------------------------
(***************************************************************************)
(* server.MessageServer (server/message_server.go): the goroutines that    *)
(* call ServeConn, each for one connection, and the two tables they keep:  *)
(* the bridges of the server and the connections of its BeanRegister       *)
(* (basic/register/bean.go), by connection id.  What a bridge does while   *)
(* it serves is module Bridge's; here it is seen to start and to end.      *)
(***************************************************************************)
EXTENDS Naturals, FiniteSets

CONSTANTS Conns,   \* connections, and with them their bridges
          Fresh,   \* those of Conns that are given an id of their own
          NoConn   \* no connection

ASSUME ConnsAssumption == NoConn \notin Conns /\ Fresh \subseteq Conns
ASSUME FreshAssumption == IsFiniteSet(Fresh)

VARIABLES
  id,        \* Conn.id, which is 0 until it is set
  lastId,    \* the counter ids are taken from
  phase,     \* where the goroutine of each connection is
  bridges,   \* MessageServer.conns
  registry   \* BeanRegister.connections

vars == <<id, lastId, phase, bridges, registry>>

Ids == 0..Cardinality(Fresh)

TypeOK ==
  /\ id \in [Conns -> Ids]
  /\ lastId \in Ids
  /\ phase \in [Conns -> {"none", "made", "added", "serving", "served", "removed", "ended"}]
  /\ bridges \subseteq Conns
  /\ registry \in [Ids -> Conns \cup {NoConn}]

Init ==
  /\ id = [c \in Conns |-> 0]
  /\ lastId = 0
  /\ phase = [c \in Conns |-> "none"]
  /\ bridges = {}
  /\ registry = [i \in Ids |-> NoConn]

To(c, p) == phase' = [phase EXCEPT ![c] = p]

\* The application makes a Conn for ServeConn: with NewConnWithID, from a
\* counter like the server's connIDSeq, or with NewConn.
Make(c) ==
  /\ phase[c] = "none"
  /\ IF c \in Fresh
     THEN lastId' = lastId + 1 /\ id' = [id EXCEPT ![c] = lastId']
     ELSE UNCHANGED <<id, lastId>>
  /\ To(c, "made")
  /\ UNCHANGED <<bridges, registry>>

\* beanRegister.AddConnection: what is under the id already is replaced.
AddConnection(c) ==
  /\ phase[c] = "made"
  /\ registry' = [registry EXCEPT ![id[c]] = c]
  /\ To(c, "added")
  /\ UNCHANGED <<id, lastId, bridges>>

AddBridge(c) ==
  /\ phase[c] = "added"
  /\ bridges' = bridges \cup {c}
  /\ To(c, "serving")
  /\ UNCHANGED <<id, lastId, registry>>

\* bridge.Serve returns.
ServeReturns(c) ==
  /\ phase[c] = "serving"
  /\ To(c, "served")
  /\ UNCHANGED <<id, lastId, bridges, registry>>

\* A plausible slip: the connection stays in the registry until another comes.
RemoveConnectionForgets(c) ==
  /\ phase[c] = "served"
  /\ To(c, "removed")
  /\ UNCHANGED <<id, lastId, bridges, registry>>

\* beanRegister.RemoveConnection: what is under the id goes, whoever added it.
RemoveConnection(c) ==
  /\ phase[c] = "served"
  /\ registry' = [registry EXCEPT ![id[c]] = NoConn]
  /\ To(c, "removed")
  /\ UNCHANGED <<id, lastId, bridges>>

RemoveBridge(c) ==
  /\ phase[c] = "removed"
  /\ bridges' = bridges \ {c}
  /\ To(c, "ended")
  /\ UNCHANGED <<id, lastId, registry>>

Next ==
  \E c \in Conns :
    \/ Make(c) \/ AddConnection(c) \/ AddBridge(c)
    \/ ServeReturns(c)
    \/ RemoveConnection(c) \/ RemoveBridge(c)

Spec == Init /\ [][Next]_vars

-----------------------------------------------------------------------------
(* Correctness *)

\* A connection with an id of its own can be looked up under it as long as it is
\* served, while others, with and without one, come and go.
FoundWhileServed ==
  \A c \in Conns :
    id[c] # 0 /\ phase[c] \in {"added", "serving", "served"} => registry[id[c]] = c

\* A connection that is served and not found under its id has lost the entry to
\* one that shares the id, and the registry tells which way: it has the other,
\* who is still served, or nobody, because the other has gone (AddConnection and
\* RemoveConnection go by the id alone).
FoundOrTakenOver ==
  \A c \in Conns :
    phase[c] \in {"added", "serving", "served"} /\ registry[id[c]] # c =>
      \E d \in Conns \ {c} :
        /\ id[d] = id[c]
        /\ \/ registry[id[c]] = d /\ phase[d] \in {"added", "serving", "served"}
           \/ registry[id[c]] = NoConn /\ phase[d] \in {"removed", "ended"}

\* The tables hold who is being served and nobody else: the bridges of the
\* goroutines between AddBridge and RemoveBridge, and no connection of a
\* goroutine that has ended.
NothingLeftBehind ==
  /\ bridges = {c \in Conns : phase[c] \in {"serving", "served", "removed"}}
  /\ \A i \in Ids : registry[i] # NoConn =>
       phase[registry[i]] \in {"added", "serving", "served"}

-----------------------------------------------------------------------------
(* What the repository says of this code and the code does not do: TLC      *)
(* refutes it; README.md says in which configuration.                       *)

\* connection.go: an id is a connection's own within a server.  Two of
\* server.Server's connections, which nobody gives an id, share id 0: the end
\* of one takes the other, still served, out of the registry.
ServedAreFound ==
  \A c \in Conns : phase[c] = "serving" => registry[id[c]] # NoConn
=============================================================================
