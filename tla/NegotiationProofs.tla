-------------------------- MODULE NegotiationProofs --------------------------
(***************************************************************************)
(* Proofs about MessageServer and Negotiation, for every set of            *)
(* connections, with and without ids of their own, however often requests  *)
(* are sent.  Negotiation is a MessageServer, whose theorems carry over.   *)
(***************************************************************************)
EXTENDS Negotiation, FiniteSetTheorems, SequenceTheorems, TLAPS

USE ConnsAssumption

-----------------------------------------------------------------------------
(* The inductive invariant of the tables of MessageServer                  *)

Made == {c \in Conns : phase[c] # "none"}

\* The counter counts who was given an id.
Counted == lastId = Cardinality(Fresh \cap Made)

\* An id is given once, to a connection that should have one.
IdsGivenOnce ==
  \A c \in Conns :
    /\ id[c] <= lastId
    /\ id[c] # 0 <=> c \in Fresh \cap Made
    /\ \A d \in Conns : id[c] # 0 /\ id[c] = id[d] => c = d

\* Who is in the registry is there under his id.
UnderTheirIds == \A i \in Ids : registry[i] # NoConn => id[registry[i]] = i

TablesInv ==
  TypeOK /\ Counted /\ IdsGivenOnce /\ UnderTheirIds /\ FoundOrTakenOver /\ NothingLeftBehind

-----------------------------------------------------------------------------
(* That of Negotiation                                                     *)

\* The answers on the way to the client.
InPipe(c) == ToSet(hands[c]) \cup ToSet(queue[c]) \cup ToSet(down[c])

\* The sessions of a connection: those it has and those on the way.
Held(c) == ({client[c], server[c]} \cup {a.session : a \in InPipe(c)}) \ {NoSession, Refusal}

\* A connection's sessions are named after it, and the server has the last one.
Given(c, s) ==
  /\ phase[c] # "none" /\ server[c] # NoSession
  /\ s[1] = id[c] /\ s[2] <= server[c][2]

HeldAreGiven ==
  \A c \in Callers : \A s \in Held(c) : s \in Sessions /\ Given(c, s) /\ s[2] <= given

HeldApart == \A c, d \in Callers : c # d => Held(c) \cap Held(d) = {}

\* Nobody sends a request of a call that has not begun.
SentInTurn ==
  \A c \in Callers : \A t \in ToSet(up[c]) \cup due[c] : t <= turn[c]

\* What can still come, and has been accepted, since the last call began.
LastTurn ==
  \A c \in Callers :
    /\ call[c] = "accepted" => accepts[c] # 0
    /\ \A a \in InPipe(c) :
         /\ a.turn <= turn[c]
         /\ a.turn = turn[c] /\ a.session # Refusal =>
              /\ accepts[c] # 0
              /\ accepts[c] = 1 => a.session = server[c]

NegotiationInv ==
  NegotiationTypeOK /\ HeldAreGiven /\ HeldApart /\ SentInTurn /\ LastTurn /\ AgreeUnlessRepeated


-----------------------------------------------------------------------------
(* The tables of MessageServer *)

LEMMA FreshIsFinite ==
  /\ Cardinality(Fresh) \in Nat
  /\ \A S \in SUBSET Fresh : IsFiniteSet(S) /\ Cardinality(S) \in Nat
                             /\ Cardinality(S) <= Cardinality(Fresh)
BY FreshAssumption, FS_Subset, FS_CardinalityType

LEMMA TablesInit == Init => TablesInv
<1> SUFFICES ASSUME Init PROVE TablesInv
  OBVIOUS
<1> USE DEF Init
<1>1. 0 \in Ids /\ Ids \subseteq Nat
  BY FreshIsFinite DEF Ids
<1>2. TypeOK
  BY <1>1 DEF TypeOK
<1>3. Fresh \cap Made = {}
  BY DEF Made
<1>4. Counted
  BY <1>3, FS_EmptySet DEF Counted
<1>5. IdsGivenOnce
  BY <1>3 DEF IdsGivenOnce
<1>6. UnderTheirIds /\ FoundOrTakenOver /\ NothingLeftBehind
  BY DEF UnderTheirIds, FoundOrTakenOver, NothingLeftBehind
<1> QED
  BY <1>2, <1>4, <1>5, <1>6 DEF TablesInv

\* Who was not served before and is not found now takes nothing from anybody.
LEMMA KeptByOthers ==
  ASSUME TablesInv, NEW c \in Conns, phase[c] = "none", phase'[c] = "made",
         UNCHANGED registry,
         \A d \in Conns \ {c} : id'[d] = id[d] /\ phase'[d] = phase[d]
  PROVE  FoundOrTakenOver'
<1> SUFFICES ASSUME NEW e \in Conns, phase'[e] \in {"added", "serving", "served"},
                    registry'[id'[e]] # e
             PROVE  \E d \in Conns \ {e} :
                      /\ id'[d] = id'[e]
                      /\ \/ registry'[id'[e]] = d /\ phase'[d] \in {"added", "serving", "served"}
                         \/ registry'[id'[e]] = NoConn /\ phase'[d] \in {"removed", "ended"}
  BY DEF FoundOrTakenOver
<1>1. e # c /\ id'[e] = id[e] /\ phase'[e] = phase[e]
  OBVIOUS
<1>2. PICK d \in Conns \ {e} :
        /\ id[d] = id[e]
        /\ \/ registry[id[e]] = d /\ phase[d] \in {"added", "serving", "served"}
           \/ registry[id[e]] = NoConn /\ phase[d] \in {"removed", "ended"}
  BY <1>1 DEF TablesInv, FoundOrTakenOver
<1>3. d # c /\ id'[d] = id[d] /\ phase'[d] = phase[d]
  BY <1>2
<1> QED
  BY <1>1, <1>2, <1>3

\* A new connection takes the next id, which no other has.
LEMMA MakeStep ==
  ASSUME TablesInv, NEW c \in Conns, Make(c)
  PROVE  TablesInv'
<1> USE DEF TablesInv
<1>1. /\ phase[c] = "none" /\ phase' = [phase EXCEPT ![c] = "made"]
      /\ UNCHANGED <<bridges, registry>>
      /\ Made' = Made \cup {c} /\ c \notin Made
  BY DEF Make, To, Made, TypeOK
<1>2. id[c] = 0 /\ lastId \in Nat /\ \A d \in Conns : id[d] \in Nat
  BY <1>1, FreshIsFinite DEF IdsGivenOnce, TypeOK, Ids
<1>3. CASE c \in Fresh
  <2>1. lastId' = lastId + 1 /\ id' = [id EXCEPT ![c] = lastId + 1]
    BY <1>3 DEF Make
  <2>2. Fresh \cap Made' = (Fresh \cap Made) \cup {c} /\ c \notin Fresh \cap Made
    BY <1>1, <1>3
  <2>3. Cardinality(Fresh \cap Made') = Cardinality(Fresh \cap Made) + 1
    BY <2>2, FreshIsFinite, FS_AddElement
  <2>4. Counted'
    BY <2>1, <2>3 DEF Counted
  <2>5. lastId' \in Ids
    BY <2>4, FreshIsFinite DEF Counted, Ids
  <2>6. TypeOK'
    BY <1>1, <2>1, <2>5 DEF TypeOK, To
  <2>7. IdsGivenOnce'
    <3>1. ASSUME NEW d \in Conns PROVE id'[d] <= lastId'
      BY <1>2, <2>1, <3>1 DEF IdsGivenOnce, TypeOK
    <3>2. ASSUME NEW d \in Conns PROVE id'[d] # 0 <=> d \in Fresh \cap Made'
      BY <1>2, <1>3, <2>1, <2>2, <3>2 DEF IdsGivenOnce, TypeOK
    <3>3. ASSUME NEW d \in Conns, NEW e \in Conns, id'[d] # 0, id'[d] = id'[e]
          PROVE  d = e
      BY <1>2, <2>1, <3>3 DEF IdsGivenOnce, TypeOK
    <3> QED
      BY <3>1, <3>2, <3>3 DEF IdsGivenOnce
  <2>8. \A i \in Ids : registry[i] # c
    BY <1>1 DEF NothingLeftBehind
  <2>9. UnderTheirIds'
    BY <1>1, <2>1, <2>8 DEF UnderTheirIds, TypeOK
  <2>10. /\ \A d \in Conns \ {c} : id'[d] = id[d] /\ phase'[d] = phase[d]
         /\ phase'[c] = "made"
    BY <1>1, <2>1 DEF TypeOK
  <2>11. NothingLeftBehind'
    BY <1>1, <2>8 DEF NothingLeftBehind, TypeOK
  <2>12. FoundOrTakenOver'
    BY <1>1, <2>10, KeptByOthers
  <2> QED
    BY <2>4, <2>6, <2>7, <2>9, <2>11, <2>12
<1>4. CASE c \notin Fresh
  <2>1. UNCHANGED <<id, lastId>>
    BY <1>4 DEF Make
  <2>2. Fresh \cap Made' = Fresh \cap Made
    BY <1>1, <1>4
  <2>3. TypeOK' /\ Counted' /\ IdsGivenOnce' /\ UnderTheirIds'
    BY <1>1, <2>1, <2>2 DEF TypeOK, Counted, IdsGivenOnce, UnderTheirIds
  <2>4. FoundOrTakenOver'
    <3>1. /\ \A d \in Conns \ {c} : id'[d] = id[d] /\ phase'[d] = phase[d]
          /\ phase'[c] = "made"
      BY <1>1, <2>1 DEF TypeOK
    <3> QED
      BY <1>1, <3>1, KeptByOthers
  <2>5. NothingLeftBehind'
    BY <1>1 DEF NothingLeftBehind, TypeOK
  <2> QED
    BY <2>3, <2>4, <2>5
<1> QED
  BY <1>3, <1>4

LEMMA ServingStep ==
  ASSUME TablesInv, NEW c \in Conns,
         \/ AddConnection(c) \/ AddBridge(c) \/ ServeReturns(c)
         \/ RemoveConnection(c) \/ RemoveBridge(c)
  PROVE  TablesInv'
<1> USE DEF TablesInv
<1>1. /\ UNCHANGED <<id, lastId>>
      /\ phase[c] # "none"
      /\ \E p \in {"added", "serving", "served", "removed", "ended"} :
           phase' = [phase EXCEPT ![c] = p]
  BY DEF AddConnection, AddBridge, ServeReturns, RemoveConnection, RemoveBridge, To
<1>2. Made' = Made
  BY <1>1 DEF Made, TypeOK
<1>3. Counted' /\ IdsGivenOnce'
  BY <1>1, <1>2 DEF Counted, IdsGivenOnce
<1>4. id[c] \in Ids
  BY DEF TypeOK
<1>6. CASE AddConnection(c)
  <2>1. /\ phase[c] = "made" /\ phase' = [phase EXCEPT ![c] = "added"]
        /\ registry' = [registry EXCEPT ![id[c]] = c] /\ UNCHANGED bridges
    BY <1>6 DEF AddConnection, To
  <2>2. TypeOK'
    BY <1>1, <1>4, <2>1 DEF TypeOK
  <2>3. UnderTheirIds'
    BY <1>1, <1>4, <2>1 DEF UnderTheirIds, TypeOK
  <2>4. FoundOrTakenOver'
    BY <1>1, <1>4, <2>1 DEF FoundOrTakenOver, TypeOK
  <2>5. NothingLeftBehind'
    BY <1>1, <1>4, <2>1 DEF NothingLeftBehind, TypeOK
  <2> QED
    BY <1>3, <2>2, <2>3, <2>4, <2>5
<1>7. CASE AddBridge(c) \/ ServeReturns(c) \/ RemoveBridge(c)
  <2>1. /\ UNCHANGED registry
        /\ \/ phase[c] = "added" /\ phase' = [phase EXCEPT ![c] = "serving"]
              /\ bridges' = bridges \cup {c}
           \/ phase[c] = "serving" /\ phase' = [phase EXCEPT ![c] = "served"]
              /\ bridges' = bridges
           \/ phase[c] = "removed" /\ phase' = [phase EXCEPT ![c] = "ended"]
              /\ bridges' = bridges \ {c}
    BY <1>7 DEF AddBridge, ServeReturns, RemoveBridge, To
  <2>2. TypeOK' /\ UnderTheirIds'
    BY <1>1, <2>1 DEF TypeOK, UnderTheirIds
  <2>3. FoundOrTakenOver'
    BY <1>1, <2>1 DEF FoundOrTakenOver, TypeOK
  <2>4. NothingLeftBehind'
    BY <1>1, <2>1 DEF NothingLeftBehind, TypeOK
  <2> QED
    BY <1>3, <2>2, <2>3, <2>4
<1>8. CASE RemoveConnection(c)
  <2>1. /\ phase[c] = "served" /\ phase' = [phase EXCEPT ![c] = "removed"]
        /\ registry' = [registry EXCEPT ![id[c]] = NoConn] /\ UNCHANGED bridges
    BY <1>8 DEF RemoveConnection, To
  <2>2. TypeOK' /\ UnderTheirIds'
    BY <1>1, <1>4, <2>1 DEF TypeOK, UnderTheirIds
  <2>3. FoundOrTakenOver'
    BY <1>1, <1>4, <2>1 DEF FoundOrTakenOver, TypeOK
  <2>4. NothingLeftBehind'
    BY <1>1, <1>4, <2>1 DEF NothingLeftBehind, UnderTheirIds, TypeOK
  <2> QED
    BY <1>3, <2>2, <2>3, <2>4
<1> QED
  BY <1>6, <1>7, <1>8

LEMMA TablesStep == TablesInv /\ [Next]_vars => TablesInv'
<1> SUFFICES ASSUME TablesInv, [Next]_vars PROVE TablesInv'
  OBVIOUS
<1>1. CASE Next
  BY <1>1, MakeStep, ServingStep DEF Next
<1>2. CASE UNCHANGED vars
  <2>1. Made' = Made
    BY <1>2 DEF Made, vars
  <2> QED
    BY <1>2, <2>1 DEF vars, TablesInv, TypeOK, Counted, IdsGivenOnce, UnderTheirIds,
                      FoundOrTakenOver, NothingLeftBehind
<1> QED
  BY <1>1, <1>2

THEOREM TablesInvariant == Spec => []TablesInv
BY TablesInit, TablesStep, PTL DEF Spec

\* A connection that is served and not found under its id lost the entry to one
\* that shares the id, who is found in its place or has gone and taken the entry
\* along (AddConnection and RemoveConnection of the BeanRegister).
THEOREM LostToSharers == Spec => []FoundOrTakenOver
BY TablesInvariant, PTL DEF TablesInv

\* So nobody takes it from a connection with an id of its own (NewConnWithID): it is found
\* in the registry while it is served, whoever else comes and goes.
THEOREM ServedConnsFound == Spec => []FoundWhileServed
<1>1. TablesInv => FoundWhileServed
  BY DEF TablesInv, FoundOrTakenOver, FoundWhileServed, IdsGivenOnce
<1> QED
  BY <1>1, TablesInvariant, PTL

\* The two tables hold nobody who is not being served.
THEOREM TablesHoldNobodyElse == Spec => []NothingLeftBehind
BY TablesInvariant, PTL DEF TablesInv

-----------------------------------------------------------------------------
(* The composition implements its part *)

USE CallersAssumption, MarksAssumption

\* Whatever clients and read loops do, the tables change as in MessageServer.
LEMMA NegotiationStepIsTableStep == [NegotiationNext]_allVars => [Next]_vars
<1> SUFFICES ASSUME [NegotiationNext]_allVars PROVE [Next]_vars
  OBVIOUS
<1>1. CASE UNCHANGED allVars
  BY <1>1 DEF allVars, tableVars, vars
<1>2. ASSUME NEW c \in Callers, ClientStep(c) \/ ServerStep(c)
      PROVE  UNCHANGED vars
  BY <1>2 DEF ClientStep, ServerStep, Call, TimerExpires, Resend, ResendFails, GiveUp,
              Receive, Accept, Reject, Respond, RespondError, WriteAnswer, tableVars, vars
<1> QED
  BY <1>1, <1>2 DEF NegotiationNext

THEOREM NegotiationImplementsTables == NegotiationSpec => Spec
<1>1. NegotiationInit => Init
  BY DEF NegotiationInit
<1> QED
  BY <1>1, NegotiationStepIsTableStep, PTL DEF NegotiationSpec, Spec

-----------------------------------------------------------------------------
(* Sequences as sets *)

LEMMA PushedElements ==
  ASSUME NEW S, NEW s \in Seq(S), NEW x \in S
  PROVE  Append(s, x) \in Seq(S) /\ ToSet(Append(s, x)) = ToSet(s) \cup {x}
<1>1. /\ Append(s, x) \in Seq(S) /\ Len(Append(s, x)) = Len(s) + 1 /\ Len(s) \in Nat
      /\ \A i \in 1..Len(s) : Append(s, x)[i] = s[i]
      /\ Append(s, x)[Len(s) + 1] = x
  BY AppendProperties, LenProperties
<1>2. DOMAIN Append(s, x) = 1..(Len(s) + 1) /\ DOMAIN s = 1..Len(s)
  BY <1>1, LenProperties
<1>3. 1..(Len(s) + 1) = 1..Len(s) \cup {Len(s) + 1}
  BY <1>1
<1> QED
  BY <1>1, <1>2, <1>3 DEF ToSet

LEMMA PoppedElements ==
  ASSUME NEW S, NEW s \in Seq(S), s # <<>>
  PROVE  /\ Tail(s) \in Seq(S) /\ Head(s) \in S /\ Head(s) = s[1]
         /\ ToSet(Tail(s)) \subseteq ToSet(s) /\ Head(s) \in ToSet(s)
         /\ Len(Tail(s)) = Len(s) - 1 /\ Len(s) \in Nat \ {0}
         /\ \A i \in 1..Len(Tail(s)) : Tail(s)[i] = s[i + 1]
<1>1. /\ Tail(s) \in Seq(S) /\ Head(s) \in S /\ Head(s) = s[1]
      /\ Len(Tail(s)) = Len(s) - 1 /\ \A i \in 1..Len(Tail(s)) : Tail(s)[i] = s[i + 1]
  BY HeadTailProperties, EmptySeq
<1>2. Len(s) \in Nat \ {0} /\ DOMAIN s = 1..Len(s) /\ DOMAIN Tail(s) = 1..Len(Tail(s))
  BY <1>1, LenProperties, EmptySeq
<1>3. 1 \in 1..Len(s) /\ \A i \in 1..Len(Tail(s)) : i + 1 \in 1..Len(s)
  BY <1>1, <1>2
<1> QED
  BY <1>1, <1>2, <1>3 DEF ToSet

LEMMA PushGrows ==
  ASSUME NEW box \in [Callers -> Seq(Answers)], NEW c \in Callers, NEW x \in Answers
  PROVE  /\ Push(box, c, x) \in [Callers -> Seq(Answers)]
         /\ ToSet(Push(box, c, x)[c]) = ToSet(box[c]) \cup {x}
         /\ \A d \in Callers \ {c} : Push(box, c, x)[d] = box[d]
<1>1. box[c] \in Seq(Answers)
  OBVIOUS
<1>2. Append(box[c], x) \in Seq(Answers) /\ ToSet(Append(box[c], x)) = ToSet(box[c]) \cup {x}
  BY <1>1, PushedElements
<1>3. /\ Push(box, c, x)[c] = Append(box[c], x)
      /\ \A d \in Callers \ {c} : Push(box, c, x)[d] = box[d]
  BY DEF Push
<1>4. Push(box, c, x) \in [Callers -> Seq(Answers)]
  BY <1>2 DEF Push
<1> QED
  BY <1>2, <1>3, <1>4

LEMMA PopShrinks ==
  ASSUME NEW box \in [Callers -> Seq(Answers)], NEW c \in Callers, box[c] # <<>>
  PROVE  /\ Pop(box, c) \in [Callers -> Seq(Answers)]
         /\ Head(box[c]) \in Answers /\ Head(box[c]) \in ToSet(box[c])
         /\ \A d \in Callers : ToSet(Pop(box, c)[d]) \subseteq ToSet(box[d])
         /\ \A d \in Callers \ {c} : Pop(box, c)[d] = box[d]
         /\ Pop(box, c)[c] = Tail(box[c])
<1>1. box[c] \in Seq(Answers)
  OBVIOUS
<1>2. /\ Tail(box[c]) \in Seq(Answers) /\ Head(box[c]) \in Answers
      /\ ToSet(Tail(box[c])) \subseteq ToSet(box[c]) /\ Head(box[c]) \in ToSet(box[c])
  BY <1>1, PoppedElements
<1>3. /\ Pop(box, c)[c] = Tail(box[c])
      /\ \A d \in Callers \ {c} : Pop(box, c)[d] = box[d]
  BY DEF Pop
<1>4. Pop(box, c) \in [Callers -> Seq(Answers)]
  BY <1>2 DEF Pop
<1>5. ASSUME NEW d \in Callers
      PROVE  ToSet(Pop(box, c)[d]) \subseteq ToSet(box[d])
  BY <1>2, <1>3
<1> QED
  BY <1>2, <1>3, <1>4, <1>5

LEMMA PipeTyped ==
  ASSUME NegotiationTypeOK, NEW c \in Callers
  PROVE  InPipe(c) \subseteq Answers
<1>1. hands[c] \in Seq(Answers) /\ queue[c] \in Seq(Answers) /\ down[c] \in Seq(Answers)
  BY DEF NegotiationTypeOK
<1>2. \A s \in Seq(Answers) : ToSet(s) \subseteq Answers
  BY LenProperties, ElementOfSeq DEF ToSet
<1> QED
  BY <1>1, <1>2 DEF InPipe

\* What is held are sessions, and no refusal.
LEMMA HeldMembers ==
  ASSUME NegotiationTypeOK, NEW c \in Callers
  PROVE  /\ client[c] # NoSession => client[c] \in Held(c)
         /\ server[c] # NoSession => server[c] \in Held(c)
         /\ \A a \in InPipe(c) : a.session # Refusal => a.session \in Held(c)
<1>1. /\ client[c] # NoSession => client[c] \in Sessions
      /\ server[c] # NoSession => server[c] \in Sessions
  BY DEF NegotiationTypeOK
<1>2. InPipe(c) \subseteq Answers
  BY PipeTyped
<1>3. Refusal \notin Sessions /\ NoSession \notin Sessions
  BY DEF Sessions, Ids
<1>4. \A a \in Answers : a.session \in Sessions \/ a.session = Refusal
  BY DEF Answers
<1> QED
  BY <1>1, <1>2, <1>3, <1>4 DEF Held

-----------------------------------------------------------------------------
(* What the parts of the invariant need of a step *)

\* Connections do not go back, nor change their ids.
LEMMA TableStepKeeps ==
  ASSUME TypeOK, [Next]_vars, NEW c \in Conns, phase[c] # "none"
  PROVE  phase'[c] # "none" /\ id'[c] = id[c]
<1>1. CASE UNCHANGED vars
  BY <1>1 DEF vars
<1>2. ASSUME NEW d \in Conns, Make(d)
      PROVE  phase'[c] # "none" /\ id'[c] = id[c]
  BY <1>2 DEF Make, To, TypeOK
<1>3. ASSUME NEW d \in Conns,
             \/ AddConnection(d) \/ AddBridge(d) \/ ServeReturns(d)
             \/ RemoveConnection(d) \/ RemoveBridge(d)
      PROVE  phase'[c] # "none" /\ id'[c] = id[c]
  BY <1>3 DEF AddConnection, AddBridge, ServeReturns, RemoveConnection, RemoveBridge, To, TypeOK
<1> QED
  BY <1>1, <1>2, <1>3 DEF Next

LEMMA HeldShrinks ==
  ASSUME NegotiationInv, [Next]_vars, UNCHANGED <<given, server>>,
         \A c \in Callers : Held(c)' \subseteq Held(c)
  PROVE  HeldAreGiven' /\ HeldApart'
<1>1. \A c \in Callers : phase[c] # "none" => phase'[c] # "none" /\ id'[c] = id[c]
  BY TableStepKeeps DEF NegotiationInv, NegotiationTypeOK
<1>2. \A c \in Callers : \A s \in Held(c)' : s \in Sessions /\ Given(c, s) /\ s[2] <= given
  BY DEF NegotiationInv, HeldAreGiven
<1>3. HeldAreGiven'
  BY <1>1, <1>2 DEF HeldAreGiven, Given
<1>4. HeldApart'
  BY DEF NegotiationInv, HeldApart
<1> QED
  BY <1>3, <1>4

\* On the way there is no new answer but refusals of turns there have been.
LEMMA LastTurnKept ==
  ASSUME NegotiationInv, UNCHANGED <<server, turn, accepts>>,
         \A c \in Callers : call'[c] = "accepted" => accepts[c] # 0,
         \A c \in Callers : \A a \in InPipe(c)' :
            a \in InPipe(c) \/ (a.session = Refusal /\ a.turn <= turn[c])
  PROVE  LastTurn'
BY DEF NegotiationInv, LastTurn

\* The pipe of a connection is what its three parts are.
LEMMA PipeUnchanged ==
  ASSUME UNCHANGED <<hands, queue, down>>
  PROVE  \A c \in Callers : InPipe(c)' = InPipe(c)
BY DEF InPipe

-----------------------------------------------------------------------------
(* The steps *)

LEMMA NegotiationInvInit == NegotiationInit => NegotiationInv
<1> SUFFICES ASSUME NegotiationInit PROVE NegotiationInv
  OBVIOUS
<1>1. \A c \in Callers : hands[c] = <<>> /\ queue[c] = <<>> /\ down[c] = <<>> /\ up[c] = <<>>
  BY DEF NegotiationInit, Nothing
<1>2. ToSet(<<>>) = {} /\ Len(<<>>) = 0
  BY EmptySeq DEF ToSet
<1>3. \A c \in Callers : InPipe(c) = {} /\ Held(c) = {}
  BY <1>1, <1>2 DEF InPipe, Held, NegotiationInit
<1>4. TypeOK
  BY TablesInit DEF NegotiationInit, TablesInv
<1>5. NegotiationTypeOK
  <2>1. /\ up \in [Callers -> Seq(Nat)] /\ hands \in [Callers -> Seq(Answers)]
        /\ queue \in [Callers -> Seq(Answers)] /\ down \in [Callers -> Seq(Answers)]
    BY EmptySeq DEF NegotiationInit, Nothing
  <2>2. /\ turn \in [Callers -> Nat] /\ copies \in [Callers -> Nat] /\ sends \in Nat
        /\ due \in [Callers -> SUBSET Nat]
        /\ given \in Nat /\ accepts \in [Callers -> Nat]
    BY DEF NegotiationInit
  <2>3. /\ call \in [Callers -> {"idle", "waiting", "accepted", "failed"}]
        /\ server \in [Callers -> Sessions \cup {NoSession}]
        /\ client \in [Callers -> Sessions \cup {NoSession}]
    BY DEF NegotiationInit
  <2> QED
    BY <1>4, <2>1, <2>2, <2>3 DEF NegotiationTypeOK
<1>6. HeldAreGiven /\ HeldApart
  BY <1>3 DEF HeldAreGiven, HeldApart
<1>7. SentInTurn
  BY <1>1, <1>2 DEF SentInTurn, NegotiationInit
<1>8. LastTurn /\ AgreeUnlessRepeated
  BY <1>3 DEF LastTurn, AgreeUnlessRepeated, NegotiationInit
<1> QED
  BY <1>5, <1>6, <1>7, <1>8 DEF NegotiationInv

LEMMA TableStep ==
  ASSUME NegotiationInv, TypeOK', [Next]_vars, UNCHANGED <<clientVars, serverVars, wireVars>>
  PROVE  NegotiationInv'
<1> USE DEF clientVars, serverVars, wireVars
<1>1. \A c \in Callers : InPipe(c)' = InPipe(c) /\ Held(c)' = Held(c)
  BY PipeUnchanged DEF Held
<1>2. NegotiationTypeOK'
  BY DEF NegotiationInv, NegotiationTypeOK
<1>3. HeldAreGiven' /\ HeldApart'
  BY <1>1, HeldShrinks
<1>4. SentInTurn' /\ LastTurn' /\ AgreeUnlessRepeated'
  BY <1>1 DEF NegotiationInv, SentInTurn, LastTurn, AgreeUnlessRepeated
<1> QED
  BY <1>2, <1>3, <1>4 DEF NegotiationInv

\* What is sent is put among what is on its way.
LEMMA Pushed ==
  ASSUME NegotiationInv, NEW c \in Callers, NEW t \in Nat, up' = Push(up, c, t)
  PROVE  /\ up' \in [Callers -> Seq(Nat)]
         /\ ToSet(up'[c]) = ToSet(up[c]) \cup {t}
         /\ \A d \in Callers \ {c} : up'[d] = up[d]
<1>1. up \in [Callers -> Seq(Nat)] /\ up[c] \in Seq(Nat)
  BY DEF NegotiationInv, NegotiationTypeOK
<1>2. Append(up[c], t) \in Seq(Nat) /\ ToSet(Append(up[c], t)) = ToSet(up[c]) \cup {t}
  BY <1>1, PushedElements
<1>3. up'[c] = Append(up[c], t) /\ \A d \in Callers \ {c} : up'[d] = up[d]
  BY <1>1 DEF Push
<1>4. up' \in [Callers -> Seq(Nat)]
  BY <1>1, <1>2 DEF Push
<1> QED
  BY <1>2, <1>3, <1>4

\* What is due and on its way is of calls there have been.
LEMMA TurnsTyped ==
  ASSUME NegotiationInv, NEW c \in Callers
  PROVE  /\ turn[c] \in Nat
         /\ \A t \in ToSet(up[c]) \cup due[c] : t \in Nat /\ t <= turn[c]
<1>1. turn[c] \in Nat /\ up[c] \in Seq(Nat) /\ due[c] \subseteq Nat
  BY DEF NegotiationInv, NegotiationTypeOK
<1>2. \A t \in ToSet(up[c]) : t \in Nat
  BY <1>1, LenProperties, ElementOfSeq DEF ToSet
<1> QED
  BY <1>1, <1>2 DEF NegotiationInv, SentInTurn

LEMMA CallStep ==
  ASSUME NegotiationInv, TypeOK', NEW c \in Callers, Call(c)
  PROVE  NegotiationInv'
<1>1. /\ turn' = [turn EXCEPT ![c] = @ + 1] /\ call' = [call EXCEPT ![c] = "waiting"]
      /\ accepts' = [accepts EXCEPT ![c] = 0] /\ copies' = [copies EXCEPT ![c] = 1]
      /\ sends' = sends + 1 /\ up' = Push(up, c, turn'[c])
      /\ UNCHANGED <<vars, due, client, hands, queue, given, server, down>>
  BY DEF Call, tableVars, vars
<1>2. /\ turn' \in [Callers -> Nat] /\ turn'[c] = turn[c] + 1 /\ turn[c] \in Nat
      /\ \A d \in Callers \ {c} : turn'[d] = turn[d] /\ accepts'[d] = accepts[d]
      /\ accepts' \in [Callers -> Nat] /\ accepts'[c] = 0
  BY <1>1 DEF NegotiationInv, NegotiationTypeOK
<1>3. SentInTurn' /\ up' \in [Callers -> Seq(Nat)]
  <2>1. turn'[c] \in Nat
    BY <1>2
  <2>2. /\ up' \in [Callers -> Seq(Nat)]
        /\ ToSet(up'[c]) = ToSet(up[c]) \cup {turn'[c]}
        /\ \A d \in Callers \ {c} : up'[d] = up[d]
    BY <1>1, <2>1, Pushed
  <2>3. \A t \in ToSet(up'[c]) \cup due[c] : t <= turn'[c]
    <3>1. \A t \in ToSet(up[c]) \cup due[c] : t \in Nat /\ t <= turn[c]
      BY TurnsTyped
    <3>2. \A t \in ToSet(up[c]) \cup due[c] : t <= turn'[c]
      BY <1>2, <3>1
    <3> QED
      BY <2>1, <2>2, <3>2
  <2>4. \A d \in Callers \ {c} : \A t \in ToSet(up'[d]) \cup due[d] : t <= turn'[d]
    BY <1>2, <2>2 DEF NegotiationInv, SentInTurn
  <2> QED
    BY <1>1, <2>2, <2>3, <2>4 DEF SentInTurn
<1>4. /\ call' \in [Callers -> {"idle", "waiting", "accepted", "failed"}]
      /\ call'[c] = "waiting" /\ \A d \in Callers \ {c} : call'[d] = call[d]
      /\ copies' \in [Callers -> Nat] /\ sends' \in Nat
  BY <1>1 DEF NegotiationInv, NegotiationTypeOK
<1>5. NegotiationTypeOK'
  BY <1>1, <1>2, <1>3, <1>4 DEF NegotiationInv, NegotiationTypeOK
<1>6. \A d \in Callers : InPipe(d)' = InPipe(d) /\ Held(d)' = Held(d)
  BY <1>1, PipeUnchanged DEF Held
<1>7. HeldAreGiven' /\ HeldApart'
  BY <1>1, <1>6, HeldShrinks
<1>8. LastTurn'
  <2>1. \A a \in InPipe(c) : a.turn <= turn[c] /\ a.turn \in Nat
    <3>1. InPipe(c) \subseteq Answers
      BY PipeTyped DEF NegotiationInv
    <3> QED
      BY <3>1 DEF NegotiationInv, LastTurn, Answers
  <2>2. \A a \in InPipe(c) : a.turn <= turn'[c] /\ a.turn # turn'[c]
    BY <1>2, <2>1
  <2>3. \A d \in Callers \ {c} :
          InPipe(d)' = InPipe(d) /\ turn'[d] = turn[d] /\ accepts'[d] = accepts[d]
          /\ call'[d] = call[d] /\ server'[d] = server[d]
    BY <1>1, <1>2, <1>4, <1>6
  <2> SUFFICES ASSUME NEW d \in Callers
               PROVE  /\ call'[d] = "accepted" => accepts'[d] # 0
                      /\ \A a \in InPipe(d)' :
                           /\ a.turn <= turn'[d]
                           /\ a.turn = turn'[d] /\ a.session # Refusal =>
                                /\ accepts'[d] # 0
                                /\ accepts'[d] = 1 => a.session = server'[d]
    BY DEF LastTurn
  <2>4. CASE d = c
    BY <1>4, <1>6, <2>2, <2>4
  <2>5. CASE d # c
    BY <2>3, <2>5 DEF NegotiationInv, LastTurn
  <2> QED
    BY <2>4, <2>5
<1>9. AgreeUnlessRepeated'
  BY <1>1, <1>2, <1>4 DEF NegotiationInv, AgreeUnlessRepeated
<1> QED
  BY <1>3, <1>5, <1>7, <1>8, <1>9 DEF NegotiationInv

LEMMA TimerExpiresStep ==
  ASSUME NegotiationInv, TypeOK', NEW c \in Callers, TimerExpires(c)
  PROVE  NegotiationInv'
<1>1. /\ copies' = [copies EXCEPT ![c] = @ + 1] /\ sends' = sends + 1
      /\ due' = [due EXCEPT ![c] = @ \cup {turn[c]}]
      /\ UNCHANGED <<vars, call, turn, client, hands, queue, given, server, accepts, up, down>>
  BY DEF TimerExpires, tableVars, vars, serverVars, wireVars
<1>2. turn[c] \in Nat /\ due \in [Callers -> SUBSET Nat]
  BY DEF NegotiationInv, NegotiationTypeOK
<1>3. /\ due' \in [Callers -> SUBSET Nat] /\ due'[c] = due[c] \cup {turn[c]}
      /\ \A d \in Callers \ {c} : due'[d] = due[d]
  BY <1>1, <1>2
<1>4. SentInTurn'
  BY <1>1, <1>2, <1>3 DEF NegotiationInv, SentInTurn
<1>5. copies' \in [Callers -> Nat] /\ sends' \in Nat
  BY <1>1 DEF NegotiationInv, NegotiationTypeOK
<1>6. NegotiationTypeOK'
  BY <1>1, <1>3, <1>5 DEF NegotiationInv, NegotiationTypeOK
<1>7. \A d \in Callers : InPipe(d)' = InPipe(d) /\ Held(d)' = Held(d)
  BY <1>1, PipeUnchanged DEF Held
<1>8. HeldAreGiven' /\ HeldApart'
  BY <1>1, <1>7, HeldShrinks
<1>9. LastTurn' /\ AgreeUnlessRepeated'
  BY <1>1, <1>7 DEF NegotiationInv, LastTurn, AgreeUnlessRepeated
<1> QED
  BY <1>4, <1>6, <1>8, <1>9 DEF NegotiationInv

LEMMA ResendStep ==
  ASSUME NegotiationInv, TypeOK', NEW c \in Callers, Resend(c)
  PROVE  NegotiationInv'
<1>1. PICK t \in due[c] :
        /\ due' = [due EXCEPT ![c] = @ \ {t}] /\ up' = Push(up, c, t)
        /\ UNCHANGED <<vars, call, turn, copies, sends, client, hands, queue, given, server,
                       accepts, down>>
  BY DEF Resend, tableVars, vars, serverVars
<1>2. t \in Nat /\ t <= turn[c]
  BY TurnsTyped
<1>3. /\ up' \in [Callers -> Seq(Nat)] /\ ToSet(up'[c]) = ToSet(up[c]) \cup {t}
      /\ \A d \in Callers \ {c} : up'[d] = up[d]
  BY <1>1, <1>2, Pushed
<1>4. due' \in [Callers -> SUBSET Nat] /\ \A d \in Callers : due'[d] \subseteq due[d]
  BY <1>1 DEF NegotiationInv, NegotiationTypeOK
<1>5. SentInTurn'
  BY <1>1, <1>2, <1>3, <1>4 DEF NegotiationInv, SentInTurn
<1>6. NegotiationTypeOK'
  BY <1>1, <1>3, <1>4 DEF NegotiationInv, NegotiationTypeOK
<1>7. \A d \in Callers : InPipe(d)' = InPipe(d) /\ Held(d)' = Held(d)
  BY <1>1, PipeUnchanged DEF Held
<1>8. HeldAreGiven' /\ HeldApart'
  BY <1>1, <1>7, HeldShrinks
<1>9. LastTurn' /\ AgreeUnlessRepeated'
  BY <1>1, <1>7 DEF NegotiationInv, LastTurn, AgreeUnlessRepeated
<1> QED
  BY <1>5, <1>6, <1>8, <1>9 DEF NegotiationInv

\* The call fails, with the copy that was due or without.
LEMMA GiveUpStep ==
  ASSUME NegotiationInv, TypeOK', NEW c \in Callers, GiveUp(c) \/ ResendFails(c)
  PROVE  NegotiationInv'
<1>1. /\ call' = [call EXCEPT ![c] = "failed"]
      /\ due' = due \/ due' = [due EXCEPT ![c] = @ \ {turn[c]}]
      /\ UNCHANGED <<vars, turn, copies, sends, client, hands, queue, given, server,
                     accepts, up, down>>
  BY DEF GiveUp, ResendFails, tableVars, vars, serverVars, wireVars
<1>2. /\ call' \in [Callers -> {"idle", "waiting", "accepted", "failed"}]
      /\ \A d \in Callers : call'[d] = "accepted" => call[d] = "accepted"
  BY <1>1 DEF NegotiationInv, NegotiationTypeOK
<1>3. due' \in [Callers -> SUBSET Nat] /\ \A d \in Callers : due'[d] \subseteq due[d]
  <2>1. due \in [Callers -> SUBSET Nat]
    BY DEF NegotiationInv, NegotiationTypeOK
  <2>2. CASE due' = due
    BY <2>1, <2>2
  <2>3. CASE due' = [due EXCEPT ![c] = @ \ {turn[c]}]
    BY <2>1, <2>3
  <2> QED
    BY <1>1, <2>2, <2>3
<1>4. NegotiationTypeOK'
  BY <1>1, <1>2, <1>3 DEF NegotiationInv, NegotiationTypeOK
<1>5. \A d \in Callers : InPipe(d)' = InPipe(d) /\ Held(d)' = Held(d)
  BY <1>1, PipeUnchanged DEF Held
<1>6. HeldAreGiven' /\ HeldApart'
  BY <1>1, <1>5, HeldShrinks
<1>7. SentInTurn' /\ LastTurn' /\ AgreeUnlessRepeated'
  BY <1>1, <1>2, <1>5, <1>3 DEF NegotiationInv, SentInTurn, LastTurn, AgreeUnlessRepeated
<1> QED
  BY <1>4, <1>6, <1>7 DEF NegotiationInv

LEMMA ReceiveStep ==
  ASSUME NegotiationInv, TypeOK', NEW c \in Callers, Receive(c)
  PROVE  NegotiationInv'
<1>1. /\ down[c] # <<>> /\ down' = Pop(down, c)
      /\ UNCHANGED <<vars, turn, copies, sends, due, hands, queue, given, server, accepts, up>>
  BY DEF Receive, tableVars, vars, serverVars
<1>2. /\ down' \in [Callers -> Seq(Answers)]
      /\ Head(down[c]) \in InPipe(c)
      /\ \A d \in Callers : InPipe(d)' \subseteq InPipe(d)
  <2>1. down \in [Callers -> Seq(Answers)]
    BY DEF NegotiationInv, NegotiationTypeOK
  <2> QED
    BY <1>1, <2>1, PopShrinks DEF InPipe
<1>3. /\ call' \in [Callers -> {"idle", "waiting", "accepted", "failed"}]
      /\ client' \in [Callers -> Sessions \cup {NoSession}]
      /\ \A d \in Callers \ {c} : call'[d] = call[d] /\ client'[d] = client[d]
      /\ \/ call'[c] = call[c] /\ client'[c] = client[c]
         \/ call'[c] = "failed" /\ client'[c] = client[c]
         \/ /\ call'[c] = "accepted" /\ client'[c] = Head(down[c]).session
            /\ Head(down[c]).session # Refusal /\ Head(down[c]).turn = turn[c]
  <2>1. /\ call \in [Callers -> {"idle", "waiting", "accepted", "failed"}]
        /\ client \in [Callers -> Sessions \cup {NoSession}]
    BY DEF NegotiationInv, NegotiationTypeOK
  <2>2. Head(down[c]) \in Answers
    BY <1>2, PipeTyped DEF NegotiationInv
  <2>3. CASE UNCHANGED <<call, client>>
    BY <2>1, <2>3
  <2>4. CASE /\ Head(down[c]).turn = turn[c] /\ Head(down[c]).session = Refusal
             /\ call' = [call EXCEPT ![c] = "failed"] /\ UNCHANGED client
    BY <2>1, <2>4
  <2>5. CASE /\ Head(down[c]).turn = turn[c] /\ Head(down[c]).session # Refusal
             /\ call' = [call EXCEPT ![c] = "accepted"]
             /\ client' = [client EXCEPT ![c] = Head(down[c]).session]
    <3>1. Head(down[c]).session \in Sessions
      BY <2>2, <2>5 DEF Answers
    <3> QED
      BY <2>1, <2>5, <3>1
  <2> QED
    BY <2>3, <2>4, <2>5 DEF Receive, TakeAnswer
<1>4. NegotiationTypeOK'
  BY <1>1, <1>2, <1>3 DEF NegotiationInv, NegotiationTypeOK
<1>5. \A d \in Callers : Held(d)' \subseteq Held(d)
  <2>1. ASSUME NEW d \in Callers \ {c}
        PROVE  Held(d)' \subseteq Held(d)
    BY <1>1, <1>2, <1>3 DEF Held
  <2>2. client'[c] = client[c] \/ client'[c] = Head(down[c]).session
    BY <1>3
  <2>3. Held(c)' \subseteq Held(c)
    BY <1>1, <1>2, <2>2 DEF Held
  <2> QED
    BY <2>1, <2>3
<1>6. HeldAreGiven' /\ HeldApart'
  BY <1>1, <1>5, HeldShrinks
<1>7. SentInTurn'
  BY <1>1 DEF NegotiationInv, SentInTurn
<1>8. \A d \in Callers : call'[d] = "accepted" => accepts[d] # 0
  BY <1>2, <1>3 DEF NegotiationInv, LastTurn
<1>9. LastTurn'
  BY <1>1, <1>2, <1>8, LastTurnKept
<1>10. AgreeUnlessRepeated'
  BY <1>1, <1>2, <1>3 DEF NegotiationInv, LastTurn, AgreeUnlessRepeated
<1> QED
  BY <1>4, <1>6, <1>7, <1>9, <1>10 DEF NegotiationInv

\* The read loop takes the first of the requests on their way.
LEMMA TakenInTurn ==
  ASSUME NegotiationInv, NEW c \in Callers, up[c] # <<>>, up' = Pop(up, c),
         UNCHANGED <<turn, due>>
  PROVE  /\ SentInTurn' /\ up' \in [Callers -> Seq(Nat)]
         /\ Head(up[c]) \in Nat /\ Head(up[c]) <= turn[c]
<1>1. up \in [Callers -> Seq(Nat)] /\ up[c] \in Seq(Nat)
  BY DEF NegotiationInv, NegotiationTypeOK
<1>2. /\ up' \in [Callers -> Seq(Nat)] /\ up'[c] = Tail(up[c])
      /\ \A d \in Callers \ {c} : up'[d] = up[d]
      /\ Head(up[c]) \in Nat /\ Head(up[c]) \in ToSet(up[c])
      /\ ToSet(Tail(up[c])) \subseteq ToSet(up[c])
  <2>1. /\ Pop(up, c) \in [Callers -> Seq(Nat)] /\ Pop(up, c)[c] = Tail(up[c])
        /\ \A d \in Callers \ {c} : Pop(up, c)[d] = up[d]
        /\ Head(up[c]) \in Nat /\ Head(up[c]) \in ToSet(up[c])
        /\ ToSet(Tail(up[c])) \subseteq ToSet(up[c])
    BY <1>1, PoppedElements DEF Pop
  <2> QED
    BY <1>1, <2>1
<1>3. \A d \in Callers : ToSet(up'[d]) \subseteq ToSet(up[d])
  BY <1>2
<1> QED
  BY <1>2, <1>3 DEF NegotiationInv, SentInTurn

LEMMA AcceptStep ==
  ASSUME NegotiationInv, TypeOK', NEW c \in Callers, Accept(c)
  PROVE  NegotiationInv'
<1> DEFINE session == <<id[c], given + 1>>
           answer == [turn |-> Head(up[c]), session |-> session]
<1>1. /\ phase[c] # "none" /\ up[c] # <<>> /\ up' = Pop(up, c) /\ given' = given + 1
      /\ server' = [server EXCEPT ![c] = session] /\ hands' = Push(hands, c, answer)
      /\ accepts' = [accepts EXCEPT ![c] = @ + 1]
      /\ UNCHANGED <<vars, call, turn, copies, sends, due, client, queue, down>>
  BY DEF Accept, Handling, tableVars, vars, clientVars
<1>2. /\ accepts' \in [Callers -> Nat] /\ accepts[c] \in Nat
      /\ \A d \in Callers \ {c} : accepts'[d] = accepts[d]
      /\ accepts'[c] = accepts[c] + 1
  BY <1>1 DEF NegotiationInv, NegotiationTypeOK
<1>3. /\ SentInTurn' /\ up' \in [Callers -> Seq(Nat)]
      /\ Head(up[c]) \in Nat /\ Head(up[c]) <= turn[c]
  BY <1>1, TakenInTurn
<1>4. session \in Sessions /\ session # NoSession /\ session # Refusal
      /\ session[1] = id[c] /\ session[2] = given + 1 /\ given \in Nat
  <2>1. id[c] \in Ids /\ given \in Nat
    BY DEF NegotiationInv, NegotiationTypeOK, TypeOK
  <2> QED
    BY <2>1 DEF Sessions, Ids
<1>5. answer \in Answers /\ answer.turn = Head(up[c]) /\ answer.session = session
  BY <1>3, <1>4 DEF Answers
<1> HIDE DEF session, answer
<1>6. /\ hands' \in [Callers -> Seq(Answers)]
      /\ ToSet(hands'[c]) = ToSet(hands[c]) \cup {answer}
      /\ \A d \in Callers \ {c} : hands'[d] = hands[d]
  <2>1. hands \in [Callers -> Seq(Answers)]
    BY DEF NegotiationInv, NegotiationTypeOK
  <2>2. /\ Push(hands, c, answer) \in [Callers -> Seq(Answers)]
        /\ ToSet(Push(hands, c, answer)[c]) = ToSet(hands[c]) \cup {answer}
        /\ \A d \in Callers \ {c} : Push(hands, c, answer)[d] = hands[d]
    BY <1>5, <2>1, PushGrows
  <2> QED
    BY <1>1, <2>2
<1>7. /\ InPipe(c)' = InPipe(c) \cup {answer}
      /\ \A d \in Callers \ {c} : InPipe(d)' = InPipe(d)
  BY <1>1, <1>6 DEF InPipe
<1>8. /\ server' \in [Callers -> Sessions \cup {NoSession}] /\ server'[c] = session
      /\ \A d \in Callers \ {c} : server'[d] = server[d]
  BY <1>1, <1>4 DEF NegotiationInv, NegotiationTypeOK
<1>9. NegotiationTypeOK'
  <2>1. given' \in Nat
    BY <1>1, <1>4
  <2> QED
    BY <1>1, <1>2, <1>3, <1>6, <1>8, <2>1 DEF NegotiationInv, NegotiationTypeOK
<1>10. /\ Held(c)' \subseteq Held(c) \cup {session}
       /\ \A d \in Callers \ {c} : Held(d)' = Held(d)
  BY <1>1, <1>5, <1>7, <1>8 DEF Held
<1>11. \A d \in Callers : \A s \in Held(d) :
          s \in Sessions /\ s[2] \in Nat /\ s[2] <= given /\ s # session
  <2>1. ASSUME NEW s \in Sessions
        PROVE  s[2] \in Nat
    BY <2>1 DEF Sessions
  <2> QED
    BY <1>4, <2>1 DEF NegotiationInv, HeldAreGiven
<1>12. HeldApart'
  BY <1>10, <1>11 DEF NegotiationInv, HeldApart
<1>13. HeldAreGiven'
  <2> SUFFICES ASSUME NEW d \in Callers, NEW s \in Held(d)'
               PROVE  s \in Sessions /\ Given(d, s)' /\ s[2] <= given'
    BY DEF HeldAreGiven
  <2>1. CASE d # c
    <3>1. s \in Held(d) /\ Given(d, s)
      BY <1>10, <2>1 DEF NegotiationInv, HeldAreGiven
    <3> QED
      BY <1>1, <1>4, <1>8, <1>11, <2>1, <3>1 DEF Given, vars
  <2>2. CASE d = c /\ s = session
    BY <1>1, <1>4, <1>8, <2>2 DEF Given, vars
  <2>3. CASE d = c /\ s \in Held(c)
    <3>1. s[1] = id[c]
      BY <2>3 DEF NegotiationInv, HeldAreGiven, Given
    <3> QED
      BY <1>1, <1>4, <1>8, <1>11, <2>3, <3>1 DEF Given, vars
  <2> QED
    BY <1>10, <2>1, <2>2, <2>3
<1>14. accepts'[c] # 0 /\ (accepts[c] # 0 => accepts'[c] # 1)
  BY <1>2
<1>15. LastTurn'
  <2> SUFFICES ASSUME NEW d \in Callers
               PROVE  /\ call'[d] = "accepted" => accepts'[d] # 0
                      /\ \A a \in InPipe(d)' :
                           /\ a.turn <= turn'[d]
                           /\ a.turn = turn'[d] /\ a.session # Refusal =>
                                /\ accepts'[d] # 0
                                /\ accepts'[d] = 1 => a.session = server'[d]
    BY DEF LastTurn
  <2>1. CASE d # c
    BY <1>1, <1>2, <1>7, <1>8, <2>1 DEF NegotiationInv, LastTurn
  <2>2. CASE d = c
    <3>1. call'[c] = "accepted" => accepts'[c] # 0
      BY <1>1, <1>14 DEF NegotiationInv, LastTurn
    <3>2. ASSUME NEW a \in InPipe(c)
          PROVE  /\ a.turn <= turn'[c]
                 /\ a.turn = turn'[c] /\ a.session # Refusal =>
                      accepts'[c] # 0 /\ accepts'[c] # 1
      BY <1>1, <1>14 DEF NegotiationInv, LastTurn
    <3>3. /\ answer.turn <= turn'[c]
          /\ accepts'[c] # 0
          /\ answer.session = server'[c]
      BY <1>1, <1>3, <1>5, <1>8, <1>14
    <3> QED
      BY <1>7, <2>2, <3>1, <3>2, <3>3
  <2> QED
    BY <2>1, <2>2
<1>16. AgreeUnlessRepeated'
  <2>1. call[c] = "accepted" => accepts'[c] # 1
    BY <1>14 DEF NegotiationInv, LastTurn
  <2> QED
    BY <1>1, <1>2, <1>8, <2>1 DEF NegotiationInv, AgreeUnlessRepeated
<1> QED
  BY <1>3, <1>9, <1>12, <1>13, <1>15, <1>16 DEF NegotiationInv

LEMMA RejectStep ==
  ASSUME NegotiationInv, TypeOK', NEW c \in Callers, Reject(c)
  PROVE  NegotiationInv'
<1> DEFINE answer == [turn |-> Head(up[c]), session |-> Refusal]
<1>1. /\ up[c] # <<>> /\ up' = Pop(up, c) /\ hands' = Push(hands, c, answer)
      /\ UNCHANGED <<vars, call, turn, copies, sends, due, client, queue, given, server,
                     accepts, down>>
  BY DEF Reject, Handling, tableVars, vars, clientVars
<1>2. /\ SentInTurn' /\ up' \in [Callers -> Seq(Nat)]
      /\ Head(up[c]) \in Nat /\ Head(up[c]) <= turn[c]
  BY <1>1, TakenInTurn
<1>3. answer \in Answers /\ answer.session = Refusal /\ answer.turn <= turn[c]
  BY <1>2 DEF Answers
<1> HIDE DEF answer
<1>4. /\ hands' \in [Callers -> Seq(Answers)]
      /\ ToSet(hands'[c]) = ToSet(hands[c]) \cup {answer}
      /\ \A d \in Callers \ {c} : hands'[d] = hands[d]
  <2>1. hands \in [Callers -> Seq(Answers)]
    BY DEF NegotiationInv, NegotiationTypeOK
  <2>2. /\ Push(hands, c, answer) \in [Callers -> Seq(Answers)]
        /\ ToSet(Push(hands, c, answer)[c]) = ToSet(hands[c]) \cup {answer}
        /\ \A d \in Callers \ {c} : Push(hands, c, answer)[d] = hands[d]
    <3>1. answer \in Answers
      BY <1>3
    <3> QED
      BY <2>1, <3>1, PushGrows
  <2> QED
    BY <1>1, <2>2
<1>5. /\ InPipe(c)' = InPipe(c) \cup {answer}
      /\ \A d \in Callers \ {c} : InPipe(d)' = InPipe(d)
  BY <1>1, <1>4 DEF InPipe
<1>6. NegotiationTypeOK'
  BY <1>1, <1>2, <1>4 DEF NegotiationInv, NegotiationTypeOK
<1>7. \A d \in Callers : Held(d)' \subseteq Held(d)
  BY <1>1, <1>3, <1>5 DEF Held
<1>8. HeldAreGiven' /\ HeldApart'
  BY <1>1, <1>7, HeldShrinks
<1>9. \A d \in Callers : \A a \in InPipe(d)' :
        a \in InPipe(d) \/ (a.session = Refusal /\ a.turn <= turn[d])
  BY <1>3, <1>5
<1>10. \A d \in Callers : call'[d] = "accepted" => accepts[d] # 0
  BY <1>1 DEF NegotiationInv, LastTurn
<1>11. LastTurn'
  BY <1>1, <1>9, <1>10, LastTurnKept
<1>12. AgreeUnlessRepeated'
  BY <1>1 DEF NegotiationInv, AgreeUnlessRepeated
<1> QED
  BY <1>2, <1>6, <1>8, <1>11, <1>12 DEF NegotiationInv

\* The first of one box goes to the end of another.
LEMMA Moved ==
  ASSUME NEW box \in [Callers -> Seq(Answers)], NEW other \in [Callers -> Seq(Answers)],
         NEW c \in Callers, box[c] # <<>>
  PROVE  /\ Pop(box, c) \in [Callers -> Seq(Answers)]
         /\ Push(other, c, Head(box[c])) \in [Callers -> Seq(Answers)]
         /\ \A d \in Callers : ToSet(Pop(box, c)[d]) \subseteq ToSet(box[d])
         /\ \A d \in Callers :
              ToSet(Push(other, c, Head(box[c]))[d]) \subseteq ToSet(other[d]) \cup ToSet(box[d])
<1>1. /\ Pop(box, c) \in [Callers -> Seq(Answers)]
      /\ Head(box[c]) \in Answers /\ Head(box[c]) \in ToSet(box[c])
      /\ \A d \in Callers : ToSet(Pop(box, c)[d]) \subseteq ToSet(box[d])
  BY PopShrinks
<1>2. /\ Push(other, c, Head(box[c])) \in [Callers -> Seq(Answers)]
      /\ ToSet(Push(other, c, Head(box[c]))[c]) = ToSet(other[c]) \cup {Head(box[c])}
      /\ \A d \in Callers \ {c} : Push(other, c, Head(box[c]))[d] = other[d]
  <2> DEFINE x == Head(box[c])
  <2>1. x \in Answers
    BY <1>1
  <2> HIDE DEF x
  <2>2. /\ Push(other, c, x) \in [Callers -> Seq(Answers)]
        /\ ToSet(Push(other, c, x)[c]) = ToSet(other[c]) \cup {x}
        /\ \A d \in Callers \ {c} : Push(other, c, x)[d] = other[d]
    BY <2>1, PushGrows
  <2> QED
    BY <2>2 DEF x
<1> DEFINE h == Head(box[c])
           pushed == Push(other, c, h)
<1>3. ASSUME NEW d \in Callers PROVE ToSet(pushed[d]) \subseteq ToSet(other[d]) \cup ToSet(box[d])
  <2>1. /\ h \in ToSet(box[c]) /\ ToSet(pushed[c]) = ToSet(other[c]) \cup {h}
        /\ \A e \in Callers \ {c} : pushed[e] = other[e]
    BY <1>1, <1>2
  <2> HIDE DEF h, pushed
  <2>2. CASE d = c
    BY <2>1, <2>2
  <2>3. CASE d # c
    BY <2>1, <2>3
  <2> QED
    BY <2>2, <2>3
<1> QED
  BY <1>1, <1>2, <1>3

\* Answers move on, or are dropped.
LEMMA MoveStep ==
  ASSUME NegotiationInv, TypeOK', NEW c \in Callers,
         Respond(c) \/ RespondError(c) \/ WriteAnswer(c)
  PROVE  NegotiationInv'
<1>1. UNCHANGED <<vars, call, turn, copies, sends, due, client, given, server, accepts, up>>
  BY DEF Respond, RespondError, WriteAnswer, tableVars, vars, clientVars, wireVars
<1>2. /\ hands \in [Callers -> Seq(Answers)] /\ queue \in [Callers -> Seq(Answers)]
      /\ down \in [Callers -> Seq(Answers)]
  BY DEF NegotiationInv, NegotiationTypeOK
<1>3. /\ hands' \in [Callers -> Seq(Answers)] /\ queue' \in [Callers -> Seq(Answers)]
      /\ down' \in [Callers -> Seq(Answers)]
      /\ \A d \in Callers : InPipe(d)' \subseteq InPipe(d)
  <2>1. CASE Respond(c)
    <3>1. hands[c] # <<>> /\ hands' = Pop(hands, c) /\ UNCHANGED down
          /\ (queue' = Push(queue, c, Head(hands[c])) \/ UNCHANGED queue)
      BY <2>1 DEF Respond, wireVars
    <3>2. /\ Pop(hands, c) \in [Callers -> Seq(Answers)]
          /\ Push(queue, c, Head(hands[c])) \in [Callers -> Seq(Answers)]
          /\ \A d \in Callers : ToSet(Pop(hands, c)[d]) \subseteq ToSet(hands[d])
          /\ \A d \in Callers : ToSet(Push(queue, c, Head(hands[c]))[d])
                                \subseteq ToSet(queue[d]) \cup ToSet(hands[d])
      BY <1>2, <3>1, Moved
    <3> QED
      BY <1>2, <3>1, <3>2 DEF InPipe
  <2>2. CASE RespondError(c)
    <3>1. hands[c] # <<>> /\ hands' = Pop(hands, c) /\ UNCHANGED queue
          /\ down' = Push(down, c, Head(hands[c]))
      BY <2>2 DEF RespondError
    <3> QED
      BY <1>2, <3>1, Moved DEF InPipe
  <2>3. CASE WriteAnswer(c)
    <3>1. queue[c] # <<>> /\ queue' = Pop(queue, c) /\ UNCHANGED hands
          /\ down' = Push(down, c, Head(queue[c]))
      BY <2>3 DEF WriteAnswer
    <3> QED
      BY <1>2, <3>1, Moved DEF InPipe
  <2> QED
    BY <2>1, <2>2, <2>3
<1>4. NegotiationTypeOK'
  BY <1>1, <1>3 DEF NegotiationInv, NegotiationTypeOK
<1>5. \A d \in Callers : Held(d)' \subseteq Held(d)
  BY <1>1, <1>3 DEF Held
<1>6. HeldAreGiven' /\ HeldApart'
  BY <1>1, <1>5, HeldShrinks
<1>7. \A d \in Callers : call'[d] = "accepted" => accepts[d] # 0
  BY <1>1 DEF NegotiationInv, LastTurn
<1>8. LastTurn'
  BY <1>1, <1>3, <1>7, LastTurnKept
<1>9. SentInTurn' /\ AgreeUnlessRepeated'
  BY <1>1 DEF NegotiationInv, SentInTurn, AgreeUnlessRepeated
<1> QED
  BY <1>4, <1>6, <1>8, <1>9 DEF NegotiationInv

-----------------------------------------------------------------------------
(* The theorems *)

\* What copies, late answers and refusals leave of the order of negotiations on
\* every connection (Negotiate and NegotiatePayloadHandler.Handle).
THEOREM NegotiationInvariant == NegotiationSpec => []NegotiationInv
<1>1. TypeOK' /\ NegotiationInv /\ [NegotiationNext]_allVars => NegotiationInv'
  <2> SUFFICES ASSUME TypeOK', NegotiationInv, [NegotiationNext]_allVars
               PROVE  NegotiationInv'
    OBVIOUS
  <2>1. [Next]_vars
    BY NegotiationStepIsTableStep
  <2>2. CASE UNCHANGED <<clientVars, serverVars, wireVars>>
    BY <2>1, <2>2, TableStep
  <2>3. ASSUME NEW c \in Callers, ClientStep(c) \/ ServerStep(c)
        PROVE  NegotiationInv'
    BY <2>3, CallStep, TimerExpiresStep, ResendStep, GiveUpStep, ReceiveStep, AcceptStep,
       RejectStep, MoveStep
       DEF ClientStep, ServerStep
  <2> QED
    BY <2>2, <2>3 DEF NegotiationNext, allVars
<1>2. TablesInv => TypeOK
  BY DEF TablesInv
<1> QED
  BY <1>1, <1>2, NegotiationInvInit, NegotiationImplementsTables, TablesInvariant, PTL
     DEF NegotiationSpec

\* No two connections share a session, although those of NewConn share the id
\* that sessions are named after (generateSessionID).
THEOREM SessionsAreDistinct == NegotiationSpec => []SessionsDistinct
<1>1. NegotiationInv => SessionsDistinct
  <2> SUFFICES ASSUME NegotiationInv, NEW c \in Callers, NEW d \in Callers, c # d,
                      NEW s \in {client[c], server[c]} \ {NoSession},
                      s \in {client[d], server[d]}
               PROVE  FALSE
    BY DEF SessionsDistinct
  <2>1. s \in Held(c) /\ s \in Held(d)
    BY HeldMembers DEF NegotiationInv
  <2> QED
    BY <2>1 DEF NegotiationInv, HeldApart
<1> QED
  BY <1>1, NegotiationInvariant, PTL

\* What a client thinks it has negotiated its server has set on the connection
\* before, and replaced at most by a later one.
THEOREM ServerHasItFirst == NegotiationSpec => []ServerKnowsFirst
<1>1. NegotiationInv => ServerKnowsFirst
  <2> SUFFICES ASSUME NegotiationInv, NEW c \in Callers, client[c] # NoSession
               PROVE  /\ server[c] # NoSession
                      /\ client[c][1] = server[c][1] /\ client[c][2] <= server[c][2]
    BY DEF ServerKnowsFirst
  <2>1. Given(c, client[c]) /\ server[c] # NoSession
    BY HeldMembers DEF NegotiationInv, HeldAreGiven, Given
  <2>2. Given(c, server[c])
    BY <2>1, HeldMembers DEF NegotiationInv, HeldAreGiven
  <2> QED
    BY <2>1, <2>2 DEF Given
<1> QED
  BY <1>1, NegotiationInvariant, PTL

\* A negotiation during and after which the server accepted one copy only, of
\* whichever call, leaves client and server with the same session, whatever
\* answers come late.
THEOREM OnceAcceptedAgree == NegotiationSpec => []AgreeUnlessRepeated
<1>1. NegotiationInv => AgreeUnlessRepeated
  BY DEF NegotiationInv
<1> QED
  BY <1>1, NegotiationInvariant, PTL
=============================================================================
