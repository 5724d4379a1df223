SPECIFICATION NegotiationSpec
CONSTANTS
  Conns = {c1, c2, c3}
  Fresh = {c1}
  NoConn = NoConn
  Callers = {c2, c3}
  NoSession = NoSession
  Refusal = Refusal
  MaxCopies = 2
  MaxSends = 3
INVARIANTS FoundOrTakenOver SessionsDistinct ServerKnowsFirst AgreeUnlessRepeated
\* Everybody may be done.
CHECK_DEADLOCK FALSE
