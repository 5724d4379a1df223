SPECIFICATION FairSpec
CONSTANTS
  MaxFrames = 2
  MaxPushes = 1
  Capacity = 2
INVARIANTS AnswersInTurn AnsweredOnce NoAnswerVanishes
PROPERTIES NoHandlerOnceClosed ServeEnds AllAnswered ImplementsReplies
\* a bridge that has ended stops
CHECK_DEADLOCK FALSE
