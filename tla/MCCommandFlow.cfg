SPECIFICATION FairSpec
CONSTANTS
  MaxCommands = 3
  MaxConns = 2
  MaxActivities = 2
  MaxBacklog = 1
  MaxFlight = 1
INVARIANTS
  TypeOK
  ExecutedInOrder
  AnswersTrue
  NothingForgotten
PROPERTIES
  ImplementsLife
  Reachable
  AnsweredWhileUp
CHECK_DEADLOCK FALSE
