CONSTANTS
  Clients = {c1, c2}
  MAX_CLIENTS = 1
  HandleValues = {1, 2, 3}
  MaxCommands = 1
  LineCounts = {1}
  NULL = NULL
  Accept = Accept
  Closed = Closed
  Killed = {c1}
  Faults <- AllFaults
  MAX_RQRS_LEN = 7
  HeaderLen = 2
  Texts <- FewTexts

SPECIFICATION Spec

CHECK_DEADLOCK FALSE

INVARIANTS
  JoinsTheStoppedThread
  ResponseIsOwn
  MessagesAreWhole

PROPERTIES
  ShutdownEnds
  QuitEnds
