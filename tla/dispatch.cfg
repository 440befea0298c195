CONSTANTS
  Workers = {w1, w2}
  Conns = {c1, c2, c3, c4}
  Capacity = 2
  SemMax = 2
  Faults <- NoFaults
  Main = Main
  NoThread = NoThread
  Null = Null
  Garbage = Garbage

SPECIFICATION LiveSpec

INVARIANTS
  NoEntryStranded
  OwnedOnce

PROPERTIES
  AcceptedIsClosed
