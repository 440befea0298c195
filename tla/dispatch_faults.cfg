CONSTANTS
  Workers = {w1, w2, w3}
  Conns = {c1, c2, c3, c4, c5}
  Capacity = 3
  SemMax = 3
  Faults <- AllFaults
  Main = Main
  NoThread = NoThread
  Null = Null
  Garbage = Garbage

SPECIFICATION Spec

SYMMETRY Symmetry

CHECK_DEADLOCK FALSE

INVARIANTS
  MutualExclusion
  DequeueFindsEntry
  ServedAlone

PROPERTIES
  ImplementsHandoff
