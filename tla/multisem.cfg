CONSTANTS
  p1 = p1
  p2 = p2
  c1 = c1
  c2 = c2
  r1 = r1
  Processes = {p1, p2}
  Consumers = {c1, c2}
  Producers = {r1}
  Ctrl = ctrl
  Roles <- AllRoles
  TheName = name
  Names = {name}
  NoName = NoName
  Slots = {1, 2}
  NoThread = NoThread
  Inputs <- SomeInputs
  Rounds = 1

SPECIFICATION Spec

CHECK_DEADLOCK FALSE

INVARIANTS
  ConsistencyTest
  OneCountPerName

PROPERTIES
  FirstComeFirstServed
  ControlCEnds
