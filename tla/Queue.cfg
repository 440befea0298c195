CONSTANTS
  Item = {a, b, c}
  Places = 3
  Null = Null
  Garbage = Garbage

SPECIFICATION QueueSpec

INVARIANTS
  Consistent

PROPERTY ImplementsFifo
