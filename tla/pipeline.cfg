CONSTANTS
  Pairs = {p1, p2}
  Goals <- OnePairOrTwo
  TBLOCK_SIZE = 2
  Transmitter = Transmitter
  Receiver = Receiver
  Threads <- PairThreads
  Queues <- PipelineQueues
  QSize <- ThreeSlots
  NoThread = NoThread
  NoMsg = NoMsg

SPECIFICATION Spec

CHECK_DEADLOCK FALSE

INVARIANTS
  DeliveredInOrder
  NoLostSignal

PROPERTY ProgramEnds
