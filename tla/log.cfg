CONSTANTS
  Threads = {t1, t2, t3}
  MaxRequests = 2
  Faults <- AllFaults
  NoThread = NoThread
SPECIFICATION LogLiveSpec
CHECK_DEADLOCK FALSE
INVARIANTS
  OneWriter
  LinesInOrder
PROPERTY LogRequestReturns
