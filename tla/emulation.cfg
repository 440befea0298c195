CONSTANTS
  t1 = t1
  t2 = t2
  t3 = t3
  k1 = k1
  k2 = k2
  Threads = {t1, t2, t3}
  Programs <- AllPrograms
  MSG_MAX_NUMBER_QUEUES = 2
  MQ_MAX_BYTES_IN_SYSTEM = 10
  MQ_MAX_BYTES_IN_QUEUE = 8
  MQ_MAX_MESSAGE_SIZE = 3
  LongSize = 1
  IPC_PRIVATE = IPC_PRIVATE
  NoKey = NoKey
  NoThread = NoThread
  MSGQ_KEY = k1
  Goals = {1, 3}
  QueueBytes = 5
  MessageSize = 2

SPECIFICATION Spec

CHECK_DEADLOCK FALSE

INVARIANTS
  NothingLostOrReordered
  CountsAgree
  NotRemovedUnshared

PROPERTIES
  ScriptsEnd
  TestEnds
