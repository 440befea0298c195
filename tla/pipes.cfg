CONSTANTS
  Clients = {c1, c2}
  Programs <- AllPrograms
  MAX_CLIENTS = 2
  ServerThreads = {1, 2}
  MAX_READY_THREADS = 1
  MaxCommands = 1
  LineCounts = {1}
  CtrlC = {"serverNP", "serverSM"}
  Killed = {c1}
  NULL = NULL
  Faults <- AllFaults

SPECIFICATION Spec

CHECK_DEADLOCK FALSE

INVARIANTS
  PrintedIsOwn

PROPERTIES
  AskedIsAnswered
  ShutdownReachesWorkers
