CONSTANTS
  Atoi <- Numbers
  ArgvSize = 10
  Null = Null
  CommandLines <- TypedLines
  ConfLines <- FileLines
  MaxClients = 2
  MaxSignals = 2
  PortRange = 65536
  UintRange = 65536
  Faults <- AllFaults

SPECIFICATION LiveSpec

CHECK_DEADLOCK FALSE

INVARIANTS
  FileReadsAsCommandLine
  SizesAgree

PROPERTIES
  PendingAreTaken
  FlagEndsService
