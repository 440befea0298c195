CONSTANTS
  BufferSize = 3
  Bits = {0, 1}
  Swap <- OtherBit
  Passphrases = {"right", "wrong"}
  Hash <- TwoTokens
  LittleEndian = {"client"}
  CommandLines <- Lines
  Sizes <- FileSizes
  Overruns = {4}

SPECIFICATION LiveSpec

INVARIANTS
  RunsAuthenticated
  UncutTransferIsExact
  OkMeansExecuted

PROPERTY DialogueEnds
