SPECIFICATION FairSpec
CONSTANTS
  Ranks = {"r1", "r2"}
  ChannelOf <- MCChannelOf
  Conf <- ThreeThreads
  NrDpusPerCi = 5
  Transfers <- MCTransfers
  NoXfer = NoXfer
  MaxInits = 2
  MaxCalls = 1
  MaxFailures = 1
INVARIANTS LinesApart InterleavesAgree
PROPERTIES ImplementsXfer XferReturns
CHECK_DEADLOCK FALSE
