SPECIFICATION Spec
CONSTANTS
  Ranks = {1, 2}
  NrDpus = 2
  Enabled <- MCEnabled
  Bufs = {1, 2}
  Sizes <- MCSizes
  Prepares <- MCPrepares
  Pushes <- MCPushes
  Copies <- MCCopies
  SgCalls <- MCSgCalls
  MaxNrBlocks = 4
  RegionPerf = {1, 2}
  MaxOps = 2
INVARIANTS MatrixIsPrepared ArgsLive
PROPERTIES SgExact
CHECK_DEADLOCK FALSE
