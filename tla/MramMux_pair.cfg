SPECIFICATION Spec
CONSTANTS
  NrCis = 3
  NrDpusPerCi = 2
  Enabled <- OneDisabled
  Matrices <- AllMatrices
  MaxFailures = 2
INVARIANTS CopyExact RunningOwnsMram PairsAgree
PROPERTIES MuxStillWhileRunning
CHECK_DEADLOCK FALSE
