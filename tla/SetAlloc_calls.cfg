CONSTANTS
  Threads = {t1, t2}
  NrHwRanks = 4
  NrCis = 2
  NrDpus = 2
  VpdDisabled <- MCVpdDisabled
  MAX_NUMBER_OF_RANKS = 3
  Described = {0}
  Calls <- MCCalls
  MaxCalls = 2
  MaxFailures = 1
SYMMETRY Symmetry
SPECIFICATION Spec
INVARIANTS HandlerLoaded RanksAccounted AllocExact AllocServes LoopsSeeSet
