SPECIFICATION Spec
CONSTANTS
  NrThreads = 3
  IramSize = 3
  Programs <- MCPrograms
  Members = {0, 1}
  HasStore = TRUE
  MaxSessions = 2
  MaxCalls = 2
  MaxFailures = 1
PROPERTIES SessionRestores
