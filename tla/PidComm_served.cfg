SPECIFICATION Spec
CONSTANTS
  Calls <- ServedCalls
  NumThread = 2
INVARIANTS Collective StaysInside
CHECK_DEADLOCK FALSE
