SPECIFICATION Spec
CONSTANTS
  r1 = r1 r2 = r2 r3 = r3 w1 = w1 w2 = w2 w3 = w3 q0 = q0
  Ranks = {r1, r2}
  Queues = {q0}
  Workers = {w1, w2}
  Callers = {c1}
  QueueIdx <- MCQueueIdx
  ThreadRank <- MCThreadRank
  NrJobs = 3
  Sets <- MCOneSet
  Allocated <- MCOneSet
  Ops <- CallbackOps
  MaxCalls = 2
  MaxFaults = 1
  Disciplined = TRUE
  NoThread = NoThread
  NoSlot = NoSlot
INVARIANTS BlockingExcludes CallbackSlots
PROPERTIES CallbacksReturn
CHECK_DEADLOCK FALSE
