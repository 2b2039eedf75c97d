SPECIFICATION Spec
CONSTANTS
  r1 = r1 r2 = r2 r3 = r3 w1 = w1 w2 = w2 w3 = w3 q0 = q0
  Ranks = {r1, r2, r3}
  Queues = {q0}
  Workers = {w1, w2, w3}
  Callers = {c1}
  QueueIdx <- MCQueueIdx
  ThreadRank <- MCThreadRankOther
  NrJobs = 2
  Sets <- MCOneSet
  Allocated <- MCOneSet
  Ops <- CopyOps
  MaxCalls = 3
  MaxFaults = 1
  Disciplined = TRUE
  NoThread = NoThread
  NoSlot = NoSlot
INVARIANTS SlotsConserved OneCarrier SyncDrains SyncObjectLive FreedQuiescent
PROPERTIES CallsReturn
CHECK_DEADLOCK FALSE
