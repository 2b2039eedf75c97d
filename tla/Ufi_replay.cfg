CONSTANTS
  NrCis = 2
  NrDpus = 2
  DisabledDpus <- MCDisabled
  Damage <- MCDamage
  Calls <- ReplayCalls
  MaxCalls = 3
  MaxPolls = 1
  FaultyFrames <- MCFaulty
  MaxFailures = 0
SPECIFICATION Spec
INVARIANT OnlyTarget
