CONSTANTS
  NrCis = 2
  NrDpus = 2
  DisabledDpus <- MCDisabled
  Damage <- MCDamage
  Calls <- MCCalls
  MaxCalls = 2
  MaxPolls = 1
  FaultyFrames <- MCFaulty
  MaxFailures = 1
SPECIFICATION Spec
INVARIANTS AnswerIsFresh CachesAgree CallReaches EnabledAreUsable
