SPECIFICATION Spec
CONSTANTS
  r1 = r1 r2 = r2 d1 = d1 d2 = d2 l1 = l1
  Nobody = Nobody
  Ranks = {r1, r2}
  Dpus = {d1, d2}
  Launchers = {l1}
  LRank <- OneRank
  Targets <- AllLaunches
  MaxLaunches = 2
  MaxFailures = 1
INVARIANTS NeverSleepsOnRunningRank OnlyLiveRanks
PROPERTIES ReturnsWhenStopped FaultReported LaunchReturns TeardownReturns
CHECK_DEADLOCK FALSE
