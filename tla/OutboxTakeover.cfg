CONSTANTS
  Rows = {1, 2}
  OperatorRows = {}
  InvalidRows = {}
  AllowedRows = {2}
  Ticks = {w1, w2}
  DryTicks = {}
  SlowTicks = {}
  Calls = {}
  Operators = {o1, o2}
  BatchSize = 2
  MaxAttempts = 2
  MaxFaults = 0
  MaxControls = 2
SPECIFICATION FairSpec
INVARIANTS TypeOK OneExecutionPerAttempt ActionFollowsRow LateSendIsAudited
PROPERTIES RevokedIsNeverSent EveryRowSettles EveryClaimEnds
