CONSTANTS
  FollowUps = {1, 2}
  NoWaId = {2}
  Workers = {w1, w2}
  DryWorkers = {}
  BatchSize = 1
  MaxFaults = 1
SPECIFICATION FairSpec
INVARIANTS FollowupTypeOK RunsAtMostOnce
PROPERTIES KeepsFollowupContract AnsweredIsNotRun EveryDueFollowUpIsTaken EveryClaimConcludes
