CONSTANTS
  Sends = {1, 2}
  PublicId <- Alike
  Handlers = {h1}
  MaxDuplicates = 0
  MaxFaults = 0
CHECK_DEADLOCK FALSE
SPECIFICATION Spec
INVARIANT SentIsInTimeline
