CONSTANTS
  Sends = {1}
  PublicId <- Different
  Handlers = {h1, h2}
  MaxDuplicates = 1
  MaxFaults = 1
CHECK_DEADLOCK FALSE
SPECIFICATION FairSpec
INVARIANTS DeliveryTypeOK OneOutcomePerStatus
PROPERTIES KeepsDeliveryContract EveryStatusIsProjected
