CONSTANTS
  Messages = {1, 2, 3, 4}
  Contacts <- TwoContacts
  From <- Writers
  Rejected = {2}
  Payloads <- MixedPayloads
  Handlers = {h1, h2}
  MaxDuplicates = 1
  MaxFaults = 1
CHECK_DEADLOCK FALSE
SPECIFICATION FairSpec
INVARIANTS InboundTypeOK AnsweredIsStored RedeliveryIsIdle
PROPERTIES KeepsInboundContract EveryMessageIsAnswered
