\* Agent traces and chats with stable ids, replayed and reordered.
CONSTANTS
  Records <- AgentAndChat
  GivenIds = TRUE
  Budget = 4
  MaxRecords = 4
  MaxBatches = 3
SPECIFICATION Spec
INVARIANTS
  OneActivePerSubject
  IngestedOnce
  CurrentIsLatest
  NothingDropped
  RetrievalFillsBudget
CHECK_DEADLOCK FALSE
