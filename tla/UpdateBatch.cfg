\* Two turns whose changes are all extracted; answers of up to two ops.
CONSTANTS
  facts = facts
  status = status
  a = a
  b = b
  Sections = {facts, status}
  StatusChanges = status
  Texts = {a, b}
  TurnIds <- Turns
  NoNarrative = none
  Narratives = {none}
  NoStatement = nothing
  TurnKinds <- Extracted
  ReplyOps <- SomeOps
  MaxReply = 2
  MaxRetries = 1
  Gates = {TRUE, FALSE}
  MaxTurns = 2
SPECIFICATION FairSpec
INVARIANTS
  ReportExplainsTrial
  UncommittedTurnsLeaveNoTrace
PROPERTY
  EveryTurnRecorded
CHECK_DEADLOCK FALSE
