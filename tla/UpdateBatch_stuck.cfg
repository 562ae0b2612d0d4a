\* Changes mentioned in code; the model has nothing to add.
CONSTANTS
  facts = facts
  status = status
  a = a
  b = b
  Sections = {facts, status}
  StatusChanges = status
  Texts = {a, b}
  TurnIds <- Turns
  NoNarrative = none
  Narratives = {none}
  NoStatement = nothing
  TurnKinds <- WithInCode
  ReplyOps <- NoopOnly
  MaxReply = 1
  MaxRetries = 1
  Gates = {FALSE}
  MaxTurns = 2
SPECIFICATION FairSpec
PROPERTY
  EveryTurnRecorded
CHECK_DEADLOCK FALSE
