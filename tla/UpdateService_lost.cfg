\* Two threads and a compactor: a commit between copy and install.
CONSTANTS
  t1 = t1
  t2 = t2
  facts = facts
  decisions = decisions
  progress = progress
  a = a
  b = b
  c = c
  goal = goal
  Threads = {t1, t2}
  Sections = {facts, progress}
  PrefixOrder <- FactsAndProgress
  Texts = {a, b}
  SubjectOf <- OneSubject
  TurnIds <- Turns
  NoNarrative = none
  Narratives = {none}
  Progress = progress
  Protected = {progress}
  CompactorOn = TRUE
  Threshold = 1
  RetryGrowth = 2
  MinProgress = 2
  MaxCandidate = 3
  Outages = {}
  NoFailure = none
  MaxId = 4
  MaxEdits = 2
  MaxTurns = 3
SPECIFICATION Spec
INVARIANT
  RecordedTurnsCovered
CHECK_DEADLOCK FALSE
