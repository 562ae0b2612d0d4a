\* One thread with a compactor: rollups and deterministic subjects.
CONSTANTS
  t1 = t1
  t2 = t2
  facts = facts
  decisions = decisions
  progress = progress
  a = a
  b = b
  c = c
  goal = goal
  Threads = {t1}
  Sections = {facts, decisions, progress}
  PrefixOrder <- ByPrefix
  Texts = {a, b}
  SubjectOf <- OneSubject
  TurnIds <- Turns
  NoNarrative = none
  Narratives = {none}
  Progress = progress
  Protected = {decisions, progress}
  CompactorOn = TRUE
  Threshold = 1
  RetryGrowth = 2
  MinProgress = 2
  MaxCandidate = 3
  Outages = {"transport", "tokens"}
  NoFailure = none
  MaxId = 4
  MaxEdits = 2
  MaxTurns = 3
SPECIFICATION Spec
INVARIANT
  RecordedTurnsCovered
PROPERTIES
  HistoryIsFinal
  IdsNeverReissued
  CompactionKeepsLatestValue
CHECK_DEADLOCK FALSE
