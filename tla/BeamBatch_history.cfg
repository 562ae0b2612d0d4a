SPECIFICATION Spec
CONSTANTS
  Chat <- MCChat
  Probes <- MCProbes
  JudgeReplies <- MCJudgeReplies
  KeepMessages = 1
  PairCount = 1
  Full = 4
  NoScore = NoScore
  Heuristic = Heuristic
  Nothing = Nothing
  Torn = Torn
  Cases <- MCCases
  Plans <- MCPlans
INVARIANTS
  TranscriptSplit
  ScoreOwnedByRoute
  ReplayAnswersFromFrozenMemory
  AtMostOneRunUnsaved
  ManifestAccountsForBatch
CHECK_DEADLOCK FALSE
