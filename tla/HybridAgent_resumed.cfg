\* A conversation resumed with messages the agent has not tracked.
CONSTANTS
  Sizes = {1, 3}
  MaxTokens = 6
  TargetTokens = 3
  KeepMessages = 2
  MaxCalls = 2
  Imported <- Resumed
  NextNode = "recall"
  MaxMessages = 7
  TextSizes = {3}
  AddOutcomes = {"stored"}
SPECIFICATION HybridSpec
INVARIANT
  EvictedStaysRecallable
CHECK_DEADLOCK FALSE
