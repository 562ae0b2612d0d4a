\* New or cut conversations; adds may fail without storing anything.
CONSTANTS
  Sizes = {1, 3}
  MaxTokens = 6
  TargetTokens = 3
  KeepMessages = 2
  MaxCalls = 2
  Imported <- Histories
  NextNode = "recall"
  MaxMessages = 7
  TextSizes = {3}
  AddOutcomes = {"stored", "lost"}
SPECIFICATION HybridSpec
INVARIANTS
  PairsTogether
  MirrorFollowsConversation
  EvictedStaysRecallable
  StoredInOrder
PROPERTIES
  ImplementsHandover
  RecentMessagesStay
  EvictionMeetsBudget
  FlushStoresAllButLastAnswer
CHECK_DEADLOCK FALSE
