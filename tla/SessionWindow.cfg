\* A session of up to seven turns; the prompt budget is eight tokens.
CONSTANTS
  TurnChars = {4, 8, 12}
  RenderChars = {0, 8, 15, 19}
  BaseChars = 5
  MaxPromptTokens = 8
  MaxTurns = 7
SPECIFICATION SessionSpec
PROPERTIES
  WindowImplementsHandover
  EvictionMakesRoom
  LatestTurnsStay
CHECK_DEADLOCK FALSE
