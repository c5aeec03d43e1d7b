SPECIFICATION FairSlotSpec
CONSTANTS
  SpinCount = 2
  MaxTokens = 3
PROPERTY
  SleeperGetsToken
CHECK_DEADLOCK FALSE
