SPECIFICATION FairSlotSpec
CONSTANTS
  SpinCount = 2
  MaxTokens = 3
INVARIANTS
  SlotTypeOK
  CounterIsExact
  NoStalePost
PROPERTY
  PostReachesSleeper
CHECK_DEADLOCK FALSE
