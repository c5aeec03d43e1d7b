SPECIFICATION FairSpec
CONSTANTS
  Threads = {t1, t2, t3}
  Free = Free
  Ops = {"push", "emplace_back", "wait_and_pop", "wait_for_and_pop", "try_pop", "clear"}
  Value = {a}
  NoValue = NoValue
  MaxLen = 1
PROPERTIES
  SectionsEnd
  TimedWaitReturns
  PushWakes
