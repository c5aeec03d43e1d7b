SPECIFICATION FairSpec
CONSTANTS
  Threads = {t1, t2}
  Free = Free
  Ops = {"push", "wait_and_pop"}
  Value = {a}
  NoValue = NoValue
  MaxLen = 2
PROPERTIES
  WaiterGetsElement
