SPECIFICATION FairSpec
CONSTANTS
  Threads = {t1, t2, t3}
  N = 2
  Value = {a}
  NoValue = NoValue
  MaxPos = 2
  Stoppable = {t1}
  Ops = {"try_push", "push", "try_pop", "wait_and_pop"}
PROPERTIES
  PopsProceed
  TriesReturn
