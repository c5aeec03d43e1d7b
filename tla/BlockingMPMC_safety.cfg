SPECIFICATION Spec
CONSTANTS
  Threads = {t1, t2, t3}
  Free = Free
  Ops = {"push", "emplace_back", "wait_and_pop", "wait_for_and_pop", "try_pop", "unsafe_peek", "clear"}
  Value = {a, b}
  NoValue = NoValue
  MaxLen = 2
INVARIANTS
  TypeOK
  HeadIsNotTheStub
  SizeIsExact
PROPERTY
  ImplementsFifo
SYMMETRY Symmetry
