SPECIFICATION Spec
CONSTANTS
  Threads = {t1, t2, t3}
  N = 2
  Value = {a, b}
  NoValue = NoValue
  MaxPos = 3
  Stoppable = {}
  Ops = {"try_push", "push", "try_pop", "wait_and_pop", "size"}
INVARIANTS
  CellsAreOwnedByOne
  GetsItsElement
PROPERTIES
  ImplementsFifo
  RefusalsAreExcused
  SizeIsBounded
SYMMETRY Symmetry
