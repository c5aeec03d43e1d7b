SPECIFICATION FairSpec
CONSTANTS
  Producers = {p1, p2}
  Stoppable = {p1}
  Nodes = {n1, n2, n3}
  Null = Null
  Value = {a, b}
  NoValue = NoValue
  SizeMod = 8
INVARIANTS
  TypeOK
  MemorySafe
  SizeIsLate
PROPERTIES
  ImplementsFifo
  EmptyIsExact
  TryPopReturns
