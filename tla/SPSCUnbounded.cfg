SPECIFICATION Spec
CONSTANTS
  Nodes = {n1, n2, n3, n4, n5}
  Null = Null
  Value = {a, b}
  NoValue = NoValue
INVARIANTS
  TypeOK
  MemorySafe
  SizeIsNeverShort
PROPERTY
  ImplementsFifo
SYMMETRY Symmetry
