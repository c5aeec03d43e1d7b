SPECIFICATION Spec
CONSTANTS
  Nodes = {b1, b2, b3}
  Null = Null
  Capacity = 2
  Value = {v, w}
  NoValue = NoValue
  SpinCount = 2
  MaxTokens = 4
  MaxPos = 4
INVARIANTS
  TokenMeansElement
  MemorySafe
  AnswersAreTimely
PROPERTY
  ImplementsFifo
SYMMETRY Symmetry
CHECK_DEADLOCK FALSE
