SPECIFICATION FairSpec
CONSTANTS
  Capacity = 2
  Value = {a, b}
  NoValue = NoValue
INVARIANTS
  TypeOK
  NoSlotRace
  PeekedIsNext
  SizeIsAPromise
PROPERTIES
  ImplementsFifo
  WaitsReturn
