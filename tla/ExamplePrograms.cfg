SPECIFICATION FairSpec
CONSTANTS
  Workers = {w1, w2}
  Solo = Solo
  Count = 4
  Bound = 2
INVARIANTS
  AllHandledOnce
PROPERTY
  ProgramFinishes
