CONSTANTS
  c1 = c1
  c2 = c2
  c3 = c3
  NoCall = NoCall
  Calls <- MCTwo
  Slots = 1
  MaxOutages = 1
  MaxTests = 1
SPECIFICATION FairHarnessSpec
INVARIANTS
  HarnessTypeOK
  ContainersBounded
  VerdictSound
PROPERTY EveryCallReturns
\* Every call returns.
CHECK_DEADLOCK FALSE
