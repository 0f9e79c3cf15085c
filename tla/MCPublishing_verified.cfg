CONSTANTS
  t1 = t1
  t2 = t2
  t3 = t3
  c1 = c1
  c2 = c2
  c3 = c3
  None = None
  Calls <- MCCalls
  Tokens <- MCTokens
  MaxFaults = 0
  MaxMeddling = 0
SPECIFICATION PublishingSpec
SYMMETRY MCSymmetry
INVARIANT OnlyVerifiedPublished
\* Every request is answered, and a run may end without an attempt.
CHECK_DEADLOCK FALSE
