CONSTANTS
  MaxAttempts = 2
  MaxTestRewrites = 1
  MemoryEnabled = FALSE
  SkipSets <- NoReviewers
  FaultKinds <- NoFaults
  MaxFaults = 0
  c1 = c1
  c2 = c2
  Callers <- MCCallers
SYMMETRY Symmetry
SPECIFICATION ExecuteSpec
INVARIANT OnlyVerifiedCertified
\* The calls and the run end.
CHECK_DEADLOCK FALSE
