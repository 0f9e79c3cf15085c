CONSTANTS
  MaxAttempts = 2
  MaxTestRewrites = 1
  MemoryEnabled = FALSE
  SkipSets <- NoReviewers
  FaultKinds <- Interrupting
  MaxFaults = 2
  c1 = c1
  c2 = c2
  Callers <- MCCallers
SYMMETRY Symmetry
SPECIFICATION ExecuteSpec
INVARIANTS
  SuccessHasPassingRow
  NumberedOneByOne
\* The calls and the run end.
CHECK_DEADLOCK FALSE
