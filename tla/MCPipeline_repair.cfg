\* Three attempts: a diagnosis and an error can become stale.  One rewrite of the
\* tests more than the code allows, so that they are saved after a failed save.
CONSTANTS
  MaxAttempts = 3
  MaxTestRewrites = 2
  MemoryEnabled = TRUE
  SkipSets <- MCFewSkips
  FaultKinds <- AllFaults
  MaxFaults = 1
SPECIFICATION Spec
INVARIANTS
  MemoryMatchesOutcome
  RepairsLastAttempt
  CertificateHonest
CHECK_DEADLOCK FALSE
