\* Two attempts, any two faults of any kind, four choices of skipped agents.
CONSTANTS
  MaxAttempts = 2
  MaxTestRewrites = 1
  MemoryEnabled = TRUE
  SkipSets <- MCSkipSets
  FaultKinds <- AllFaults
  MaxFaults = 2
SPECIFICATION FairSpec
INVARIANTS
  TypeOK
  AttemptsInStep
  FinalCodeVerified
  StoryBackedByRows
  StoryEndsWithVerdict
PROPERTIES
  RefinesLifecycle
  RefinesEventLog
  RunSettles
\* A run ends.
CHECK_DEADLOCK FALSE
