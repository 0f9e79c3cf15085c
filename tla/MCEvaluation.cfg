CONSTANTS
  e1 = e1
  e2 = e2
  c1 = c1
  Jobs <- MCJobs
  Cli <- MCCli
  Unsafe <- MCCli
  Sizes <- MCSizes
  Attempts = 2
  MaxRows = 1
  MaxCrashes = 1
SPECIFICATION EvaluationSpec
INVARIANTS
  ListedIsEarned
  DoneIsListedOnce
PROPERTY JobsEnd
\* Every evaluation ends.
CHECK_DEADLOCK FALSE
