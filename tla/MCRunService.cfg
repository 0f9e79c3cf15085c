CONSTANTS
  r1 = r1
  r2 = r2
  r3 = r3
  r4 = r4
  compare = compare
  post = post
  inline = inline
  Runs <- MCRuns
  Requests <- MCRequests
  RunsOf <- MCRunsOf
  Inline <- MCInline
  Workers = 2
  MaxErrors = 2
  MaxDeaths = 1
SPECIFICATION FairSpec
INVARIANTS
  TypeOK
  OrphansCostErrors
  HeldOnce
PROPERTIES
  OverIsOver
  EveryRunSettles
\* Every request is answered and every run is over.
CHECK_DEADLOCK FALSE
