CONSTANTS
  q1 = q1
  q2 = q2
  q3 = q3
  q4 = q4
  k1 = k1
  k2 = k2
  tail1 = tail1
  tail2 = tail2
  NoKey = NoKey
  Requests <- MCRequests
  Setups <- MCSetups
  Keys <- MCKeys
  TailOf <- MCTailOf
  Batch = 2
  Window = 4
  Second = 2
  Stall = 1
  MaxTokens = 1
  MaxClock = 7
  MaxDay = 2
  MaxRestarts = 1
SPECIFICATION AdmissionSpec
SYMMETRY MCSymmetry
INVARIANTS
  WindowBounded
  RetryAfterHolds
  OvershootBounded
\* Requests, time and days are bounded.
CHECK_DEADLOCK FALSE
