CONSTANTS
  Lines <- MCLines
  MaxLines = 4
  Replies <- MCReplies
  Garbage = Garbage
  NaN = NaN
  Huge = Huge
  Absent = Absent
  Totals = {0, 3}
  Coverages = {0, 50, 100}
  Complexities = {5, 10, 15, 25, 40}
  MaxFindings = 2
  Remembered <- MCRemembered
  MaxRecalled = 3
  Limits <- MCLimits
  Suffix = 1
  Header = 2
  Labels = 1
  MaxChars = 14
  m1 = m1
  m2 = m2
  m3 = m3
  w1 = w1
  w2 = w2
  o1 = o1
  o2 = o2
  o3 = o3
  o4 = o4
  o5 = o5
  Ids <- MCIds
  Workspaces <- MCWorkspaces
  Calls <- MCCalls
  TopK = 2
SPECIFICATION MCSpec
SYMMETRY MCSymmetry
INVARIANTS
  AnswersAsWritten
  SkippedIsNotPerfect
  BlockFits
  
  KeptUnlessLapped
PROPERTIES
  FindingsOnlyLower
  DeletedStaysDeleted
\* Inputs are bounded, and every operation ends.
CHECK_DEADLOCK FALSE
