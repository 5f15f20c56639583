SPECIFICATION Spec
CONSTANTS
  k1 = k1
  k2 = k2
  b1 = b1
  b2 = b2
  MaxEntries = 2
  Key <- MCKey
  Branch <- MCBranch
  Plans <- DistinctPlans
  SpreadRuns <- MCRuns
INVARIANT NoDuplicateKeys
CHECK_DEADLOCK FALSE
