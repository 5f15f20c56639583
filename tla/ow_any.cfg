SPECIFICATION Spec
CONSTANTS
  k1 = k1
  k2 = k2
  b1 = b1
  b2 = b2
  MaxEntries = 3
  Key <- MCKey
  Branch <- MCBranch
  Plans <- MCPlans
  SpreadRuns <- MCRuns
INVARIANTS TypeOK NoKeyLost CollisionReportIsFirst StrictMeansUnique KeysOnce GenerateRefusesClashes
PROPERTIES Terminates ImplementsPolicy
CHECK_DEADLOCK FALSE
