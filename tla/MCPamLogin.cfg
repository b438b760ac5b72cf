SPECIFICATION PamFairSpec
CONSTANTS
  MinInterval = 5
  SlowBy = 5
  HttpTimeout = 10
  Intervals <- MCIntervals
  Lifetimes <- MCLifetimes
  Logins = {"ann", "bob"}
  Subjects = {"ann", "u1", "u2"}
  Ids = {"u1", "u2"}
INVARIANTS
  TypeOK
  PollBudget
  PamTypeOK
PROPERTIES
  PollSpacing
  TokenNotDropped
  SuccessNeedsApproval
  PamCallEnds
