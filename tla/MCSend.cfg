SPECIFICATION SendSpec
CONSTANTS
  None = None
  Names <- MCNames
  Amounts <- MCAmounts
  QrDefault = 10000
  MaxActs = 5
  MaxRuns = 2
INVARIANTS
  SendTypeOK
  OneSubmissionPerVisit
  RetryKeepsKey
  HeldIsNotPosted
  SuccessIsPosted
  StrongerMethodRules
PROPERTY
  AttemptEnds
CHECK_DEADLOCK FALSE
