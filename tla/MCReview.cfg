SPECIFICATION ReviewSpec
CONSTANTS
  None = None
  Customer = Customer
  Unverified = Unverified
  P1 = P1
  P2 = P2
  Payee = Payee
  D1 = D1
  Officer = Officer
  Analyst = Analyst
  Basic = Basic
  Phone = Phone
  Payments <- MCPayments
  Amounts <- MCAmounts
  Recipients <- MCRecipients
  Documents <- MCDocuments
  Tiers <- MCTiers
  Operators <- MCOperators
  Officers <- MCOfficers
  Analysts <- MCAnalysts
  Consoles <- MCConsoles
  MaxDay = 2
  MaxActs = 4
INVARIANTS DailyLimitHolds TierRestsOnEvidence DecisionStands
SYMMETRY MCSymmetry
CHECK_DEADLOCK FALSE
