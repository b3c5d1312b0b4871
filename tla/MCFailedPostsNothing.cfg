CONSTANTS
  k1 = k1  x1 = x1  x2 = x2  g1 = g1  g2 = g2  g3 = g3  p1 = p1  p2 = p2  p3 = p3
  Accounts <- MCAccounts
  Wallets <- MCWallets
  Currencies <- MCCurrencies
  CurrencyOf <- MCCurrencyOf
  FeeAccount <- MCFeeAccount
  Opening <- MCOpening
  Keys = {k1}
  NoKey = NoKey
  Transfers = {x1, x2}
  Terms <- MCTerms
  HoldTerms <- MCHoldTerms
  Grants = {g1}
  GrantTerms <- MCGrantTerms
  SandboxGrants = {}
  AllowSandboxMethod = FALSE
  MaxMinor = 4
  MaxFreezes = 0
  Payments = {p1}
  PaymentTerms <- MCPaymentTerms
  PaymentKey <- MCPaymentKey
  PaymentGrant <- MCPaymentGrant
  RailRefuses = {}
  MaxAttempts = 3
  MaxRuns = 1
  MaxRestarts = 1
SPECIFICATION TransferSpec
INVARIANTS FailedPostsNothing
CHECK_DEADLOCK FALSE
