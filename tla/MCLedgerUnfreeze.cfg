CONSTANTS
  k1 = k1  k2 = k2  x1 = x1  x2 = x2  g1 = g1  g2 = g2  g3 = g3  g4 = g4
  Accounts <- MCAccounts
  Wallets <- MCWallets
  Currencies <- MCCurrencies
  CurrencyOf <- MCCurrencyOf
  FeeAccount <- MCFeeAccount
  Opening <- MCOpening
  Keys = {k1, k2}
  NoKey = NoKey
  Transfers = {x1, x2}
  Terms <- MCTerms
  HoldTerms <- MCHoldTerms
  Grants = {g1, g2, g3, g4}
  GrantTerms <- MCGrantTerms
  SandboxGrants = {g3}
  AllowSandboxMethod = TRUE
  MaxMinor = 4
  MaxFreezes = 1
SPECIFICATION Spec
PROPERTIES UnfreezeIsEvidenced
CHECK_DEADLOCK FALSE
