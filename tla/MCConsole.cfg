SPECIFICATION ConsoleSpec
CONSTANTS
  None = None
  Maker = Maker
  Checker = Checker
  Operators <- MCOperators
  Browsers <- MCBrowsers
  Roles <- MCRoles
  Asks <- MCAsks
  MaxChanges = 2
  MaxActs = 6
CHECK_DEADLOCK FALSE
INVARIANTS ControlTypeOK AuditIsOneChain
PROPERTIES KeepsChangeControl
