SPECIFICATION FairSpec
CONSTANTS
  NoUser = NoUser
  Open = Open
  Users = {a, b}
  People = {m}
  Grants <- MCByRole
  Dates = {0, 1}
  Periods <- MCPeriods
  MaxDay = 2
  MaxRows = 2
  MaxRestarts = 1
INVARIANT TypeOK
PROPERTY AdminRemains
PROPERTY LeavingTakesEffect
CHECK_DEADLOCK FALSE
