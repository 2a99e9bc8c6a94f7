SPECIFICATION OverlapSpec
CONSTANTS
  NoUser = NoUser
  Open = Open
  Users = {a, b}
  People = {m}
  Grants <- MCByRole
  Dates = {0, 1}
  Periods <- MCPeriods
  MaxDay = 2
  MaxRows = 1
  MaxRestarts = 1
PROPERTY AdminRemains
CHECK_DEADLOCK FALSE
