SPECIFICATION Spec
CONSTANTS
  t1 = t1
  t2 = t2
  c1 = c1
  c2 = c2
  i1 = i1
  i2 = i2
  i3 = i3
  NoDeadline = none
  NoTask = NoTask
  Tasks = {t1}
  Lists = {c1, c2}
  Items = {i1, i2, i3}
  ListOf <- MCListOf
  Deadlines = {none, monday, friday}
  Sessions = {1}
  Overlap = FALSE
  MaxTouch = 0
INVARIANT TypeOK
INVARIANT LinkedStatusAgrees
INVARIANT FinishedByChecklistIsSilent
INVARIANT ReminderMatchesDeadline
