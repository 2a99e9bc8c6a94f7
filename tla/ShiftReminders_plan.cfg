SPECIFICATION Spec
CONSTANTS
  Unused = Unused
  Gone = Gone
  Shifts <- MCShifts
  Slot <- MCSlot
  Planned = {1, 2}
  Members = {m}
  Lead = 1
  Grace = 1
  MaxTime = 3
  MaxEdits = 2
INVARIANT ClustersAsDocumented
INVARIANT ToldInTime
INVARIANT ToldOnce
PROPERTY NotDuringShift
