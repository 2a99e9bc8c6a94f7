SPECIFICATION Spec
CONSTANTS
  Unused = Unused
  Gone = Gone
  Free = Free
  NoSave = NoSave
  Office = Office
  Shifts = {1, 2}
  Planned = {1}
  Members = {m}
  Fields <- MCFields
  Slot <- MCSlot
  Optional <- MCOptional
  MaxSaves = 3
PROPERTY SummaryIsNetChange
