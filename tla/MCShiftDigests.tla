--------------------------- MODULE MCShiftDigests ---------------------------
(* Small instances of ShiftDigests.                                        *)
EXTENDS ShiftDigests

MCFields == {"name", "start"}
At(name, start) == [f \in MCFields |-> IF f = "name" THEN name ELSE start]
MCSlot == {At(0, 0), At(1, 0), At(1, 1)}
MCOptional == {"shift.removed"}
=============================================================================
