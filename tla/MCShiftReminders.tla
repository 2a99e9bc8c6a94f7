-------------------------- MODULE MCShiftReminders --------------------------
(* Small instances of ShiftReminders.                                      *)
EXTENDS ShiftReminders

MCShifts == 1 .. 3

\* Two that follow each other, a long one beside them, and a later one.
MCSlot == {[start |-> 1, end |-> 2], [start |-> 2, end |-> 3],
           [start |-> 1, end |-> 4], [start |-> 3, end |-> 4]}
=============================================================================
