---------------------------- MODULE MCEventTasks ----------------------------
(* Small instances of EventTasks.                                          *)
EXTENDS EventTasks, TLC

CONSTANTS t1, t2, c1, c2, i1, i2, i3

MCListOf == (i1 :> c1) @@ (i2 :> c1) @@ (i3 :> c2)
=============================================================================
