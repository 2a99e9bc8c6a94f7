----------------------- MODULE MCNotificationDispatch -----------------------
(***************************************************************************)
(* Small instances of NotificationDispatch.  A day has five hours, the     *)
(* quiet hours are 1 and 2.  p has an account and a member record, g an    *)
(* account without a member record.  The backoff is counted in units of    *)
(* twenty minutes.                                                         *)
(***************************************************************************)
EXTENDS NotificationDispatch

CONSTANTS p, g

MCQuiet == {1, 2}
MCQuietHour == {1}
MCNever == [n \in Notes |-> MaxTime + 1]
MCBackoff == [attempts \in 1 .. MaxAttempts |-> 2 ^ (attempts - 1)]
MCSoon == [n \in Notes |-> IF n \in Digests THEN MaxTime + 1 ELSE 1]

OnOrOff == {{g}, {p, g}}
GuestOnOrOff == {{p}, {p, g}}

MailAndInbox == {<<p, "in_app">>, <<p, "email">>}
TwoPeople == {<<p, "in_app">>, <<p, "email">>, <<g, "email">>}
TwoMails == {<<p, "email">>, <<g, "email">>}
=============================================================================
