-------------------------- MODULE NotificationOutbox --------------------------
(***************************************************************************)
(* What the outbox promises of a notification, without passes, locks,      *)
(* transactions and crashes: it waits, its messages go out, what became of *)
(* them is recorded, and then it is settled or was withdrawn before.       *)
(* Module NotificationDispatch implements it.                              *)
(***************************************************************************)
EXTENDS Naturals

CONSTANTS
  Notes,
  People,
  Wants,    \* {<<who, channel>>}: the deliveries a notification needs
  Quiet     \* the hours at which no first e-mail leaves

VARIABLES
  status,    \* [Notes -> none, scheduled, sent, partially_failed, cancelled, deleted]
  recorded,  \* the deliveries on record
  failed,    \* the recipients whose e-mail is on record as failed
  copies,    \* how many e-mails of it have left to each
  mishaps,   \* how often its sending was cut short
  hour,      \* of the work in progress
  on         \* those whose e-mail works, as the work in progress knows it

outbox == <<status, recorded, failed, copies, mishaps, hour, on>>
work == <<hour, on>>
records == <<recorded, failed>>

Init ==
  /\ status = [n \in Notes |-> "none"]
  /\ recorded = [n \in Notes |-> {}]
  /\ failed = [n \in Notes |-> {}]
  /\ copies = [n \in Notes |-> [p \in People |-> 0]]
  /\ mishaps = [n \in Notes |-> 0]
  /\ hour = 0 /\ on = {}

Turns(n, from, to) == status[n] = from /\ status' = [status EXCEPT ![n] = to]

Plan(n) ==
  /\ Turns(n, "none", "scheduled")
  /\ UNCHANGED <<records, copies, mishaps, work>>

\* Cancelled, or withdrawn with everything on record.
Withdraw(n) ==
  /\ \/ Turns(n, "scheduled", "cancelled") /\ UNCHANGED records
     \/ /\ Turns(n, "scheduled", "deleted")
        /\ recorded' = [recorded EXCEPT ![n] = {}]
        /\ failed' = [failed EXCEPT ![n] = {}]
  /\ UNCHANGED <<copies, mishaps, work>>

\* One more copy, unless the person has one that no mishap explains.
Leaves(n, p) ==
  /\ copies[n][p] <= mishaps[n]
  /\ copies' = [copies EXCEPT ![n][p] = @ + 1]
  /\ UNCHANGED <<status, records, mishaps, work>>

Send(n, p) == status[n] = "scheduled" /\ hour \notin Quiet /\ Leaves(n, p)

\* Only what failed is tried again, at any hour.
SendAgain(n, p) == status[n] = "partially_failed" /\ p \in failed[n] /\ Leaves(n, p)

\* The deliveries that can be made.
Needed == {w \in Wants : w[2] = "in_app" \/ w[1] \in on}

\* What has been delivered is recorded.  In the quiet hours the rest may wait; else
\* the notification is settled, which takes each of those.
Record(n) ==
  /\ status[n] = "scheduled" /\ recorded[n] \subseteq recorded'[n]
  /\ \A m \in Notes \ {n} : recorded'[m] = recorded[m] /\ failed'[m] = failed[m]
  /\ \/ hour \in Quiet /\ failed'[n] = {} /\ UNCHANGED status
     \/ Needed \subseteq recorded'[n] /\ failed'[n] = {} /\ Turns(n, "scheduled", "sent")
     \/ Needed \subseteq recorded'[n] /\ failed'[n] # {} /\ Turns(n, "scheduled", "partially_failed")
  /\ UNCHANGED <<copies, mishaps>>

\* A failed e-mail is delivered after all, or has become pointless.
Resolve(n) ==
  /\ status[n] = "partially_failed" /\ failed'[n] \subseteq failed[n]
  /\ \A m \in Notes \ {n} : failed'[m] = failed[m]
  /\ UNCHANGED <<status, recorded, copies, mishaps, work>>

Mishap(n) ==
  /\ mishaps' = [mishaps EXCEPT ![n] = @ + 1]
  /\ UNCHANGED <<status, records, copies>>

Passes == UNCHANGED <<status, records, copies, mishaps>>

Next ==
  \/ \E n \in Notes : Plan(n) \/ Withdraw(n) \/ Record(n) \/ Resolve(n) \/ Mishap(n)
  \/ \E n \in Notes, p \in People : Send(n, p) \/ SendAgain(n, p)
  \/ Passes

Spec == Init /\ [][Next]_outbox
=============================================================================
