--------------------------- MODULE ShiftReminders ---------------------------
(* Reminders of the shifts of one event: the sweep plans one per shift,    *)
(* the dispatcher folds the reminders of a person whose shifts belong      *)
(* together into the one of the first of them, and planners and members    *)
(* change shifts and assignments all the while, also between what a pass   *)
(* reads and what it makes of it: a pass is no transaction.                *)
(*                                                                         *)
(* Source: src/server/utils/notifications/clusters.ts, personalize.ts,     *)
(* reminders.ts, enqueue.ts and dispatch.ts, and the writers in            *)
(* eventShifts.ts.  How a reminder is delivered is NotificationDispatch:   *)
(* here it is sent at once.                                                *)
(*                                                                         *)
(* One lead time (the reminders of another one have other keys and rows).  *)
(* Time is a number; the dispatcher runs in every unit of it, once at      *)
(* least, as its timer does while the process is up.  MaxTime bounds it,   *)
(* MaxEdits the changes of the plan.                                       *)
(***************************************************************************)
EXTENDS Integers, FiniteSets

CONSTANTS
  Shifts,   \* event_shift_slots.id, numbers given in ascending order
  Planned,  \* the shifts that are there at first
  Members,
  Unused,   \* an id that no shift has got yet
  Gone,     \* a deleted shift
  Lead,     \* lead_times['shift.reminder']
  Grace,    \* how late a reminder is still planned
  Slot,     \* the times that a shift may have
  MaxTime,
  MaxEdits

ASSUME ShiftRemindersAssumption ==
  /\ Shifts \subseteq Nat \ {0} /\ Planned \subseteq Shifts
  /\ IsFiniteSet(Shifts) /\ IsFiniteSet(Members)
  /\ Lead \in Nat \ {0} /\ Grace \in Nat
  /\ Slot \subseteq {s \in [start : Nat \ {0}, end : Nat] : s.start < s.end}
  /\ MaxTime \in Nat /\ MaxEdits \in Nat
  /\ Unused # Gone /\ Unused \notin Slot /\ Gone \notin Slot

VARIABLES
  slots,     \* [Shifts -> Slot or Unused or Gone]
  assigned,  \* event_shift_members
  rows,      \* the reminder of each shift in the outbox, by its dedupe_key
  now,
  stage,     \* how far the dispatcher's pass is; whether one has ended at this time
  known,     \* the keys that the pass has loaded
  sweep,     \* the reminders that it has yet to plan, by the shifts it has read
  queue,     \* the reminders that it has read as due
  inbox,     \* what members were told: who, by which reminder, of which shifts
  edits,     \* how often the plan has changed
  edited     \* when it changed last

vars == <<slots, assigned, rows, now, stage, known, sweep, queue, inbox, edits, edited>>
plan == <<slots, assigned>>
pass == <<stage, known, sweep, queue>>

\* outdated is no column: whether the plan was another when the row came to be.
NoRow == [status |-> "none", at |-> 0, sentAt |-> 0, outdated |-> FALSE]
Live == {i \in Shifts : slots[i] \notin {Unused, Gone}}

Init ==
  /\ slots \in [Shifts -> Slot \cup {Unused}]
  /\ assigned \in [Shifts -> SUBSET Members]
  /\ \A i \in Shifts : IF i \in Planned THEN slots[i] \in Slot
                                         ELSE slots[i] = Unused /\ assigned[i] = {}
  /\ rows = [i \in Shifts |-> NoRow]
  /\ now = 0 /\ stage = "idle" /\ known = {} /\ sweep = {} /\ queue = {}
  /\ inbox = {} /\ edits = 0 /\ edited = -1

-----------------------------------------------------------------------------
(* Groups of shifts (clusters.ts).  timetable[i] is the slot of item i.    *)

RemindAt(slot) == slot.start - Lead

\* The order of the walk.
Precedes(timetable, i, j) ==
  \/ timetable[i].start < timetable[j].start
  \/ timetable[i].start = timetable[j].start /\ i < j

Before(timetable, i) == {j \in DOMAIN timetable : Precedes(timetable, j, i)}

\* The last one of some items.
Latest(timetable, items) ==
  CHOOSE j \in items : \A k \in items : k = j \/ Precedes(timetable, k, j)

Later(a, b) == IF a > b THEN a ELSE b

Horizon_first(group, slot, mode) == group.horizon

\* What an item that joins makes of the time its group is over.
Horizon(group, slot, mode) ==
  IF mode = "span" THEN Later(group.horizon, slot.end) ELSE group.horizon

NewGroup(i, slot, mode) ==
  [leader |-> i, horizon |-> IF mode = "span" THEN slot.end ELSE slot.start]

\* The group that is current after each item: an item joins the one that it finds,
\* or begins one.
Current(timetable, mode) ==
  LET current[i \in DOMAIN timetable] ==
        LET slot == timetable[i]
            before == Before(timetable, i)
            group == current[Latest(timetable, before)]
        IN IF before # {} /\ RemindAt(slot) < group.horizon
           THEN [group EXCEPT !.horizon = Horizon(group, slot, mode)]
           ELSE NewGroup(i, slot, mode)
  IN current

\* clusterByLeadTime
Clusters(timetable, mode) ==
  LET current == Current(timetable, mode) IN
  {[leader |-> l, ids |-> {i \in DOMAIN timetable : current[i].leader = l}] :
     l \in {i \in DOMAIN timetable : current[i].leader = i}}

\* findCluster, of an item that is among them
FindCluster(timetable, mode, i) == CHOOSE g \in Clusters(timetable, mode) : i \in g.ids

-----------------------------------------------------------------------------
(* The plan.                                                               *)

Edit ==
  /\ edits < MaxEdits /\ edits' = edits + 1 /\ edited' = now
  /\ UNCHANGED <<now, pass, inbox>>

\* dropFutureReminders
Dropped(i) == IF rows[i].status = "scheduled" THEN [rows EXCEPT ![i] = NoRow] ELSE rows

TimingOrNameChanged_nameOnly(i, slot, renamed) == renamed

TimingOrNameChanged(i, slot, renamed) == renamed \/ slot # slots[i]

\* replaceEventShiftSlots, which finds one shift changed, one new, or one missing.
ChangeShift(i, slot, members, renamed) ==
  /\ Edit
  /\ i \in Live
  /\ slots' = [slots EXCEPT ![i] = slot] /\ assigned' = [assigned EXCEPT ![i] = members]
  /\ rows' = IF TimingOrNameChanged(i, slot, renamed) THEN Dropped(i) ELSE rows

AddShift(i, slot, members) ==
  /\ Edit
  /\ slots[i] = Unused /\ \A j \in Shifts : j < i => slots[j] # Unused
  /\ slots' = [slots EXCEPT ![i] = slot] /\ assigned' = [assigned EXCEPT ![i] = members]
  /\ UNCHANGED rows

DeleteShift(i) ==
  /\ Edit
  /\ i \in Live
  /\ slots' = [slots EXCEPT ![i] = Gone] /\ assigned' = [assigned EXCEPT ![i] = {}]
  /\ UNCHANGED rows

addSelfToShift(i, m) ==
  /\ Edit
  /\ i \in Live /\ m \notin assigned[i]
  /\ assigned' = [assigned EXCEPT ![i] = @ \cup {m}]
  /\ UNCHANGED <<slots, rows>>

removeSelfFromShift(i, m) ==
  /\ Edit
  /\ i \in Live /\ m \in assigned[i]
  /\ assigned' = [assigned EXCEPT ![i] = @ \ {m}]
  /\ UNCHANGED <<slots, rows>>

-----------------------------------------------------------------------------
(* The dispatcher: sweep, then everything due, in the order of its time.   *)

\* loadPlannedKeys: of what is planned, or was sent.
BeginPass ==
  /\ stage \in {"idle", "ended"} /\ stage' = "keys"
  /\ known' = {i \in Shifts : rows[i].status # "none"}
  /\ UNCHANGED <<plan, rows, now, sweep, queue, inbox, edits, edited>>

\* What the sweep still plans a reminder of.
Plans(i) == i \in Live /\ slots[i].start >= now /\ RemindAt(slots[i]) >= now - Grace

\* sweepShiftReminders reads the shifts.
ReadShifts ==
  /\ stage = "keys" /\ stage' = "planning"
  /\ sweep' = {[id |-> i, at |-> RemindAt(slots[i])] : i \in {j \in Shifts \ known : Plans(j)}}
  /\ known' = {}
  /\ UNCHANGED <<plan, rows, now, queue, inbox, edits, edited>>

\* The row that it inserts, for the time that it has read.
PlannedRow(entry) ==
  [status |-> "scheduled", at |-> entry.at, sentAt |-> 0,
   outdated |-> ~(entry.id \in Live /\ RemindAt(slots[entry.id]) = entry.at)]

\* enqueueNotification, one after the other; the key of a row is unique.
PlanReminder(entry) ==
  /\ entry \in sweep /\ sweep' = sweep \ {entry}
  /\ rows' = IF rows[entry.id].status = "none"
             THEN [rows EXCEPT ![entry.id] = PlannedRow(entry)] ELSE rows
  /\ UNCHANGED <<plan, now, stage, known, queue, inbox, edits, edited>>

\* runNotificationDispatch, after the sweep.
ReadDue ==
  /\ stage = "planning" /\ sweep = {}
  /\ queue' = {[id |-> i, at |-> rows[i].at] :
                 i \in {j \in Shifts : rows[j].status = "scheduled" /\ rows[j].at <= now}}
  /\ stage' = IF queue' = {} THEN "ended" ELSE "sending"
  /\ UNCHANGED <<plan, rows, now, known, sweep, inbox, edits, edited>>

\* The shifts of the event that the member is assigned to.
Own(m) == [i \in {j \in Live : m \in assigned[j]} |-> slots[i]]

Carries_every(i, m) == TRUE

Carries_firstOfAll(i, m) == FindCluster([j \in Live |-> slots[j]], "span", i).leader = i

\* Whether the reminder of shift i is the one that goes out to the member.
Carries(i, m) == FindCluster(Own(m), "span", i).leader = i

\* personalShiftReminder
Messages(i) ==
  {[member |-> m, by |-> i, shifts |-> FindCluster(Own(m), "span", i).ids,
    at |-> now, edit |-> edits] : m \in {n \in assigned[i] : Carries(i, n)}}

\* The next reminder of the pass, unless it has been dropped meanwhile.
Send(entry) ==
  /\ entry \in queue /\ \A e \in queue : entry.at <= e.at
  /\ rows[entry.id].status = "scheduled" =>
       /\ rows' = [rows EXCEPT ![entry.id].status = "sent", ![entry.id].sentAt = now]
       /\ inbox' = inbox \cup Messages(entry.id)
  /\ rows[entry.id].status # "scheduled" => UNCHANGED <<rows, inbox>>
  /\ queue' = queue \ {entry}
  /\ stage' = IF queue' = {} THEN "ended" ELSE "sending"
  /\ UNCHANGED <<plan, now, known, sweep, edits, edited>>

Tick ==
  /\ stage = "ended" /\ now < MaxTime
  /\ now' = now + 1 /\ stage' = "idle"
  /\ UNCHANGED <<plan, rows, known, sweep, queue, inbox, edits, edited>>
-----------------------------------------------------------------------------
Next ==
  \/ \E i \in Shifts, slot \in Slot, members \in SUBSET Members :
       \/ \E renamed \in BOOLEAN : ChangeShift(i, slot, members, renamed)
       \/ AddShift(i, slot, members)
  \/ \E i \in Shifts : DeleteShift(i)
  \/ \E i \in Shifts, m \in Members : addSelfToShift(i, m) \/ removeSelfFromShift(i, m)
  \/ BeginPass \/ ReadShifts \/ ReadDue
  \/ \E entry \in sweep : PlanReminder(entry)
  \/ \E entry \in queue : Send(entry)
  \/ Tick

Spec == Init /\ [][Next]_vars
-----------------------------------------------------------------------------
(* Properties.                                                             *)

\* The comment of clusters.ts, over every timetable that occurs.  Shifts: a group
\* begins with each shift whose reminder is not due before every earlier one is over.
\* Deadlines: what is in a group is due to be reminded of before its first deadline,
\* and the next group's is not.
ClustersAsDocumented ==
  LET timetable == [i \in Live |-> slots[i]]
      Earlier(i, j) == \/ slots[i].start < slots[j].start
                       \/ slots[i].start = slots[j].start /\ i < j
      Begins(i) == \A e \in Live : Earlier(e, i) => RemindAt(slots[i]) >= slots[e].end
      spans == Clusters(timetable, "span")
      deadlines == Clusters(timetable, "leader")
  IN /\ {g.leader : g \in spans} = {i \in Live : Begins(i)}
     /\ \A groups \in {spans, deadlines} :
          /\ \A i \in Live : \E g \in groups : {h \in groups : i \in h.ids} = {g}
          /\ \A g \in groups : g.leader \in g.ids
          /\ \A g \in groups, i \in Live :
               \* A group is everything from its leader to the next leader.
               i \in g.ids <=> /\ ~Earlier(i, g.leader)
                               /\ \A h \in groups : Earlier(g.leader, h.leader)
                                                    => Earlier(i, h.leader)
     /\ \A g \in deadlines : \A i \in g.ids \ {g.leader} :
          RemindAt(slots[i]) < slots[g.leader].start
     /\ \A g, h \in deadlines :
          Earlier(g.leader, h.leader) => RemindAt(slots[h.leader]) >= slots[g.leader].start

\* The reminder of a group goes out at its moment: of every shift that somebody has,
\* this person is told then, by the group's first reminder, although every other one
\* is skipped ("the leader's reminder lists the group, the others are skipped").
\* Provided that the plan has not changed since that moment, that the first reminder
\* had not gone out for an earlier version of the plan, and that it was not planned
\* for one: a save between the sweep's reading and its insert finds no row to drop,
\* and the row that comes then is late or early and keeps the right one out.
ToldInTime ==
  \A i \in Live : \A m \in assigned[i] :
    LET leader == FindCluster(Own(m), "span", i).leader
        moment == RemindAt(slots[leader]) IN
    (/\ edited < moment /\ (moment < now \/ (moment = now /\ stage = "ended"))
     /\ ~rows[leader].outdated
     /\ ~(rows[leader].status = "sent" /\ rows[leader].sentAt <= edited))
    => \E n \in inbox : /\ n.member = m /\ n.by = leader /\ i \in n.shifts
                        /\ n.at = moment /\ n.edit = edits

\* Between two changes of the plan nobody is told of the same shift twice.
ToldOnce ==
  \A n, o \in inbox : n # o /\ n.member = o.member /\ n.edit = o.edit
                      => n.shifts \cap o.shifts = {}

\* "Never remind someone about their next shift while they are still on one of the
\* same event", whenever shifts are moved, extended or handed over, by any reminder
\* that was not planned from an outdated reading of the shifts.
NotDuringShift ==
  [][\A n \in inbox' \ inbox : \A j \in Live :
       /\ ~rows[n.by].outdated
       /\ n.member \in assigned[j] /\ slots[j].start < slots[n.by].start
       => slots[j].end <= now]_vars
=============================================================================
