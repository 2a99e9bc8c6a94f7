---------------------------- MODULE ShiftDigests ----------------------------
(* Summaries of shift changes: every save of an event's shift plan is      *)
(* merged into one waiting summary per member, which has to say how the    *)
(* plan differs from what the member was told before.                      *)
(*                                                                         *)
(* Source: src/server/utils/notifications/changeDigest.ts and the writers  *)
(* in eventShifts.ts.  When a summary is due, and how it is sent, is       *)
(* NotificationDispatch: here it is sent at any time, as a whole.          *)
(*                                                                         *)
(* One event.  A save reads the plan and writes it in two steps; members   *)
(* sign up and leave in between.  Saves do not overlap each other.         *)
(* MaxSaves bounds them.                                                   *)
(***************************************************************************)
EXTENDS Naturals

CONSTANTS
  Shifts,   \* event_shift_slots.id
  Planned,  \* the shifts that are there at first
  Members,
  Office,   \* an account that belongs to no member
  Fields,   \* what a summary compares: name, start, end
  Slot,     \* the names and times that a shift may have
  Unused,   \* an id that no shift has got yet
  Gone,     \* a deleted shift
  Free,     \* not on the shift
  NoSave,
  Optional, \* the switches that an administrator turns
  MaxSaves

Types == {"shift.assigned", "shift.changed", "shift.removed"}
Switches == Types \cup {"notifications_enabled"}

ASSUME ShiftDigestsAssumption ==
  /\ Planned \subseteq Shifts /\ Optional \subseteq Switches /\ MaxSaves \in Nat
  /\ \A slot \in Slot : DOMAIN slot = Fields /\ slot = [f \in Fields |-> slot[f]]
  /\ Office \notin Members
  /\ Unused \notin Slot /\ Gone \notin Slot /\ Unused # Gone /\ Free \notin Slot
  /\ NoSave \notin [actor : Members \cup {Office}, seen : [Shifts -> SUBSET Members]]

VARIABLES
  slots,     \* [Shifts -> Slot or Unused or Gone]
  assigned,  \* event_shift_members
  summary,   \* the shift_list of each member's waiting summary
  told,      \* what each member knows of each shift, by messages and own doing
  save,      \* the open save: who, and the assignments it has read
  enabled,   \* type_settings and notifications_enabled
  saves      \* how many saves were committed

vars == <<slots, assigned, summary, told, save, enabled, saves>>

Values == {slot[f] : slot \in Slot, f \in Fields}
\* The fields that differ, with their old and their new value.
Changes == UNION {[F -> [from : Values, to : Values]] : F \in SUBSET Fields}
NoChanges == [f \in {} |-> [from |-> f, to |-> f]]

Entry == [change : {"none", "added", "removed", "changed"}, slot : Slot \cup {Free},
          changes : Changes]
NoEntry == [change |-> "none", slot |-> Free, changes |-> NoChanges]
NoSummary == [s \in Shifts |-> NoEntry]

Save == [actor : Members \cup {Office}, seen : [Shifts -> SUBSET Members]]
Form == [slots : [Shifts -> Slot \cup {Unused, Gone}], assigned : [Shifts -> SUBSET Members]]

Live == {s \in Shifts : slots[s] \in Slot}
Actual(m, s) == IF s \in Live /\ m \in assigned[s] THEN slots[s] ELSE Free

Init ==
  /\ slots \in [Shifts -> Slot \cup {Unused}] /\ Live = Planned
  /\ assigned \in [Shifts -> SUBSET Members] /\ \A s \in Shifts \ Live : assigned[s] = {}
  /\ summary = [m \in Members |-> NoSummary]
  /\ told = [m \in Members |-> [s \in Shifts |-> Actual(m, s)]]
  /\ save = NoSave
  /\ enabled = Switches /\ saves = 0

-----------------------------------------------------------------------------
(* Merging (changeDigest.ts).                                              *)

\* pickChangedFields
Diff(before, after) ==
  [f \in {g \in Fields : before[g] # after[g]} |-> [from |-> before[f], to |-> after[f]]]

From_latest(previous, next, f) ==
  IF f \in DOMAIN next THEN next[f].from ELSE previous[f].from

\* The earliest "from" and the latest "to" of a field.
From(previous, next, f) ==
  IF f \in DOMAIN previous THEN previous[f].from ELSE next[f].from
To(previous, next, f) ==
  IF f \in DOMAIN next THEN next[f].to ELSE previous[f].to

\* mergeChangedFields
Merged(previous, next) ==
  [f \in {g \in DOMAIN previous \cup DOMAIN next :
            From(previous, next, g) # To(previous, next, g)} |->
     [from |-> From(previous, next, f), to |-> To(previous, next, f)]]

\* mergeShiftEntry.  The newest name and times win.
MergeShiftEntry(previous, next) ==
  CASE previous.change = "none" -> next
    [] previous.change = "added" /\ next.change = "removed" -> NoEntry
    [] previous.change = "added" /\ next.change # "removed" ->
         [next EXCEPT !.change = "added", !.changes = NoChanges]
    [] previous.change = "removed" /\ next.change = "added" -> NoEntry
    [] previous.change = "removed" /\ next.change # "added" ->
         [next EXCEPT !.change = "removed", !.changes = previous.changes]
    [] previous.change = "changed" /\ next.change # "changed" -> next
    [] previous.change = "changed" /\ next.change = "changed" ->
         LET changes == Merged(previous.changes, next.changes) IN
         IF DOMAIN changes = {} THEN NoEntry ELSE [next EXCEPT !.changes = changes]

Has(list, change) == \E s \in Shifts : list[s].change = change

shiftSummaryType(list) ==
  IF Has(list, "added") THEN "shift.assigned"
  ELSE IF Has(list, "changed") THEN "shift.changed" ELSE "shift.removed"

Pending(m) == \E s \in Shifts : summary[m][s].change # "none"

\* Whether storeDigest keeps a summary: its type may be switched off, and nothing new
\* is planned while all notifications are.
Stores(m, list) ==
  /\ shiftSummaryType(list) \in enabled
  /\ Pending(m) \/ "notifications_enabled" \in enabled

-----------------------------------------------------------------------------
(* A save of the plan (replaceEventShiftSlots).                            *)

\* Its form keeps, changes and drops shifts, and adds new ones; deleted ones cannot
\* come back.
Follows(form) ==
  \A s \in Shifts :
    /\ slots[s] \in Slot => form.slots[s] \in Slot \cup {Gone}
    /\ slots[s] = Unused => form.slots[s] \in Slot \cup {Unused}
    /\ slots[s] = Gone => form.slots[s] = Gone
    /\ form.slots[s] \notin Slot => form.assigned[s] = {}

\* Nobody sees the form before it is written: it is chosen then.
BeginSave(actor) ==
  /\ save = NoSave /\ saves < MaxSaves
  /\ save' = [actor |-> actor, seen |-> assigned]
  /\ UNCHANGED <<slots, assigned, summary, told, enabled, saves>>

Added(form, s) == form.assigned[s] \ save.seen[s]
Removed(form, s) == save.seen[s] \ form.assigned[s]

\* What the save has to report to the member about the shift.
Change(form, m, s) ==
  LET after == IF form.slots[s] \in Slot THEN form.slots[s] ELSE slots[s]
      Told(change, changes) == [change |-> change, slot |-> after, changes |-> changes]
  IN IF m \in Added(form, s) THEN Told("added", NoChanges)
     ELSE IF m \in Removed(form, s) THEN Told("removed", NoChanges)
     ELSE IF m \in save.seen[s] /\ slots[s] # after
          THEN Told("changed", Diff(slots[s], after))
     ELSE NoEntry

Concerns(form, m) == \E s \in Shifts : Change(form, m, s).change # "none"

Summarized(form, m) ==
  [s \in Shifts |-> IF Change(form, m, s).change # "none"
                    THEN MergeShiftEntry(summary[m][s], Change(form, m, s)) ELSE summary[m][s]]

\* queueShiftChanges: whoever made the change is skipped.
SummaryAfter(form, m) ==
  IF m = save.actor \/ ~Concerns(form, m) THEN summary[m]
  ELSE IF Stores(m, Summarized(form, m)) THEN Summarized(form, m) ELSE NoSummary

\* An assignment that is there by now meets the primary key, and the save fails.
CommitSave(form) ==
  /\ save # NoSave /\ Follows(form)
  /\ \A s \in Shifts : Added(form, s) \cap assigned[s] = {}
  /\ slots' = form.slots
  /\ assigned' = [s \in Shifts |-> IF form.slots[s] \in Slot
                                   THEN (assigned[s] \ Removed(form, s)) \cup Added(form, s) ELSE {}]
  /\ summary' = [m \in Members |-> SummaryAfter(form, m)]
  /\ told' = [m \in Members |-> [s \in Shifts |->
                IF m = save.actor /\ Change(form, m, s).change # "none"
                THEN Actual(m, s)' ELSE told[m][s]]]
  /\ save' = NoSave
  /\ saves' = saves + 1
  /\ UNCHANGED enabled

AbortSave ==
  /\ save # NoSave /\ save' = NoSave
  /\ UNCHANGED <<slots, assigned, summary, told, enabled, saves>>

-----------------------------------------------------------------------------
(* What members do themselves, and what becomes of a summary.              *)

addSelfToShift(m, s) ==
  /\ s \in Live /\ m \notin assigned[s]
  /\ assigned' = [assigned EXCEPT ![s] = @ \cup {m}]
  /\ told' = [told EXCEPT ![m][s] = slots[s]]
  /\ UNCHANGED <<slots, summary, save, enabled, saves>>

removeSelfFromShift(m, s) ==
  /\ s \in Live /\ m \in assigned[s]
  /\ assigned' = [assigned EXCEPT ![s] = @ \ {m}]
  /\ told' = [told EXCEPT ![m][s] = Free]
  /\ UNCHANGED <<slots, summary, save, enabled, saves>>

\* What the member knows who reads this entry.
Read(entry, known) ==
  IF entry.change = "none" THEN known
  ELSE IF entry.change = "removed" THEN Free ELSE entry.slot

Send(m) ==
  /\ Pending(m)
  /\ told' = [told EXCEPT ![m] = [s \in Shifts |-> Read(summary[m][s], told[m][s])]]
  /\ summary' = [summary EXCEPT ![m] = NoSummary]
  /\ UNCHANGED <<slots, assigned, save, enabled, saves>>

\* cancelNotification, of a waiting summary
Cancel(m) ==
  /\ Pending(m)
  /\ summary' = [summary EXCEPT ![m] = NoSummary]
  /\ UNCHANGED <<slots, assigned, told, save, enabled, saves>>

Switch(x) ==
  /\ x \in Optional
  /\ enabled' = IF x \in enabled THEN enabled \ {x} ELSE enabled \cup {x}
  /\ UNCHANGED <<slots, assigned, summary, told, save, saves>>
-----------------------------------------------------------------------------
Next ==
  \/ \E actor \in Members \cup {Office} : BeginSave(actor)
  \/ AbortSave
  \/ \E form \in Form : CommitSave(form)
  \/ \E m \in Members, s \in Shifts : addSelfToShift(m, s) \/ removeSelfFromShift(m, s)
  \/ \E m \in Members : Send(m) \/ Cancel(m)
  \/ \E x \in Optional : Switch(x)

Spec == Init /\ [][Next]_vars
-----------------------------------------------------------------------------
(* Properties.                                                             *)

\* Plan, summaries and the open save are well-formed; nobody is assigned to a shift
\* that is not there, and an open save goes with the plan that it has read.
TypeOK ==
  /\ slots \in [Shifts -> Slot \cup {Unused, Gone}]
  /\ assigned \in [Shifts -> SUBSET Members] /\ \A s \in Shifts \ Live : assigned[s] = {}
  /\ summary \in [Members -> [Shifts -> Entry]]
  /\ \A m \in Members, s \in Shifts :
       summary[m][s].change \in {"added", "changed"} => summary[m][s].slot \in Slot
  /\ told \in [Members -> [Shifts -> Slot \cup {Free}]]
  /\ save # NoSave => /\ save \in Save /\ \A s \in Shifts \ Live : save.seen[s] = {}
                      /\ saves < MaxSaves
  /\ enabled \in SUBSET Switches /\ saves \in 0 .. MaxSaves

\* The entry says how what is differs from what is known, once, and with the values
\* it is known by.
Net(entry, known, is) ==
  /\ entry.change = "none" <=> known = is
  /\ entry.change = "added" <=> known = Free /\ is # Free
  /\ entry.change = "removed" <=> known # Free /\ is = Free
  /\ entry.change \in {"added", "changed"} => entry.slot = is
  /\ entry.change = "changed" => entry.changes = Diff(known, is)

Truthful(m, s) == Net(summary[m][s], told[m][s], Actual(m, s))

\* The member signs up or leaves, or saves the plan, while an entry is waiting.
OwnDoing(m, s) ==
  /\ summary[m][s].change # "none"
  /\ \/ addSelfToShift(m, s) \/ removeSelfFromShift(m, s)
     \/ save # NoSave /\ save.actor = m /\ save' = NoSave

\* The member signed up or left after the save had read who is on the shift.
SignedUpMeanwhile(m, s) == save # NoSave /\ (m \in save.seen[s]) # (m \in assigned[s])

\* The member is back on a shift that has changed since they were told of it:
\* mergeShiftEntry then says nothing.
BackOnChanged(m, s) ==
  /\ summary[m][s].change = "removed" /\ save # NoSave /\ m \notin save.seen[s]
  /\ Actual(m, s)' \notin {Free, told[m][s]}

\* An administrator cancels the summary, or has switched something off.
Suppressed(m) == summary'[m] = NoSummary /\ (Cancel(m) \/ enabled # Switches)

\* However often shifts are moved, renamed, deleted, given and taken before a summary
\* goes out, it says exactly what is new to its reader (the comments of changeDigest.ts:
\* "the earliest from, the latest to", "null = nothing left to report").  What makes it
\* wrong is what a member does beside it, an administrator, and one case of
\* mergeShiftEntry itself: the return to a shift that has changed.
SummaryIsNetChange ==
  [][\A m \in Members, s \in Shifts :
       Truthful(m, s) /\ ~Truthful(m, s)'
       => \/ OwnDoing(m, s) \/ SignedUpMeanwhile(m, s)
          \/ BackOnChanged(m, s) \/ Suppressed(m)]_vars
=============================================================================
