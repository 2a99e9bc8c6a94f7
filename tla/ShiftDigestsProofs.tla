------------------------- MODULE ShiftDigestsProofs -------------------------
(* What a summary says, for any number of shifts, members and saves.       *)
EXTENDS ShiftDigests, TLAPS

-----------------------------------------------------------------------------
(* Merging.                                                                *)

\* The differences of two changes in a row are the difference from the first to
\* the last, whatever fields changed in between and back.
LEMMA MergedDiffs ==
  ASSUME NEW a, NEW b, NEW c
  PROVE  Merged(Diff(a, b), Diff(b, c)) = Diff(a, c)
<1>. DEFINE p == Diff(a, b)
            n == Diff(b, c)
<1>1. /\ DOMAIN p = {g \in Fields : a[g] # b[g]}
      /\ \A f \in DOMAIN p : p[f] = [from |-> a[f], to |-> b[f]]
  BY DEF Diff
<1>2. /\ DOMAIN n = {g \in Fields : b[g] # c[g]}
      /\ \A f \in DOMAIN n : n[f] = [from |-> b[f], to |-> c[f]]
  BY DEF Diff
<1>. HIDE DEF p, n
<1>3. \A f \in DOMAIN p \cup DOMAIN n : From(p, n, f) = a[f] /\ To(p, n, f) = c[f]
  BY <1>1, <1>2 DEF From, To
<1>4. {g \in DOMAIN p \cup DOMAIN n : From(p, n, g) # To(p, n, g)} = {g \in Fields : a[g] # c[g]}
  BY <1>1, <1>2, <1>3
<1>5. Merged(p, n) = [f \in {g \in Fields : a[g] # c[g]} |-> [from |-> a[f], to |-> c[f]]]
  BY <1>3, <1>4 DEF Merged
<1>. QED
  BY <1>5 DEF Diff, p, n

\* No field differs between equal slots only.
LEMMA EmptyDiff ==
  ASSUME NEW a \in Slot, NEW b \in Slot
  PROVE  DOMAIN Diff(a, b) = {} <=> a = b
<1>1. a = [f \in Fields |-> a[f]] /\ b = [f \in Fields |-> b[f]]
  BY ShiftDigestsAssumption
<1>2. DOMAIN Diff(a, b) = {g \in Fields : a[g] # b[g]}
  BY DEF Diff
<1>3. ASSUME \A g \in Fields : a[g] = b[g] PROVE a = b
  BY <1>1, <1>3
<1>. QED
  BY <1>2, <1>3

Kinds == {"none", "added", "removed", "changed"}

\* mergeShiftEntry is right: an entry and the next change give the entry of both,
\* except for somebody who is back on a shift that has changed.
LEMMA MergeIsNet ==
  ASSUME NEW previous, NEW next, previous.change \in Kinds, next.change \in Kinds \ {"none"},
         NEW known \in Slot \cup {Free}, NEW was \in Slot \cup {Free}, NEW is \in Slot \cup {Free},
         next = [change |-> next.change, slot |-> next.slot, changes |-> next.changes],
         Net(previous, known, was), Net(next, was, is),
         previous.change = "removed" => is \in {Free, known}
  PROVE  Net(MergeShiftEntry(previous, next), known, is)
<1>0. Free \notin Slot
  BY ShiftDigestsAssumption
<1>1. CASE previous.change = "none"
  BY <1>1 DEF Net, MergeShiftEntry
<1>2. CASE previous.change = "added" /\ next.change = "removed"
  BY <1>2 DEF Net, MergeShiftEntry, NoEntry
<1>3. CASE previous.change = "added" /\ next.change # "removed"
  <2>1. MergeShiftEntry(previous, next)
          = [change |-> "added", slot |-> next.slot, changes |-> NoChanges]
    BY <1>3 DEF MergeShiftEntry
  <2>2. known = Free /\ is # Free /\ next.slot = is
    BY <1>0, <1>3 DEF Net, Kinds
  <2>. QED
    BY <2>1, <2>2 DEF Net
<1>4. CASE previous.change = "removed" /\ next.change = "added"
  <2>1. MergeShiftEntry(previous, next) = NoEntry
    BY <1>4 DEF MergeShiftEntry
  <2>2. known = is
    BY <1>4 DEF Net
  <2>. QED
    BY <1>4, <2>1, <2>2 DEF Net, NoEntry
<1>5. CASE previous.change = "removed" /\ next.change # "added"
  BY <1>0, <1>5 DEF Net, Kinds
<1>6. CASE previous.change = "changed" /\ next.change # "changed"
  <2>1. MergeShiftEntry(previous, next) = next
    BY <1>6 DEF MergeShiftEntry
  <2>2. known # Free /\ was # Free
    BY <1>0, <1>6 DEF Net
  <2>3. next.change = "removed" /\ is = Free
    BY <1>6, <2>2 DEF Net, Kinds
  <2>. QED
    BY <2>1, <2>2, <2>3 DEF Net
<1>7. CASE previous.change = "changed" /\ next.change = "changed"
  <2>. DEFINE changes == Merged(previous.changes, next.changes)
  <2>1. known \in Slot /\ was \in Slot /\ is \in Slot
    BY <1>7 DEF Net
  <2>2. changes = Diff(known, is)
    BY <1>7, MergedDiffs DEF Net
  <2>3. DOMAIN changes = {} <=> known = is
    BY <2>1, <2>2, EmptyDiff
  <2>4. next.slot = is
    BY <1>7 DEF Net
  <2>5. MergeShiftEntry(previous, next)
          = IF DOMAIN changes = {} THEN NoEntry
            ELSE [change |-> "changed", slot |-> next.slot, changes |-> changes]
    BY <1>7 DEF MergeShiftEntry
  <2>. HIDE DEF changes
  <2>6. CASE known = is
    BY <1>0, <2>1, <2>3, <2>5, <2>6 DEF Net, NoEntry
  <2>7. CASE known # is
    BY <1>0, <2>1, <2>2, <2>3, <2>4, <2>5, <2>7 DEF Net
  <2>. QED
    BY <2>6, <2>7
<1>. QED
  BY <1>1, <1>2, <1>3, <1>4, <1>5, <1>6, <1>7 DEF Kinds

-----------------------------------------------------------------------------
(* Types.                                                                  *)

LEMMA NoChangesType == NoChanges \in Changes /\ NoEntry \in Entry
<1>1. NoChanges \in [{} -> [from : Values, to : Values]]
  BY DEF NoChanges
<1>2. NoChanges \in Changes
  BY <1>1 DEF Changes
<1>. QED
  BY <1>2 DEF NoEntry, Entry

LEMMA DiffType ==
  ASSUME NEW a \in Slot, NEW b \in Slot
  PROVE  Diff(a, b) \in Changes
<1>. DEFINE F == {g \in Fields : a[g] # b[g]}
<1>1. \A f \in F : a[f] \in Values /\ b[f] \in Values
  BY DEF Values
<1>2. Diff(a, b) \in [F -> [from : Values, to : Values]]
  BY <1>1 DEF Diff
<1>3. F \in SUBSET Fields
  OBVIOUS
<1>. QED
  BY <1>2, <1>3 DEF Changes

LEMMA MergedType ==
  ASSUME NEW previous \in Changes, NEW next \in Changes
  PROVE  Merged(previous, next) \in Changes
<1>. DEFINE F == {g \in DOMAIN previous \cup DOMAIN next :
                    From(previous, next, g) # To(previous, next, g)}
            Pairs == [from : Values, to : Values]
<1>1. DOMAIN previous \in SUBSET Fields /\ \A f \in DOMAIN previous : previous[f] \in Pairs
  BY DEF Changes
<1>2. DOMAIN next \in SUBSET Fields /\ \A f \in DOMAIN next : next[f] \in Pairs
  BY DEF Changes
<1>3. \A f \in F : From(previous, next, f) \in Values /\ To(previous, next, f) \in Values
  BY <1>1, <1>2 DEF From, To
<1>4. Merged(previous, next) \in [F -> Pairs]
  BY <1>3 DEF Merged
<1>5. F \in SUBSET Fields
  BY <1>1, <1>2
<1>. QED
  BY <1>4, <1>5 DEF Changes

\* An entry with a time, where it has to have one.
Timed(entry) == entry \in Entry /\ (entry.change \in {"added", "changed"} => entry.slot \in Slot)

LEMMA MergeType ==
  ASSUME NEW previous, NEW next, Timed(previous), Timed(next), next.slot \in Slot
  PROVE  Timed(MergeShiftEntry(previous, next))
<1>1. /\ previous.change \in Kinds /\ next.change \in Kinds
      /\ previous.changes \in Changes /\ next.changes \in Changes
      /\ next = [change |-> next.change, slot |-> next.slot, changes |-> next.changes]
  BY DEF Timed, Entry, Kinds
<1>2. Merged(previous.changes, next.changes) \in Changes
  BY <1>1, MergedType
<1>. DEFINE result == MergeShiftEntry(previous, next)
            Says(kind, changes) == [change |-> kind, slot |-> next.slot, changes |-> changes]
<1>3. result \in {next, NoEntry}
        \cup {Says(kind, changes) : kind \in Kinds \ {"none"},
              changes \in {NoChanges, previous.changes, Merged(previous.changes, next.changes)}}
  <2>1. CASE previous.change = "none"  BY <2>1 DEF MergeShiftEntry
  <2>2. CASE previous.change = "added" /\ next.change = "removed"  BY <2>2 DEF MergeShiftEntry
  <2>3. CASE previous.change = "added" /\ next.change # "removed"
    <3>1. result = Says("added", NoChanges)  BY <1>1, <2>3 DEF MergeShiftEntry
    <3>. QED  BY <3>1 DEF Kinds
  <2>4. CASE previous.change = "removed" /\ next.change = "added"  BY <2>4 DEF MergeShiftEntry
  <2>5. CASE previous.change = "removed" /\ next.change # "added"
    <3>1. result = Says("removed", previous.changes)  BY <1>1, <2>5 DEF MergeShiftEntry
    <3>. QED  BY <3>1 DEF Kinds
  <2>6. CASE previous.change = "changed" /\ next.change # "changed"  BY <2>6 DEF MergeShiftEntry
  <2>7. CASE previous.change = "changed" /\ next.change = "changed"
    <3>1. result \in {NoEntry, Says("changed", Merged(previous.changes, next.changes))}
      BY <1>1, <2>7 DEF MergeShiftEntry
    <3>. QED  BY <3>1 DEF Kinds
  <2>. QED
    BY <1>1, <2>1, <2>2, <2>3, <2>4, <2>5, <2>6, <2>7 DEF Kinds
<1>. HIDE DEF result
<1>4. Timed(NoEntry)
  BY NoChangesType DEF Timed, NoEntry
<1>5. \A kind \in Kinds, changes \in Changes : Timed(Says(kind, changes))
  BY DEF Timed, Entry, Kinds
<1>. QED
  BY <1>1, <1>2, <1>3, <1>4, <1>5, NoChangesType DEF result

-----------------------------------------------------------------------------
(* What a save reports.                                                    *)

\* Every change that a save reports has the shift's time, and is a change.
LEMMA ChangeType ==
  ASSUME TypeOK, save # NoSave, NEW form \in Form, Follows(form),
         NEW m \in Members, NEW s \in Shifts
  PROVE  /\ Timed(Change(form, m, s))
         /\ Change(form, m, s).change # "none" => Change(form, m, s).slot \in Slot
<1>. DEFINE after == IF form.slots[s] \in Slot THEN form.slots[s] ELSE slots[s]
            Told(change, changes) == [change |-> change, slot |-> after, changes |-> changes]
<1>1. Change(form, m, s) = IF m \in Added(form, s) THEN Told("added", NoChanges)
                           ELSE IF m \in Removed(form, s) THEN Told("removed", NoChanges)
                           ELSE IF m \in save.seen[s] /\ slots[s] # after
                                THEN Told("changed", Diff(slots[s], after))
                           ELSE NoEntry
  BY DEF Change
<1>2. m \in save.seen[s] => slots[s] \in Slot
  BY DEF TypeOK, Live
<1>3. m \in Added(form, s) \/ m \in save.seen[s] => after \in Slot
  BY <1>2 DEF Added, Follows
<1>4. m \in Removed(form, s) => m \in save.seen[s]
  BY DEF Removed
<1>5. m \in save.seen[s] => Diff(slots[s], after) \in Changes
  BY <1>2, <1>3, DiffType
<1>. HIDE DEF after
<1>6. CASE m \in Added(form, s)
  BY <1>1, <1>3, <1>6, NoChangesType DEF Timed, Entry
<1>7. CASE m \notin Added(form, s) /\ m \in Removed(form, s)
  BY <1>1, <1>3, <1>4, <1>7, NoChangesType DEF Timed, Entry
<1>8. CASE m \notin Added(form, s) /\ m \notin Removed(form, s)
  <2>1. CASE m \in save.seen[s] /\ slots[s] # after
    <3>1. Change(form, m, s) = Told("changed", Diff(slots[s], after))
      BY <1>1, <1>8, <2>1
    <3>. QED
      BY <1>3, <1>5, <2>1, <3>1 DEF Timed, Entry
  <2>2. CASE ~(m \in save.seen[s] /\ slots[s] # after)
    <3>1. Change(form, m, s) = NoEntry
      BY <1>1, <1>8, <2>2
    <3>. QED
      BY <3>1, NoChangesType DEF Timed, NoEntry
  <2>. QED
    BY <2>1, <2>2
<1>. QED
  BY <1>6, <1>7, <1>8

\* It says how the member's part of the plan changes, if the member has not
\* changed it since it was read.
LEMMA ChangeIsNet ==
  ASSUME TypeOK, NEW form \in Form, CommitSave(form), NEW m \in Members, NEW s \in Shifts,
         ~SignedUpMeanwhile(m, s)
  PROVE  Net(Change(form, m, s), Actual(m, s), Actual(m, s)')
<1>. DEFINE after == IF form.slots[s] \in Slot THEN form.slots[s] ELSE slots[s]
            Told(change, changes) == [change |-> change, slot |-> after, changes |-> changes]
            is == Actual(m, s)
            then == Actual(m, s)'
<1>1. Change(form, m, s) = IF m \in Added(form, s) THEN Told("added", NoChanges)
                           ELSE IF m \in Removed(form, s) THEN Told("removed", NoChanges)
                           ELSE IF m \in save.seen[s] /\ slots[s] # after
                                THEN Told("changed", Diff(slots[s], after))
                           ELSE NoEntry
  BY DEF Change
<1>2. m \in save.seen[s] <=> m \in assigned[s]
  BY DEF SignedUpMeanwhile, CommitSave
<1>3. is = IF m \in assigned[s] THEN slots[s] ELSE Free
  BY DEF Actual, TypeOK, Live
<1>4. m \in assigned[s] => slots[s] \in Slot
  BY DEF TypeOK, Live
<1>5. then = IF form.slots[s] \in Slot /\ m \in (assigned[s] \ Removed(form, s)) \cup Added(form, s)
             THEN form.slots[s] ELSE Free
  BY DEF Actual, CommitSave, Live
<1>6. m \in form.assigned[s] => form.slots[s] \in Slot
  BY DEF CommitSave, Follows
<1>7. then = IF m \in form.assigned[s] THEN form.slots[s] ELSE Free
  BY <1>2, <1>5, <1>6 DEF Added, Removed
<1>8. Free \notin Slot
  BY ShiftDigestsAssumption
<1>. HIDE DEF is, then
<1>9. CASE m \in Added(form, s)
  <2>1. is = Free /\ then = form.slots[s] /\ then \in Slot /\ after = then
    BY <1>2, <1>3, <1>6, <1>7, <1>9 DEF Added
  <2>2. Change(form, m, s) = Told("added", NoChanges)
    BY <1>1, <1>9
  <2>. HIDE DEF after
  <2>. QED
    BY <1>8, <2>1, <2>2 DEF Net, is, then
<1>10. CASE m \in Removed(form, s)
  <2>1. is \in Slot /\ then = Free /\ m \notin Added(form, s)
    BY <1>2, <1>3, <1>4, <1>7, <1>10 DEF Removed, Added
  <2>2. Change(form, m, s) = Told("removed", NoChanges)
    BY <1>1, <1>10, <2>1
  <2>. HIDE DEF after
  <2>. QED
    BY <1>8, <2>1, <2>2 DEF Net, is, then
<1>11. CASE m \notin Added(form, s) /\ m \notin Removed(form, s) /\ m \in save.seen[s]
  <2>1. is = slots[s] /\ is \in Slot /\ then = after /\ then \in Slot
    BY <1>2, <1>3, <1>4, <1>6, <1>7, <1>11 DEF Removed
  <2>. HIDE DEF after
  <2>2. Change(form, m, s) = IF is # then THEN Told("changed", Diff(is, then)) ELSE NoEntry
    BY <1>1, <1>11, <2>1
  <2>3. CASE is = then
    BY <1>8, <2>1, <2>2, <2>3 DEF Net, NoEntry, is, then
  <2>4. CASE is # then
    BY <1>8, <2>1, <2>2, <2>4 DEF Net, is, then
  <2>. QED
    BY <2>3, <2>4
<1>12. CASE m \notin Added(form, s) /\ m \notin save.seen[s]
  <2>1. is = Free /\ then = Free /\ m \notin Removed(form, s)
    BY <1>2, <1>3, <1>7, <1>12 DEF Added, Removed
  <2>2. Change(form, m, s) = NoEntry
    BY <1>1, <1>12, <2>1
  <2>. QED
    BY <2>1, <2>2 DEF Net, NoEntry, is, then
<1>. QED
  BY <1>9, <1>10, <1>11, <1>12

-----------------------------------------------------------------------------
(* Type correctness.                                                       *)

LEMMA SummarizedType ==
  ASSUME TypeOK, save # NoSave, NEW form \in Form, Follows(form), NEW m \in Members
  PROVE  \A s \in Shifts : Timed(SummaryAfter(form, m)[s])
<1>1. \A s \in Shifts : Timed(summary[m][s])
  BY DEF TypeOK, Timed
<1>2. ASSUME NEW s \in Shifts PROVE Timed(Summarized(form, m)[s])
  <2>1. CASE Change(form, m, s).change = "none"
    BY <1>1, <2>1 DEF Summarized
  <2>2. CASE Change(form, m, s).change # "none"
    <3>1. Timed(Change(form, m, s)) /\ Change(form, m, s).slot \in Slot
      BY <2>2, ChangeType
    <3>2. Timed(MergeShiftEntry(summary[m][s], Change(form, m, s)))
      BY <1>1, <3>1, MergeType
    <3>. QED
      BY <2>2, <3>2 DEF Summarized
  <2>. QED
    BY <2>1, <2>2
<1>3. \A s \in Shifts : Timed(NoSummary[s])
  BY NoChangesType DEF NoSummary, Timed, NoEntry
<1>. QED
  BY <1>1, <1>2, <1>3 DEF SummaryAfter

LEMMA TypeCommitSave ==
  ASSUME TypeOK, NEW form \in Form, CommitSave(form)
  PROVE  TypeOK'
<1>1. slots' \in [Shifts -> Slot \cup {Unused, Gone}]
  BY DEF CommitSave, Form
<1>2. /\ assigned' \in [Shifts -> SUBSET Members]
      /\ \A s \in Shifts : form.slots[s] \notin Slot => assigned'[s] = {}
  <2>1. \A s \in Shifts : assigned[s] \subseteq Members /\ form.assigned[s] \subseteq Members
    BY DEF TypeOK, Form
  <2>. QED
    BY <2>1 DEF CommitSave, Added
<1>3. \A s \in Shifts : s \in Live' <=> form.slots[s] \in Slot
  BY DEF CommitSave, Live
<1>4. /\ summary' \in [Members -> [Shifts -> Entry]]
      /\ \A m \in Members, s \in Shifts :
           summary'[m][s].change \in {"added", "changed"} => summary'[m][s].slot \in Slot
  <2>1. \A m \in Members : summary'[m] = SummaryAfter(form, m)
    BY DEF CommitSave
  <2>2. \A m \in Members, s \in Shifts : Timed(summary'[m][s])
    BY <2>1, SummarizedType DEF CommitSave
  <2>3. \A m \in Members : SummaryAfter(form, m) = [s \in Shifts |-> SummaryAfter(form, m)[s]]
    BY DEF SummaryAfter, Summarized, NoSummary, TypeOK
  <2>4. summary' = [m \in Members |-> SummaryAfter(form, m)]
    BY DEF CommitSave
  <2>. QED
    BY <2>1, <2>2, <2>3, <2>4 DEF Timed
<1>5. told' \in [Members -> [Shifts -> Slot \cup {Free}]]
  <2>1. \A m \in Members, s \in Shifts : Actual(m, s)' \in Slot \cup {Free}
    BY DEF Actual, Live
  <2>. QED
    BY <2>1 DEF CommitSave, TypeOK
<1>6. saves' \in 0 .. MaxSaves /\ enabled' \in SUBSET Switches /\ save' = NoSave
  BY ShiftDigestsAssumption DEF CommitSave, TypeOK
<1>7. \A s \in Shifts \ Live' : assigned'[s] = {}
  BY <1>2, <1>3
<1>. QED
  BY <1>1, <1>2, <1>4, <1>5, <1>6, <1>7 DEF TypeOK

LEMMA TypeStep ==
  ASSUME TypeOK, [Next]_vars
  PROVE  TypeOK'
<1>1. ASSUME NEW actor \in Members \cup {Office}, BeginSave(actor) PROVE TypeOK'
  <2>1. save' \in Save /\ \A s \in Shifts \ Live : save'.seen[s] = {}
    BY <1>1 DEF BeginSave, TypeOK, Save
  <2>. QED
    BY <1>1, <2>1 DEF BeginSave, TypeOK, Live
<1>2. CASE AbortSave
  BY <1>2 DEF AbortSave, TypeOK, Live
<1>3. ASSUME NEW form \in Form, CommitSave(form) PROVE TypeOK'
  BY <1>3, TypeCommitSave
<1>4. ASSUME NEW m \in Members, NEW s \in Shifts, addSelfToShift(m, s) PROVE TypeOK'
  <2>1. slots[s] \in Slot
    BY <1>4 DEF addSelfToShift, Live
  <2>2. told' \in [Members -> [Shifts -> Slot \cup {Free}]]
    BY <1>4, <2>1 DEF addSelfToShift, TypeOK
  <2>3. assigned' \in [Shifts -> SUBSET Members] /\ \A t \in Shifts \ Live : assigned'[t] = {}
    BY <1>4 DEF addSelfToShift, TypeOK
  <2>. QED
    BY <1>4, <2>2, <2>3 DEF addSelfToShift, TypeOK, Live
<1>5. ASSUME NEW m \in Members, NEW s \in Shifts, removeSelfFromShift(m, s) PROVE TypeOK'
  <2>1. told' \in [Members -> [Shifts -> Slot \cup {Free}]]
    BY <1>5 DEF removeSelfFromShift, TypeOK
  <2>2. assigned' \in [Shifts -> SUBSET Members] /\ \A t \in Shifts \ Live : assigned'[t] = {}
    BY <1>5 DEF removeSelfFromShift, TypeOK
  <2>. QED
    BY <1>5, <2>1, <2>2 DEF removeSelfFromShift, TypeOK, Live
<1>6. NoSummary \in [Shifts -> Entry] /\ \A s \in Shifts : NoSummary[s].change = "none"
  BY NoChangesType DEF NoSummary, NoEntry
<1>7. ASSUME NEW m \in Members, Send(m) PROVE TypeOK'
  <2>1. told' \in [Members -> [Shifts -> Slot \cup {Free}]]
    <3>1. \A s \in Shifts : Read(summary[m][s], told[m][s]) \in Slot \cup {Free}
      BY DEF Read, TypeOK, Entry
    <3>2. [s \in Shifts |-> Read(summary[m][s], told[m][s])] \in [Shifts -> Slot \cup {Free}]
      BY <3>1
    <3>. QED
      BY <1>7, <3>2 DEF Send, TypeOK
  <2>. QED
    BY <1>6, <1>7, <2>1 DEF Send, TypeOK, Live
<1>8. ASSUME NEW m \in Members, Cancel(m) PROVE TypeOK'
  BY <1>6, <1>8 DEF Cancel, TypeOK, Live
<1>9. ASSUME NEW x \in Optional, Switch(x) PROVE TypeOK'
  BY <1>9, ShiftDigestsAssumption DEF Switch, TypeOK, Live
<1>10. CASE UNCHANGED vars
  BY <1>10 DEF vars, TypeOK, Live
<1>. QED
  BY <1>1, <1>2, <1>3, <1>4, <1>5, <1>7, <1>8, <1>9, <1>10 DEF Next

\* Plan, summaries and saves stay well-formed, whatever members and planners do
\* beside each other.
THEOREM DigestTypeCorrect == Spec => []TypeOK
<1>1. Init => TypeOK
  <2>. SUFFICES ASSUME Init PROVE TypeOK
    OBVIOUS
  <2>1. summary \in [Members -> [Shifts -> Entry]]
        /\ \A m \in Members, s \in Shifts : summary[m][s].change = "none"
    BY NoChangesType DEF Init, NoSummary, NoEntry
  <2>2. told \in [Members -> [Shifts -> Slot \cup {Free}]]
    BY DEF Init, Actual, Live
  <2>. QED
    BY <2>1, <2>2, ShiftDigestsAssumption DEF Init, TypeOK, Live
<1>. QED
  BY <1>1, TypeStep, PTL DEF Spec

-----------------------------------------------------------------------------
(* What a summary says.                                                    *)

Excused(m, s) ==
  OwnDoing(m, s) \/ SignedUpMeanwhile(m, s) \/ BackOnChanged(m, s) \/ Suppressed(m)

LEMMA ActualType ==
  ASSUME TypeOK, NEW m \in Members, NEW s \in Shifts
  PROVE  Actual(m, s) \in Slot \cup {Free}
BY DEF Actual, Live

\* A save keeps the summaries of everybody right.
LEMMA CommitIsNet ==
  ASSUME TypeOK, TypeOK', NEW form \in Form, CommitSave(form),
         NEW m \in Members, NEW s \in Shifts, Truthful(m, s), ~Excused(m, s)
  PROVE  Truthful(m, s)'
<1>. DEFINE change == Change(form, m, s)
            known == told[m][s]
            is == Actual(m, s)
            then == Actual(m, s)'
<1>1. Net(change, is, then)
  BY ChangeIsNet DEF Excused
<1>2. Net(summary[m][s], known, is)
  BY DEF Truthful
<1>3. told'[m][s] = IF m = save.actor /\ change.change # "none" THEN then ELSE known
  BY DEF CommitSave
<1>4. summary'[m] = SummaryAfter(form, m)
  BY DEF CommitSave
<1>5. known \in Slot \cup {Free} /\ is \in Slot \cup {Free} /\ then \in Slot \cup {Free}
  BY ActualType DEF TypeOK, Actual, Live
<1>6. change.change = "none" => then = is
  BY <1>1 DEF Net
<1>7. Free \notin Slot
  BY ShiftDigestsAssumption
<1>8. CASE m = save.actor
  <2>1. summary[m][s].change = "none" /\ known = is
    BY <1>2, <1>8 DEF Excused, OwnDoing, CommitSave, Net
  <2>2. summary'[m][s] = summary[m][s]
    BY <1>4, <1>8 DEF SummaryAfter
  <2>3. told'[m][s] = then
    BY <1>3, <1>6, <1>8, <2>1
  <2>. HIDE DEF change, known, is, then
  <2>4. Net(summary[m][s], then, then)
    BY <1>5, <1>7, <2>1 DEF Net
  <2>. QED
    BY <2>2, <2>3, <2>4 DEF Truthful, then, Net, Diff
<1>9. CASE m # save.actor
  <2>1. told'[m][s] = known
    BY <1>3, <1>9
  <2>2. ASSUME summary'[m][s] = summary[m][s], change.change = "none" PROVE Truthful(m, s)'
    BY <1>2, <1>6, <2>1, <2>2 DEF Truthful, Net, Diff
  <2>3. CASE ~Concerns(form, m)
    BY <1>4, <2>2, <2>3 DEF SummaryAfter, Concerns
  <2>4. CASE Concerns(form, m) /\ ~Stores(m, Summarized(form, m))
    <3>1. summary'[m] = NoSummary
      BY <1>4, <1>9, <2>4 DEF SummaryAfter
    <3>2. enabled # Switches
      BY <2>4 DEF Stores, shiftSummaryType, Switches, Types
    <3>. QED
      BY <3>1, <3>2 DEF Excused, Suppressed
  <2>5. CASE Concerns(form, m) /\ Stores(m, Summarized(form, m))
    <3>1. summary'[m][s] = IF change.change # "none"
                           THEN MergeShiftEntry(summary[m][s], change) ELSE summary[m][s]
      BY <1>4, <1>9, <2>5 DEF SummaryAfter, Summarized
    <3>2. CASE change.change = "none"
      BY <2>2, <3>1, <3>2
    <3>3. CASE change.change # "none"
      <4>1. summary[m][s].change \in Kinds /\ change.change \in Kinds \ {"none"}
        <5>1. summary[m][s] \in Entry /\ change \in Entry
          BY ChangeType DEF TypeOK, Timed, CommitSave
        <5>. QED
          BY <3>3, <5>1 DEF Entry, Kinds
      <4>2. change = [change |-> change.change, slot |-> change.slot, changes |-> change.changes]
        <5>1. change \in Entry
          BY ChangeType DEF Timed, CommitSave
        <5>. QED
          BY <5>1 DEF Entry
      <4>3. summary[m][s].change = "removed" => then \in {Free, known}
        <5>1. SUFFICES ASSUME summary[m][s].change = "removed" PROVE then \in {Free, known}
          OBVIOUS
        <5>2. is = Free /\ save # NoSave
          BY <1>2, <5>1 DEF Net, CommitSave
        <5>3. m \notin assigned[s]
          BY <1>7, <5>2 DEF Actual, Live, TypeOK
        <5>4. m \notin save.seen[s]
          BY <5>2, <5>3 DEF Excused, SignedUpMeanwhile
        <5>. QED
          BY <5>1, <5>2, <5>4 DEF Excused, BackOnChanged
      <4>. HIDE DEF change, known, is, then
      <4>4. Net(MergeShiftEntry(summary[m][s], change), known, then)
        BY <1>1, <1>2, <1>5, <4>1, <4>2, <4>3, MergeIsNet
      <4>. QED
        BY <2>1, <3>1, <3>3, <4>4 DEF Truthful, then, Net, Diff
    <3>. QED
      BY <3>2, <3>3
  <2>. QED
    BY <2>3, <2>4, <2>5
<1>. QED
  BY <1>8, <1>9

LEMMA StepIsNet ==
  ASSUME TypeOK, TypeOK', [Next]_vars, NEW m \in Members, NEW s \in Shifts,
         Truthful(m, s), ~Excused(m, s)
  PROVE  Truthful(m, s)'
<1>1. ASSUME slots' = slots, assigned'[s] = assigned[s], summary'[m][s] = summary[m][s],
             told'[m][s] = told[m][s]
      PROVE  Truthful(m, s)'
  BY <1>1 DEF Truthful, Net, Actual, Live, Diff
<1>2. ASSUME NEW n \in Members, NEW t \in Shifts,
             addSelfToShift(n, t) \/ removeSelfFromShift(n, t)
      PROVE  Truthful(m, s)'
  <2>1. slots' = slots /\ summary' = summary
    BY <1>2 DEF addSelfToShift, removeSelfFromShift
  <2>2. t # s => assigned'[s] = assigned[s] /\ told'[m][s] = told[m][s]
    <3>1. \E known \in {slots[t], Free} : told' = [told EXCEPT ![n][t] = known]
      BY <1>2 DEF addSelfToShift, removeSelfFromShift
    <3>2. t # s => told'[m][s] = told[m][s]
      BY <3>1 DEF TypeOK
    <3>3. t # s => assigned'[s] = assigned[s]
      BY <1>2 DEF addSelfToShift, removeSelfFromShift, TypeOK
    <3>. QED
      BY <3>2, <3>3
  <2>3. CASE t # s
    BY <1>1, <2>1, <2>2, <2>3
  <2>4. CASE t = s /\ n # m
    <3>1. told'[m][s] = told[m][s]
      BY <1>2, <2>4 DEF addSelfToShift, removeSelfFromShift, TypeOK
    <3>2. m \in assigned'[s] <=> m \in assigned[s]
      BY <1>2, <2>4 DEF addSelfToShift, removeSelfFromShift, TypeOK
    <3>3. Actual(m, s)' = Actual(m, s)
      BY <2>1, <3>2 DEF Actual, Live
    <3>. QED
      BY <2>1, <3>1, <3>3 DEF Truthful, Net, Diff
  <2>5. CASE t = s /\ n = m
    <3>1. summary[m][s].change = "none"
      BY <1>2, <2>5 DEF Excused, OwnDoing
    <3>2. told'[m][s] = Actual(m, s)'
      BY <1>2, <2>5 DEF addSelfToShift, removeSelfFromShift, TypeOK, Actual, Live
    <3>. QED
      BY <2>1, <3>1, <3>2 DEF Truthful, Net
  <2>. QED
    BY <2>3, <2>4, <2>5
<1>3. ASSUME NEW n \in Members, Send(n) PROVE Truthful(m, s)'
  <2>1. slots' = slots /\ assigned' = assigned
    BY <1>3 DEF Send
  <2>2. CASE n # m
    <3>1. summary'[m] = summary[m] /\ told'[m] = told[m]
      BY <1>3, <2>2 DEF Send, TypeOK
    <3>. QED
      BY <1>1, <2>1, <3>1
  <2>3. CASE n = m
    <3>1. summary'[m][s].change = "none"
      BY <1>3, <2>3 DEF Send, TypeOK, NoSummary, NoEntry
    <3>2. told'[m][s] = Read(summary[m][s], told[m][s])
      BY <1>3, <2>3 DEF Send, TypeOK
    <3>3. Read(summary[m][s], told[m][s]) = Actual(m, s)
      BY DEF Read, Truthful, Net, TypeOK, Entry
    <3>4. Actual(m, s)' = Actual(m, s)
      BY <2>1 DEF Actual, Live
    <3>. QED
      BY <3>1, <3>2, <3>3, <3>4 DEF Truthful, Net
  <2>. QED
    BY <2>2, <2>3
<1>4. ASSUME NEW n \in Members, Cancel(n) PROVE Truthful(m, s)'
  <2>1. CASE n # m
    <3>1. summary'[m] = summary[m]
      BY <1>4, <2>1 DEF Cancel, TypeOK
    <3>. QED
      BY <1>1, <1>4, <3>1 DEF Cancel
  <2>2. CASE n = m
    BY <1>4, <2>2 DEF Excused, Suppressed, Cancel, TypeOK
  <2>. QED
    BY <2>1, <2>2
<1>5. ASSUME NEW form \in Form, CommitSave(form) PROVE Truthful(m, s)'
  BY <1>5, CommitIsNet
<1>6. ASSUME UNCHANGED <<slots, assigned, summary, told>> PROVE Truthful(m, s)'
  BY <1>1, <1>6
<1>7. ASSUME NEW actor \in Members \cup {Office}, BeginSave(actor) PROVE Truthful(m, s)'
  BY <1>6, <1>7 DEF BeginSave
<1>8. CASE AbortSave
  BY <1>6, <1>8 DEF AbortSave
<1>9. ASSUME NEW x \in Optional, Switch(x) PROVE Truthful(m, s)'
  BY <1>6, <1>9 DEF Switch
<1>10. CASE UNCHANGED vars
  BY <1>6, <1>10 DEF vars
<1>. QED
  BY <1>2, <1>3, <1>4, <1>5, <1>7, <1>8, <1>9, <1>10 DEF Next

\* A summary goes on saying exactly what is new to its reader, however often the plan
\* is saved, but for the causes that SummaryIsNetChange names (queueShiftChanges).
THEOREM SummaryStaysNet == Spec => SummaryIsNetChange
<1>1. TypeOK /\ TypeOK' /\ [Next]_vars
      => [\A m \in Members, s \in Shifts :
            Truthful(m, s) /\ ~Truthful(m, s)'
            => \/ OwnDoing(m, s) \/ SignedUpMeanwhile(m, s)
               \/ BackOnChanged(m, s) \/ Suppressed(m)]_vars
  BY StepIsNet DEF Excused
<1>. QED
  BY <1>1, DigestTypeCorrect, PTL DEF Spec, SummaryIsNetChange
=============================================================================
