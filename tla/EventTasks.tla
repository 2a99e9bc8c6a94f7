----------------------------- MODULE EventTasks -----------------------------
(***************************************************************************)
(* The planning board of one event: its tasks, its checklists with their   *)
(* items, the link that makes a task take its status from a checklist, and *)
(* the reminders of the tasks' deadlines.                                  *)
(*                                                                         *)
(* Source: src/server/utils/eventTasks.ts, eventChecklists.ts, myTasks.ts  *)
(* with their routes, and the part of utils/notifications that plans, drops*)
(* and sends the deadline reminders.                                       *)
(*                                                                         *)
(* A request is one transaction at REPEATABLE READ.  Read... takes its     *)
(* snapshot and checks the request; Write... issues its writes, which meet *)
(* the rows as they are then, and commits.  The sweep that plans reminders *)
(* reads the tasks first and inserts the reminders afterwards, without a   *)
(* transaction.                                                            *)
(*                                                                         *)
(* Ids are AUTO_INCREMENT: a row that is "gone" does not come back.        *)
(* Whether a row's wording or position changed is the set "touch" of a     *)
(* form.  One lead time; MaxTouch bounds the size of touch.                *)
(***************************************************************************)
EXTENDS Naturals, FiniteSets, Functions

CONSTANTS
  Tasks,      \* event_tasks.id
  Lists,      \* event_checklists.id
  Items,      \* event_checklist_items.id
  ListOf,     \* the checklist of each item
  Deadlines,  \* values of event_tasks.deadline
  NoDeadline, \* NULL
  NoTask,     \* task_id NULL
  Sessions,   \* concurrent requests
  Overlap,    \* whether requests and the sweep may overlap
  MaxTouch

ASSUME BoardAssumption ==
  /\ ListOf \in [Items -> Lists]
  /\ NoDeadline \in Deadlines
  /\ NoTask \notin Tasks /\ {"absent", "gone"} \cap (Tasks \cup {NoTask}) = {}
  /\ Overlap \in BOOLEAN /\ MaxTouch \in Nat

VARIABLES
  task,      \* event_tasks: status and deadline
  link,      \* event_checklists: task_id
  item,      \* event_checklist_items: is_done
  reminder,  \* notifications of type task.deadline_reminder, by their dedupe_key
  tx,        \* the open transaction of each session: its form and its snapshot
  sweep      \* the sweep: reminders it is about to plan

tables == <<task, link, item, reminder>>
vars == <<task, link, item, reminder, tx, sweep>>

Absent == {"absent", "gone"}
Statuses == {"open", "in_progress", "done"}
TaskRow == [status : Statuses \cup Absent, deadline : Deadlines]
Links == Tasks \cup {NoTask}
Ticks == {"open", "done"}

NoRow == [status |-> "absent", deadline |-> NoDeadline]
NoReminder == [state |-> "none", deadline |-> NoDeadline]
NoTx == [op |-> "none"]
NoSweep == [busy |-> FALSE, plan |-> {}]

Init ==
  /\ task = [t \in Tasks |-> NoRow]
  /\ link = [c \in Lists |-> "absent"]
  /\ item = [i \in Items |-> "absent"]
  /\ reminder = [t \in Tasks |-> NoReminder]
  /\ tx = [u \in Sessions |-> NoTx]
  /\ sweep = NoSweep

-----------------------------------------------------------------------------
(* Reading: what a transaction's snapshot shows, and what it checks.       *)

Snapshot == [task |-> task, link |-> link, item |-> item]

TasksIn(snap) == {t \in Tasks : snap.task[t].status \notin Absent}
ListsIn(snap) == {c \in Lists : snap.link[c] \notin Absent}
ItemsIn(snap) == {i \in Items : snap.item[i] \notin Absent}

getChecklistControlledTaskIds(snap) == {snap.link[c] : c \in ListsIn(snap)} \ {NoTask}

Alone(u) ==
  Overlap \/ (~sweep.busy /\ \A v \in Sessions \ {u} : tx[v].op = "none")

Begin(u, request) ==
  /\ tx[u].op = "none" /\ Alone(u)
  /\ tx' = [tx EXCEPT ![u] = request]
  /\ UNCHANGED <<tables, sweep>>

Touches(S) == {T \in SUBSET S : Cardinality(T) <= MaxTouch}

\* A new row gets an id that no row and no other open form has.
NewTasks == {t \in Tasks :
  /\ task[t].status = "absent"
  /\ \A v \in Sessions : tx[v].op = "tasks" => t \notin DOMAIN tx[v].rows}
NewLists == {c \in Lists :
  /\ link[c] = "absent"
  /\ \A v \in Sessions : tx[v].op = "lists" => c \notin DOMAIN tx[v].links}
NewItems == {i \in Items :
  /\ item[i] = "absent"
  /\ \A v \in Sessions : tx[v].op = "lists" => i \notin DOMAIN tx[v].ticks}

\* PUT /api/events/:id/tasks: the whole list of the event's tasks.
ReadTasks(u) ==
  \E T \in SUBSET (TasksIn(Snapshot) \cup NewTasks) :
  \E rows \in [T -> [status : Statuses, deadline : Deadlines]], touch \in Touches(T) :
    Begin(u, [op |-> "tasks", snap |-> Snapshot, rows |-> rows, touch |-> touch])

\* Every checklist has an item, its linked task exists and no two share one.
AcceptedChecklists(snap, links, ticks) ==
  /\ {ListOf[i] : i \in DOMAIN ticks} = DOMAIN links
  /\ \A c \in DOMAIN links : links[c] \in TasksIn(snap) \cup {NoTask}
  /\ \A c, d \in DOMAIN links : links[c] = links[d] /\ c # d => links[c] = NoTask

\* PUT /api/events/:id/checklists: all checklists of the event with their items.
ReadChecklists(u) ==
  \E I \in SUBSET {i \in ItemsIn(Snapshot) \cup NewItems :
                     ListOf[i] \in ListsIn(Snapshot) \cup NewLists} :
  \E ticks \in [I -> Ticks], links \in [{ListOf[i] : i \in I} -> Links] :
  \E touch \in Touches(I \cup DOMAIN links) :
    /\ AcceptedChecklists(Snapshot, links, ticks)
    /\ Begin(u, [op |-> "lists", snap |-> Snapshot, links |-> links, ticks |-> ticks,
                 touch |-> touch])

\* PUT /api/checklist-items/:id/done: one item.
ReadItemDone(u) ==
  \E i \in ItemsIn(Snapshot), tick \in Ticks :
    Begin(u, [op |-> "tick", snap |-> Snapshot, item |-> i, tick |-> tick])

isTaskChecklistControlled(t) == \E c \in Lists : link[c] = t

\* PUT /api/tasks/:id/status: one task, unless a checklist controls it.
ReadTaskStatus(u) ==
  \E t \in TasksIn(Snapshot), status \in Statuses :
    /\ ~isTaskChecklistControlled(t)
    /\ Begin(u, [op |-> "status", snap |-> Snapshot, task |-> t, status |-> status])

-----------------------------------------------------------------------------
(* Writing.                                                                *)

End(u) == tx' = [tx EXCEPT ![u] = NoTx]

GoneRow == [status |-> "gone", deadline |-> NoDeadline]

\* dropFutureReminders: what has been sent stays, and keeps its dedupe_key.
Drop(S) ==
  reminder' = [t \in Tasks |-> IF t \in S /\ reminder[t].state = "scheduled"
                               THEN NoReminder ELSE reminder[t]]

\* A linked task keeps the status that the snapshot shows.
SavedRow(form, t) ==
  IF t \in getChecklistControlledTaskIds(form.snap)
  THEN [form.rows[t] EXCEPT !.status = form.snap.task[t].status]
  ELSE form.rows[t]

KeptTasks(form) == DOMAIN form.rows \cap TasksIn(form.snap)
RemovedTasks(form) == TasksIn(form.snap) \ DOMAIN form.rows

TaskAfter(form, t) ==
  IF t \in DOMAIN form.rows \ TasksIn(form.snap) THEN form.rows[t]
  ELSE IF task[t].status \in Absent THEN task[t]
  ELSE IF t \in RemovedTasks(form) THEN GoneRow
  ELSE IF t \in KeptTasks(form) /\ (t \in form.touch \/ SavedRow(form, t) # form.snap.task[t])
  THEN SavedRow(form, t)
  ELSE task[t]

MovedDeadlines_none(form) == {}

MovedDeadlines(form) ==
  {t \in KeptTasks(form) : form.rows[t].deadline # form.snap.task[t].deadline}

Unlinked_never(removed, c) == link[c]

\* Deleting a task sets the link to it to NULL.
Unlinked(removed, c) == IF link[c] \in removed THEN NoTask ELSE link[c]

\* replaceEventTasks.
WriteTasks(u) ==
  /\ tx[u].op = "tasks"
  /\ LET form == tx[u] IN
       /\ task' = [t \in Tasks |-> TaskAfter(form, t)]
       /\ link' = [c \in Lists |-> Unlinked(RemovedTasks(form), c)]
       /\ Drop(MovedDeadlines(form))
  /\ End(u)
  /\ UNCHANGED <<item, sweep>>

\* What the transaction's last SELECT sees of a row that was "old" in its snapshot
\* and that it set to "new": an UPDATE that finds the row gone, or every column as
\* it should be, changes nothing, and the snapshot shows through.
Seen(old, new, current, touched) ==
  IF current = "gone" \/ (current = new /\ ~touched) THEN old ELSE new

Derived_anyTick(done, items) ==
  IF \E i \in items : done[i] = "done" THEN "done" ELSE "open"

\* The status that ticks give to the task of a checklist with these items.
Derived(done, items) ==
  IF items # {} /\ \A i \in items : done[i] = "done" THEN "done"
  ELSE IF \E i \in items : done[i] = "done" THEN "in_progress"
  ELSE "open"

\* syncLinkedTaskStatuses: the status of each linked task, from the links and the
\* ticks that its SELECT sees.
Synced(links, done) ==
  [t \in {links[c] : c \in DOMAIN links} \cap Tasks |->
     Derived(done, {i \in DOMAIN done : ListOf[i] \in DOMAIN links /\ links[ListOf[i]] = t})]

Silenced_whenChanged(status) ==
  {t \in DOMAIN status : status[t] = "done" /\ task[t].status # "done"}

\* The tasks whose reminders are dropped.
Silenced(status) == {t \in DOMAIN status : status[t] = "done"}

SyncTasks(status) ==
  /\ task' = [t \in Tasks |->
                IF t \in DOMAIN status /\ task[t].status \notin Absent
                THEN [task[t] EXCEPT !.status = status[t]] ELSE task[t]]
  /\ Drop(Silenced(status))

OldLists(form) == DOMAIN form.links \cap ListsIn(form.snap)
OldItems(form) == DOMAIN form.ticks \cap ItemsIn(form.snap)
Relinked(form) ==
  {c \in OldLists(form) : c \in form.touch \/ form.links[c] # form.snap.link[c]}
Reticked(form) ==
  {i \in OldItems(form) : i \in form.touch \/ form.ticks[i] # form.snap.item[i]}

LinkAfter(form, c) ==
  IF c \in DOMAIN form.links \ OldLists(form) THEN form.links[c]
  ELSE IF link[c] \in Absent THEN link[c]
  ELSE IF c \in ListsIn(form.snap) \ DOMAIN form.links THEN "gone"
  ELSE IF c \in Relinked(form) THEN form.links[c]
  ELSE link[c]

ItemAfter(form, i) ==
  IF i \in DOMAIN form.ticks \ OldItems(form) THEN form.ticks[i]
  ELSE IF item[i] \in Absent THEN item[i]
  ELSE IF \/ ListOf[i] \in ListsIn(form.snap) \ DOMAIN form.links
          \/ i \in ItemsIn(form.snap) \ DOMAIN form.ticks THEN "gone"
  ELSE IF i \in Reticked(form) THEN form.ticks[i]
  ELSE item[i]

\* uq_checklist_task and the foreign keys, statement by statement: in some order
\* of the form no checklist takes a task that another one still has, and every
\* row referred to is there.
KeysAllow(form) ==
  LET writes == Relinked(form) \cup (DOMAIN form.links \ OldLists(form)) IN
  /\ \E order \in [Lists -> 1 .. Cardinality(Lists)] :
       \A c \in writes, d \in Lists :
         c # d /\ link[d] = form.links[c] /\ link[d] \in Tasks =>
           LinkAfter(form, d) = "gone" \/ (d \in writes /\ order[d] < order[c])
  /\ \A c, d \in Lists :
       LinkAfter(form, c) = LinkAfter(form, d) /\ c # d => LinkAfter(form, c) \notin Tasks
  /\ \A c \in writes : form.links[c] # NoTask => task[form.links[c]].status \notin Absent
  /\ \A i \in DOMAIN form.ticks \ OldItems(form) :
       ListOf[i] \in OldLists(form) => link[ListOf[i]] # "gone"

\* The checklists and items that the transaction's SELECT finds: those of the form,
\* and those it meant to delete but that somebody else had deleted before.
SeenLinks(form) ==
  [c \in DOMAIN form.links \cup {d \in ListsIn(form.snap) : link[d] = "gone"} |->
     IF c \notin OldLists(form)
     THEN IF c \in DOMAIN form.links THEN form.links[c] ELSE form.snap.link[c]
     ELSE Seen(form.snap.link[c], form.links[c], link[c], c \in form.touch)]
SeenTicks(form) ==
  [i \in DOMAIN form.ticks \cup {j \in ItemsIn(form.snap) : item[j] = "gone"} |->
     IF i \notin OldItems(form)
     THEN IF i \in DOMAIN form.ticks THEN form.ticks[i] ELSE form.snap.item[i]
     ELSE Seen(form.snap.item[i], form.ticks[i], item[i], i \in form.touch)]

\* replaceEventChecklists.
WriteChecklists(u) ==
  /\ tx[u].op = "lists"
  /\ KeysAllow(tx[u])
  /\ link' = [c \in Lists |-> LinkAfter(tx[u], c)]
  /\ item' = [i \in Items |-> ItemAfter(tx[u], i)]
  /\ SyncTasks(Synced(SeenLinks(tx[u]), SeenTicks(tx[u])))
  /\ End(u)
  /\ UNCHANGED sweep

\* The list of the ticked item, as the snapshot shows it.
LinkOfItem(form) ==
  LET c == ListOf[form.item] IN
  [d \in {c} \cap ListsIn(form.snap) |-> form.snap.link[d]]

TicksOfItem(form) ==
  [i \in ItemsIn(form.snap) |->
     IF i = form.item THEN Seen(form.snap.item[i], form.tick, item[i], FALSE)
     ELSE form.snap.item[i]]

\* setChecklistItemDone.
WriteItemDone(u) ==
  /\ tx[u].op = "tick"
  /\ item' = [item EXCEPT ![tx[u].item] = IF @ = "gone" THEN @ ELSE tx[u].tick]
  /\ SyncTasks(Synced(LinkOfItem(tx[u]), TicksOfItem(tx[u])))
  /\ End(u)
  /\ UNCHANGED <<link, sweep>>

\* setTaskStatus.
WriteTaskStatus(u) ==
  /\ tx[u].op = "status"
  /\ SyncTasks([t \in {tx[u].task} |-> tx[u].status])
  /\ End(u)
  /\ UNCHANGED <<link, item, sweep>>

\* A duplicate key, a missing row, a deadlock or any other error.
Rollback(u) == tx[u].op # "none" /\ End(u) /\ UNCHANGED <<tables, sweep>>

-----------------------------------------------------------------------------
(* Reminders.                                                              *)

\* sweepTaskDeadlineReminders: the planned keys and the tasks are read first.
BeginSweep ==
  /\ ~sweep.busy /\ (Overlap \/ \A u \in Sessions : tx[u].op = "none")
  /\ sweep' = [busy |-> TRUE,
               plan |-> {[task |-> t, deadline |-> task[t].deadline] :
                           t \in {s \in Tasks : /\ task[s].status \in {"open", "in_progress"}
                                                /\ task[s].deadline # NoDeadline
                                                /\ reminder[s].state = "none"}}]
  /\ UNCHANGED <<tables, tx>>

\* enqueueNotification: a key that is there already is left as it is.
PlanReminder ==
  \E p \in sweep.plan :
    /\ reminder' = [reminder EXCEPT ![p.task] =
                      IF @.state = "none"
                      THEN [state |-> "scheduled", deadline |-> p.deadline] ELSE @]
    /\ sweep' = [sweep EXCEPT !.plan = @ \ {p}]
    /\ UNCHANGED <<task, link, item, tx>>

EndSweep ==
  /\ sweep.busy /\ sweep.plan = {}
  /\ sweep' = NoSweep
  /\ UNCHANGED <<tables, tx>>

\* The pass that follows the sweep sends what is due.  A task that is finished by
\* then is not in the person's list: personalizeReminder finds nothing to fold
\* and the reminder goes out as planned.
SendReminder(t) ==
  /\ ~sweep.busy /\ reminder[t].state = "scheduled"
  /\ reminder' = [reminder EXCEPT ![t].state = "sent"]
  /\ UNCHANGED <<task, link, item, tx, sweep>>

-----------------------------------------------------------------------------
Read(u) == ReadTasks(u) \/ ReadChecklists(u) \/ ReadItemDone(u) \/ ReadTaskStatus(u)
Write(u) == WriteTasks(u) \/ WriteChecklists(u) \/ WriteItemDone(u) \/ WriteTaskStatus(u)

Next ==
  \/ \E u \in Sessions : Read(u) \/ Write(u) \/ Rollback(u)
  \/ BeginSweep \/ PlanReminder \/ EndSweep
  \/ \E t \in Tasks : SendReminder(t)

Spec == Init /\ [][Next]_vars
-----------------------------------------------------------------------------
(* Properties.                                                             *)

PartialTo(S, T) == UNION {[D -> T] : D \in SUBSET S}

SnapshotSet == [task : [Tasks -> TaskRow], link : [Lists -> Links \cup Absent],
                item : [Items -> Ticks \cup Absent]]
TasksForm == [op : {"tasks"}, snap : SnapshotSet, touch : SUBSET Tasks,
              rows : PartialTo(Tasks, [status : Statuses, deadline : Deadlines])]
ListsForm == [op : {"lists"}, snap : SnapshotSet, touch : SUBSET (Items \cup Lists),
              links : PartialTo(Lists, Links), ticks : PartialTo(Items, Ticks)]
TickForm == [op : {"tick"}, snap : SnapshotSet, item : Items, tick : Ticks]
StatusForm == [op : {"status"}, snap : SnapshotSet, task : Tasks, status : Statuses]
ReminderSet == [state : {"none", "scheduled", "sent"}, deadline : Deadlines]
PlanSet == [task : Tasks, deadline : Deadlines]

\* The type invariant, with the keys of the schema: a link refers to a task that
\* exists and that no other checklist is linked to, an item to a checklist.
TypeOK ==
  /\ task \in [Tasks -> TaskRow]
  /\ link \in [Lists -> Links \cup Absent]
  /\ item \in [Items -> Ticks \cup Absent]
  /\ \A c \in Lists : link[c] \in Tasks => task[link[c]].status \in Statuses
  /\ \A c, d \in Lists : link[c] \in Tasks /\ link[c] = link[d] => c = d
  /\ \A i \in Items : item[i] \in Ticks => link[ListOf[i]] \in Links
  /\ reminder \in [Tasks -> ReminderSet]
  /\ tx \in [Sessions -> {NoTx} \cup TasksForm \cup ListsForm \cup TickForm \cup StatusForm]
  /\ sweep \in [busy : BOOLEAN, plan : SUBSET PlanSet]

\* The items that a checklist has now.
HeldItems(c) == {i \in Items : ListOf[i] = c /\ item[i] \in Ticks}
TicksOf(c) == {item[i] : i \in HeldItems(c)}

\* A task that a checklist is linked to is done when all its items are, and open
\* when none is, whoever saved, ticked, linked or unlinked last (eventChecklists.ts 346-401,
\* eventTasks.ts 378-383, myTasks.ts 158-166).
LinkedStatusAgrees ==
  \A c \in Lists : link[c] \in Tasks =>
    /\ TicksOf(c) = {"done"} <=> task[link[c]].status = "done"
    /\ TicksOf(c) = {"open"} <=> task[link[c]].status = "open"

\* A task that its checklist has finished leaves no reminder behind that could
\* still go out, also when it was linked after it was finished or is moved while
\* finished (eventChecklists.ts 390-396).
FinishedByChecklistIsSilent ==
  \A c \in Lists :
    link[c] \in Tasks /\ task[link[c]].status = "done" =>
      reminder[link[c]].state # "scheduled"

\* A reminder that waits is about the deadline its task has now (eventTasks.ts
\* 394, 424-426).
ReminderMatchesDeadline ==
  \A t \in Tasks :
    reminder[t].state = "scheduled" =>
      task[t].status = "gone" \/ reminder[t].deadline = task[t].deadline

\* The inductive invariant behind these properties when requests do not overlap:
\* what an open request has read is what the tables hold, and so is what the sweep
\* is about to plan.
RequestInv(u) ==
  /\ tx[u].snap = Snapshot /\ ~sweep.busy
  /\ \A v \in Sessions \ {u} : tx[v].op = "none"
  /\ tx[u].op = "tasks" => \A t \in DOMAIN tx[u].rows : task[t].status # "gone"
  /\ tx[u].op = "lists" =>
       /\ AcceptedChecklists(tx[u].snap, tx[u].links, tx[u].ticks)
       /\ \A c \in DOMAIN tx[u].links : link[c] # "gone"
       /\ \A i \in DOMAIN tx[u].ticks : item[i] # "gone"
  /\ tx[u].op = "tick" => item[tx[u].item] \in Ticks
  /\ tx[u].op = "status" => \A c \in Lists : link[c] # tx[u].task

SerialInv ==
  /\ TypeOK
  /\ \A c \in Lists : link[c] \in Links => HeldItems(c) # {}
  /\ LinkedStatusAgrees /\ FinishedByChecklistIsSilent /\ ReminderMatchesDeadline
  /\ \A t \in Tasks : task[t].status = "absent" => reminder[t].state = "none"
  /\ \A u \in Sessions : tx[u].op # "none" => RequestInv(u)
  /\ ~sweep.busy => sweep.plan = {}
  /\ \A p \in sweep.plan :
       task[p.task].status \in {"open", "in_progress"} /\ task[p.task].deadline = p.deadline
=============================================================================
