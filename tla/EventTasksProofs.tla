-------------------------- MODULE EventTasksProofs --------------------------
(* Requests that do not overlap keep the linked tasks and the reminders in *)
(* step with the checklists, for any board.                                *)
EXTENDS EventTasks, TLAPS

-----------------------------------------------------------------------------
(* What a form saves when nothing has changed since it was read.           *)

\* A saved list of tasks: kept rows are saved, the others are gone.
LEMMA SavedTasks ==
    ASSUME BoardAssumption, SerialInv, NEW u \in Sessions, WriteTasks(u)
    PROVE  \A t \in Tasks :
             task'[t] = IF t \in DOMAIN tx[u].rows
                        THEN IF task[t].status \in Absent THEN tx[u].rows[t]
                             ELSE SavedRow(tx[u], t)
                        ELSE IF task[t].status \in Absent THEN task[t] ELSE GoneRow
<1> DEFINE form == tx[u]
<1>1. form.op = "tasks" /\ form.snap = Snapshot /\ Snapshot.task = task
  BY DEF WriteTasks, SerialInv, RequestInv, Snapshot
<1>2. TasksIn(form.snap) = {t \in Tasks : task[t].status \notin Absent}
  BY <1>1 DEF TasksIn
<1>3. \A t \in Tasks : task'[t] = TaskAfter(form, t)
  BY DEF WriteTasks
<1>4. QED
  BY <1>1, <1>2, <1>3 DEF TaskAfter, KeptTasks, RemovedTasks, GoneRow, Absent, RequestInv, SerialInv

\* A saved set of checklists: exactly the lists and items of the form remain.
LEMMA SavedChecklists ==
    ASSUME BoardAssumption, SerialInv, NEW u \in Sessions, WriteChecklists(u)
    PROVE  /\ \A c \in Lists :
                link'[c] = IF c \in DOMAIN tx[u].links THEN tx[u].links[c]
                           ELSE IF link[c] \in Absent THEN link[c] ELSE "gone"
           /\ \A i \in Items :
                item'[i] = IF i \in DOMAIN tx[u].ticks THEN tx[u].ticks[i]
                           ELSE IF item[i] \in Absent THEN item[i] ELSE "gone"
<1> DEFINE form == tx[u]
<1>1. form.op = "lists" /\ form.snap = Snapshot
      /\ Snapshot.link = link /\ Snapshot.item = item
  BY DEF WriteChecklists, SerialInv, RequestInv, Snapshot
<1>2. /\ ListsIn(form.snap) = {c \in Lists : link[c] \notin Absent}
      /\ ItemsIn(form.snap) = {i \in Items : item[i] \notin Absent}
  BY <1>1 DEF ListsIn, ItemsIn
<1>3. /\ \A c \in Lists : link'[c] = LinkAfter(form, c)
      /\ \A i \in Items : item'[i] = ItemAfter(form, i)
  BY DEF WriteChecklists
<1>4. /\ AcceptedChecklists(form.snap, form.links, form.ticks)
      /\ \A c \in DOMAIN form.links : link[c] # "gone"
      /\ \A i \in DOMAIN form.ticks : item[i] # "gone"
  BY <1>1 DEF SerialInv, RequestInv
<1>5. \A i \in DOMAIN form.ticks : ListOf[i] \in DOMAIN form.links
  BY <1>4 DEF AcceptedChecklists
<1>6. \A c \in Lists :
        LinkAfter(form, c) = IF c \in DOMAIN form.links THEN form.links[c]
                             ELSE IF link[c] \in Absent THEN link[c] ELSE "gone"
  BY <1>1, <1>2, <1>4 DEF LinkAfter, OldLists, Relinked, Absent
<1>7. \A i \in Items :
        ItemAfter(form, i) = IF i \in DOMAIN form.ticks THEN form.ticks[i]
                             ELSE IF item[i] \in Absent THEN item[i] ELSE "gone"
  BY <1>1, <1>2, <1>4, <1>5 DEF ItemAfter, OldItems, Reticked, Absent
<1>8. QED
  BY <1>3, <1>6, <1>7

\* The transaction's own SELECT sees the lists and the ticks that it saves.
LEMMA SeenAsSaved ==
    ASSUME BoardAssumption, SerialInv, NEW u \in Sessions, WriteChecklists(u)
    PROVE  /\ DOMAIN SeenLinks(tx[u]) = DOMAIN tx[u].links
           /\ \A c \in DOMAIN tx[u].links : SeenLinks(tx[u])[c] = tx[u].links[c]
           /\ DOMAIN SeenTicks(tx[u]) = DOMAIN tx[u].ticks
           /\ \A i \in DOMAIN tx[u].ticks : SeenTicks(tx[u])[i] = tx[u].ticks[i]
<1> DEFINE form == tx[u]
<1>1. form.op = "lists" /\ form.snap = Snapshot
      /\ Snapshot.link = link /\ Snapshot.item = item
  BY DEF WriteChecklists, SerialInv, RequestInv, Snapshot
<1>2. /\ ListsIn(form.snap) = {c \in Lists : link[c] \notin Absent}
      /\ ItemsIn(form.snap) = {i \in Items : item[i] \notin Absent}
  BY <1>1 DEF ListsIn, ItemsIn
<1>3. /\ {d \in ListsIn(form.snap) : link[d] = "gone"} = {}
      /\ {j \in ItemsIn(form.snap) : item[j] = "gone"} = {}
  BY <1>2 DEF Absent
<1>4. /\ \A c \in DOMAIN form.links : link[c] # "gone"
      /\ \A i \in DOMAIN form.ticks : item[i] # "gone"
  BY <1>1 DEF SerialInv, RequestInv
<1>5. /\ DOMAIN SeenLinks(form) = DOMAIN form.links
      /\ DOMAIN SeenTicks(form) = DOMAIN form.ticks
  BY <1>3 DEF SeenLinks, SeenTicks
<1>6. \A c \in DOMAIN form.links : SeenLinks(form)[c] = form.links[c]
  BY <1>1, <1>3, <1>4 DEF SeenLinks, Seen
<1>7. \A i \in DOMAIN form.ticks : SeenTicks(form)[i] = form.ticks[i]
  BY <1>1, <1>3, <1>4 DEF SeenTicks, Seen
<1>8. QED
  BY <1>5, <1>6, <1>7

-----------------------------------------------------------------------------
(* The status that a checklist gives.                                      *)

\* Only the ticks of the items in question matter.
LEMMA DerivedFrom ==
    ASSUME NEW f, NEW g, NEW S, \A i \in S : f[i] = g[i]
    PROVE  Derived(f, S) = Derived(g, S)
  BY DEF Derived

\* Done means that every item is ticked, open that none is.
LEMMA DerivedMeans ==
    ASSUME NEW f, NEW S, S # {}, \A i \in S : f[i] \in Ticks
    PROVE  /\ Derived(f, S) \in Statuses
           /\ {f[i] : i \in S} = {"done"} <=> Derived(f, S) = "done"
           /\ {f[i] : i \in S} = {"open"} <=> Derived(f, S) = "open"
<1>1. {f[i] : i \in S} = {"done"} <=> \A i \in S : f[i] = "done"
  OBVIOUS
<1>2. {f[i] : i \in S} = {"open"} <=> \A i \in S : f[i] # "done"
  BY DEF Ticks
<1>3. QED
  BY <1>1, <1>2 DEF Derived, Statuses

\* A saved set of checklists gives every linked task its status, drops the
\* reminders of the finished ones and leaves the other tasks alone.
LEMMA SyncedAsSaved ==
    ASSUME BoardAssumption, SerialInv, NEW u \in Sessions, WriteChecklists(u)
    PROVE  /\ \A c \in DOMAIN tx[u].links : tx[u].links[c] \in Tasks =>
                task'[tx[u].links[c]] =
                  [task[tx[u].links[c]] EXCEPT !.status =
                     Derived(tx[u].ticks, {i \in DOMAIN tx[u].ticks : ListOf[i] = c})]
           /\ \A t \in Tasks : (\A c \in DOMAIN tx[u].links : tx[u].links[c] # t) =>
                task'[t] = task[t]
           /\ \A t \in Tasks : reminder'[t] \in {reminder[t], NoReminder}
           /\ \A c \in DOMAIN tx[u].links :
                tx[u].links[c] \in Tasks /\ task'[tx[u].links[c]].status = "done" =>
                  reminder'[tx[u].links[c]].state # "scheduled"
<1> DEFINE form == tx[u]
           links == form.links
           ticks == form.ticks
           status == Synced(SeenLinks(form), SeenTicks(form))
           Of(c) == {i \in DOMAIN ticks : ListOf[i] = c}
<1>1. /\ form.op = "lists" /\ form.snap = Snapshot /\ Snapshot.task = task
      /\ AcceptedChecklists(form.snap, links, ticks)
  BY DEF WriteChecklists, SerialInv, RequestInv, Snapshot
<1>2. /\ \A c \in DOMAIN links : links[c] \in Tasks => task[links[c]].status \notin Absent
      /\ \A c, d \in DOMAIN links : links[c] = links[d] /\ links[c] \in Tasks => c = d
      /\ \A i \in DOMAIN ticks : ListOf[i] \in DOMAIN links
  BY <1>1 DEF AcceptedChecklists, TasksIn, BoardAssumption
<1>3. DOMAIN status = {links[c] : c \in DOMAIN links} \cap Tasks
  BY SeenAsSaved DEF Synced
<1>4. ASSUME NEW c \in DOMAIN links, links[c] \in Tasks
      PROVE  status[links[c]] = Derived(ticks, Of(c))
  <2>1. status[links[c]] =
          Derived(SeenTicks(form),
                  {i \in DOMAIN SeenTicks(form) :
                     /\ ListOf[i] \in DOMAIN SeenLinks(form)
                     /\ SeenLinks(form)[ListOf[i]] = links[c]})
    BY <1>3, <1>4, SeenAsSaved DEF Synced
  <2>2. {i \in DOMAIN SeenTicks(form) :
                     /\ ListOf[i] \in DOMAIN SeenLinks(form)
                     /\ SeenLinks(form)[ListOf[i]] = links[c]} = Of(c)
    BY <1>2, <1>4, SeenAsSaved
  <2>3. Derived(SeenTicks(form), Of(c)) = Derived(ticks, Of(c))
    BY SeenAsSaved, DerivedFrom
  <2>4. QED
    BY <2>1, <2>2, <2>3
<1>5. /\ \A t \in Tasks : task'[t] = IF t \in DOMAIN status /\ task[t].status \notin Absent
                                     THEN [task[t] EXCEPT !.status = status[t]] ELSE task[t]
      /\ \A t \in Tasks : reminder'[t] =
                            IF t \in Silenced(status) /\ reminder[t].state = "scheduled"
                            THEN NoReminder ELSE reminder[t]
  BY DEF WriteChecklists, SyncTasks, Drop
<1>6. \A t \in Tasks : task[t] \in TaskRow
  BY DEF SerialInv, TypeOK
<1>7. \A c \in DOMAIN links : links[c] \in Tasks =>
        task'[links[c]] = [task[links[c]] EXCEPT !.status = Derived(ticks, Of(c))]
  BY <1>2, <1>3, <1>4, <1>5
<1>8. \A t \in Tasks : (\A c \in DOMAIN links : links[c] # t) => task'[t] = task[t]
  BY <1>3, <1>5
<1>9. \A c \in DOMAIN links :
        links[c] \in Tasks /\ task'[links[c]].status = "done" =>
          reminder'[links[c]].state # "scheduled"
  <2> SUFFICES ASSUME NEW c \in DOMAIN links, links[c] \in Tasks,
                      task'[links[c]].status = "done"
               PROVE  reminder'[links[c]].state # "scheduled"
    OBVIOUS
  <2>1. status[links[c]] = "done" /\ links[c] \in DOMAIN status
    BY <1>3, <1>4, <1>6, <1>7 DEF TaskRow
  <2>2. links[c] \in Silenced(status)
    BY <2>1 DEF Silenced
  <2>3. QED
    BY <1>5, <2>2 DEF NoReminder
<1>10. QED
  BY <1>5, <1>7, <1>8, <1>9

\* A tick gives the linked task the status of the items as they are with the tick.
LEMMA TickedAsSaved ==
    ASSUME BoardAssumption, SerialInv, NEW u \in Sessions, WriteItemDone(u),
           NEW c \in Lists, c = ListOf[tx[u].item]
    PROVE  /\ link[c] \in Links /\ tx[u].item \in Items
           /\ item' = [item EXCEPT ![tx[u].item] = tx[u].tick]
           /\ link[c] \in Tasks =>
                /\ task'[link[c]] =
                     [task[link[c]] EXCEPT !.status = Derived(item', HeldItems(c)')]
                /\ task'[link[c]].status = "done" => reminder'[link[c]].state # "scheduled"
           /\ \A t \in Tasks : t # link[c] => task'[t] = task[t]
           /\ \A t \in Tasks : reminder'[t] \in {reminder[t], NoReminder}
<1> DEFINE form == tx[u]
           done == TicksOfItem(form)
           status == Synced(LinkOfItem(form), done)
<1>1. /\ form.op = "tick" /\ form.snap = Snapshot /\ item[form.item] \in Ticks
      /\ Snapshot.link = link /\ Snapshot.item = item
  BY DEF WriteItemDone, SerialInv, RequestInv, Snapshot
<1>2. form.item \in Items /\ form.tick \in Ticks
  <2>1. tx[u] \in TickForm
    BY <1>1 DEF SerialInv, TypeOK, NoTx, TasksForm, ListsForm, StatusForm
  <2>2. QED
    BY <2>1 DEF TickForm
<1>3. link[c] \in Links /\ link[c] \notin Absent
  BY <1>1, <1>2 DEF SerialInv, TypeOK, BoardAssumption, Links, Absent
<1>4. /\ ListsIn(form.snap) = {d \in Lists : link[d] \notin Absent}
      /\ ItemsIn(form.snap) = {i \in Items : item[i] \in Ticks}
  BY <1>1 DEF ListsIn, ItemsIn, SerialInv, TypeOK, Absent, Ticks
<1>5. DOMAIN LinkOfItem(form) = {c} /\ LinkOfItem(form)[c] = link[c]
  BY <1>1, <1>3, <1>4 DEF LinkOfItem
<1>6. item' = [item EXCEPT ![form.item] = form.tick]
  BY <1>1, <1>2 DEF WriteItemDone, Ticks
<1>7. /\ DOMAIN done = {i \in Items : item[i] \in Ticks}
      /\ \A i \in DOMAIN done : done[i] = item'[i]
  BY <1>1, <1>2, <1>4, <1>6 DEF TicksOfItem, Seen, SerialInv, TypeOK, Ticks
<1>8. HeldItems(c)' = {i \in DOMAIN done : ListOf[i] = c}
  BY <1>1, <1>2, <1>6, <1>7 DEF HeldItems, SerialInv, TypeOK
<1>9. DOMAIN status = {link[c]} \cap Tasks
  BY <1>5 DEF Synced
<1>10. link[c] \in Tasks => status[link[c]] = Derived(item', HeldItems(c)')
  <2> SUFFICES ASSUME link[c] \in Tasks PROVE status[link[c]] = Derived(item', HeldItems(c)')
    OBVIOUS
  <2>1. status[link[c]] = Derived(done, {i \in DOMAIN done :
                            ListOf[i] \in DOMAIN LinkOfItem(form)
                            /\ LinkOfItem(form)[ListOf[i]] = link[c]})
    BY <1>9 DEF Synced
  <2>2. {i \in DOMAIN done : ListOf[i] \in DOMAIN LinkOfItem(form)
                             /\ LinkOfItem(form)[ListOf[i]] = link[c]} = HeldItems(c)'
    BY <1>5, <1>8
  <2>3. Derived(done, HeldItems(c)') = Derived(item', HeldItems(c)')
    BY <1>7, <1>8, DerivedFrom
  <2>4. QED
    BY <2>1, <2>2, <2>3
<1>11. /\ \A t \in Tasks : task'[t] = IF t \in DOMAIN status /\ task[t].status \notin Absent
                                     THEN [task[t] EXCEPT !.status = status[t]] ELSE task[t]
       /\ \A t \in Tasks : reminder'[t] =
                            IF t \in Silenced(status) /\ reminder[t].state = "scheduled"
                            THEN NoReminder ELSE reminder[t]
  BY DEF WriteItemDone, SyncTasks, Drop
<1>12. link[c] \in Tasks =>
         task'[link[c]] = [task[link[c]] EXCEPT !.status = Derived(item', HeldItems(c)')]
  <2>1. link[c] \in Tasks => task[link[c]].status \notin Absent
    BY DEF SerialInv, TypeOK, Statuses, Absent
  <2>2. QED
    BY <1>9, <1>10, <1>11, <2>1
<1>13. link[c] \in Tasks /\ task'[link[c]].status = "done" =>
         reminder'[link[c]].state # "scheduled"
  <2> SUFFICES ASSUME link[c] \in Tasks, task'[link[c]].status = "done"
               PROVE  reminder'[link[c]].state # "scheduled"
    OBVIOUS
  <2>1. status[link[c]] = "done"
    BY <1>10, <1>12 DEF SerialInv, TypeOK, TaskRow
  <2>2. QED
    BY <1>9, <1>11, <2>1 DEF Silenced, NoReminder
<1>14. QED
  BY <1>2, <1>3, <1>6, <1>9, <1>11, <1>12, <1>13

-----------------------------------------------------------------------------
(* SerialInv is inductive.                                                 *)

\* What relates the tables to each other stays true while they stay as they are.
LEMMA TablesKept ==
    ASSUME SerialInv, UNCHANGED <<task, link, item, reminder>>
    PROVE  /\ (\A t \in Tasks : task[t].status = "absent" => reminder[t].state = "none")'
           /\ (\A c \in Lists : link[c] \in Links => HeldItems(c) # {})'
           /\ LinkedStatusAgrees' /\ FinishedByChecklistIsSilent' /\ ReminderMatchesDeadline'
<1>1. \A c \in Lists : HeldItems(c)' = HeldItems(c) /\ TicksOf(c)' = TicksOf(c)
  BY DEF HeldItems, TicksOf
<1>2. LinkedStatusAgrees'
  BY <1>1 DEF SerialInv, LinkedStatusAgrees
<1>3. QED
  BY <1>1, <1>2 DEF SerialInv, FinishedByChecklistIsSilent, ReminderMatchesDeadline

\* A request begins with what the tables hold.
LEMMA ReadStep ==
    ASSUME BoardAssumption, ~Overlap, SerialInv, NEW u \in Sessions, Read(u)
    PROVE  SerialInv'
<1>1. /\ tx[u].op = "none" /\ ~sweep.busy
      /\ \A v \in Sessions : tx[v].op = "none"
      /\ UNCHANGED <<task, link, item, reminder, sweep>>
  BY DEF Read, ReadTasks, ReadChecklists, ReadItemDone, ReadTaskStatus, Begin, Alone, tables
<1>2. Snapshot \in SnapshotSet
  BY DEF SerialInv, TypeOK, Snapshot, SnapshotSet
<1>3. ASSUME NEW request, Begin(u, request), request.snap = Snapshot,
             request \in TasksForm \cup ListsForm \cup TickForm \cup StatusForm,
             RequestInv(u)'
      PROVE  SerialInv'
  <2>1. tx' = [tx EXCEPT ![u] = request]
    BY <1>3 DEF Begin
  <2>2. TypeOK'
    BY <1>1, <1>3, <2>1 DEF SerialInv, TypeOK
  <2>3. \A v \in Sessions : tx'[v].op # "none" => RequestInv(v)'
    BY <1>1, <1>3, <2>1 DEF SerialInv, TypeOK
  <2>4. QED
    BY <1>1, <2>2, <2>3, TablesKept DEF SerialInv
<1>4. ASSUME NEW request, Begin(u, request)
      PROVE  tx'[u] = request /\ \A v \in Sessions \ {u} : tx'[v].op = "none"
  BY <1>1, <1>4 DEF Begin, SerialInv, TypeOK
<1>5. CASE ReadTasks(u)
  <2>1. PICK T \in SUBSET (TasksIn(Snapshot) \cup NewTasks) :
        \E rows \in [T -> [status : Statuses, deadline : Deadlines]], touch \in Touches(T) :
          Begin(u, [op |-> "tasks", snap |-> Snapshot, rows |-> rows, touch |-> touch])
    BY <1>5 DEF ReadTasks
  <2>2. PICK rows \in [T -> [status : Statuses, deadline : Deadlines]], touch \in Touches(T) :
          Begin(u, [op |-> "tasks", snap |-> Snapshot, rows |-> rows, touch |-> touch])
    BY <2>1
  <2> DEFINE request == [op |-> "tasks", snap |-> Snapshot, rows |-> rows, touch |-> touch]
  <2>3. T \subseteq Tasks /\ touch \subseteq Tasks /\ \A t \in T : task[t].status # "gone"
    BY <2>1, <2>2 DEF TasksIn, NewTasks, Touches, Snapshot, Absent
  <2>4. rows \in PartialTo(Tasks, [status : Statuses, deadline : Deadlines])
    BY <2>3 DEF PartialTo
  <2>5. request \in TasksForm
    BY <1>2, <2>3, <2>4 DEF TasksForm
  <2>6. tx'[u] = request /\ \A v \in Sessions \ {u} : tx'[v].op = "none"
    BY <1>4, <2>2
  <2>7. RequestInv(u)'
    BY <1>1, <2>3, <2>6 DEF RequestInv, Snapshot
  <2>8. QED
    BY <1>3, <2>2, <2>5, <2>7
<1>6. CASE ReadChecklists(u)
  <2>1. PICK I \in SUBSET {i \in ItemsIn(Snapshot) \cup NewItems :
                             ListOf[i] \in ListsIn(Snapshot) \cup NewLists} :
        \E ticks \in [I -> Ticks], links \in [{ListOf[i] : i \in I} -> Links] :
        \E touch \in Touches(I \cup DOMAIN links) :
          /\ AcceptedChecklists(Snapshot, links, ticks)
          /\ Begin(u, [op |-> "lists", snap |-> Snapshot, links |-> links, ticks |-> ticks,
                       touch |-> touch])
    BY <1>6 DEF ReadChecklists
  <2>2. PICK ticks \in [I -> Ticks], links \in [{ListOf[i] : i \in I} -> Links] :
        \E touch \in Touches(I \cup DOMAIN links) :
          /\ AcceptedChecklists(Snapshot, links, ticks)
          /\ Begin(u, [op |-> "lists", snap |-> Snapshot, links |-> links, ticks |-> ticks,
                       touch |-> touch])
    BY <2>1
  <2>3. PICK touch \in Touches(I \cup DOMAIN links) :
          /\ AcceptedChecklists(Snapshot, links, ticks)
          /\ Begin(u, [op |-> "lists", snap |-> Snapshot, links |-> links, ticks |-> ticks,
                       touch |-> touch])
    BY <2>2
  <2> DEFINE request == [op |-> "lists", snap |-> Snapshot, links |-> links, ticks |-> ticks,
                         touch |-> touch]
  <2>4. /\ I \subseteq Items /\ \A i \in I : item[i] # "gone"
        /\ DOMAIN links \subseteq Lists /\ \A c \in DOMAIN links : link[c] # "gone"
    BY <2>1, <2>2 DEF ItemsIn, NewItems, ListsIn, NewLists, Snapshot, Absent
  <2>5. links \in PartialTo(Lists, Links) /\ ticks \in PartialTo(Items, Ticks)
    BY <2>2, <2>4 DEF PartialTo
  <2>6. request \in ListsForm
    BY <1>2, <2>3, <2>4, <2>5 DEF ListsForm, Touches
  <2>7. tx'[u] = request /\ \A v \in Sessions \ {u} : tx'[v].op = "none"
    BY <1>4, <2>3
  <2>8. RequestInv(u)'
    BY <1>1, <2>2, <2>3, <2>4, <2>7 DEF RequestInv, Snapshot, AcceptedChecklists, TasksIn
  <2>9. QED
    BY <1>3, <2>3, <2>6, <2>8
<1>7. CASE ReadItemDone(u)
  <2>1. PICK i \in ItemsIn(Snapshot), tick \in Ticks :
          Begin(u, [op |-> "tick", snap |-> Snapshot, item |-> i, tick |-> tick])
    BY <1>7 DEF ReadItemDone
  <2> DEFINE request == [op |-> "tick", snap |-> Snapshot, item |-> i, tick |-> tick]
  <2>2. i \in Items /\ item[i] \in Ticks
    BY DEF ItemsIn, Snapshot, SerialInv, TypeOK
  <2>3. request \in TickForm
    BY <1>2, <2>2 DEF TickForm
  <2>4. tx'[u] = request /\ \A v \in Sessions \ {u} : tx'[v].op = "none"
    BY <1>4, <2>1
  <2>5. RequestInv(u)'
    BY <1>1, <2>2, <2>4 DEF RequestInv, Snapshot
  <2>6. QED
    BY <1>3, <2>1, <2>3, <2>5
<1>8. CASE ReadTaskStatus(u)
  <2>1. PICK t \in TasksIn(Snapshot), status \in Statuses :
          /\ ~isTaskChecklistControlled(t)
          /\ Begin(u, [op |-> "status", snap |-> Snapshot, task |-> t, status |-> status])
    BY <1>8 DEF ReadTaskStatus
  <2> DEFINE request == [op |-> "status", snap |-> Snapshot, task |-> t, status |-> status]
  <2>2. t \in Tasks /\ \A c \in Lists : link[c] # t
    BY <2>1 DEF TasksIn, Snapshot, isTaskChecklistControlled
  <2>3. request \in StatusForm
    BY <1>2, <2>2 DEF StatusForm
  <2>4. tx'[u] = request /\ \A v \in Sessions \ {u} : tx'[v].op = "none"
    BY <1>4, <2>1
  <2>5. RequestInv(u)'
    BY <1>1, <2>2, <2>4 DEF RequestInv, Snapshot
  <2>6. QED
    BY <1>3, <2>1, <2>3, <2>5
<1>9. QED
  BY <1>5, <1>6, <1>7, <1>8 DEF Read

\* After a write no request is open, and the sweep is idle.
LEMMA WriteEnds ==
    ASSUME BoardAssumption, SerialInv, NEW u \in Sessions, tx[u].op # "none", End(u),
           UNCHANGED sweep
    PROVE  /\ \A v \in Sessions : tx'[v].op = "none"
           /\ tx' \in [Sessions -> {NoTx} \cup TasksForm \cup ListsForm \cup TickForm \cup StatusForm]
           /\ ~sweep'.busy /\ sweep'.plan = {}
           /\ sweep' \in [busy : BOOLEAN, plan : SUBSET PlanSet]
  BY DEF SerialInv, TypeOK, RequestInv, End, NoTx

\* A saved list of tasks.
LEMMA WriteTasksStep ==
    ASSUME BoardAssumption, SerialInv, NEW u \in Sessions, WriteTasks(u)
    PROVE  SerialInv'
<1> DEFINE form == tx[u]
           removed == RemovedTasks(form)
<1>1. /\ form.op = "tasks" /\ form.snap = Snapshot
      /\ Snapshot.task = task /\ Snapshot.link = link
      /\ \A t \in DOMAIN form.rows : task[t].status # "gone"
  BY DEF WriteTasks, SerialInv, RequestInv, Snapshot
<1>2. form.rows \in PartialTo(Tasks, [status : Statuses, deadline : Deadlines])
  <2>1. form \in TasksForm
    BY <1>1 DEF SerialInv, TypeOK, NoTx, TickForm, ListsForm, StatusForm
  <2>2. QED
    BY <2>1 DEF TasksForm
<1>3. /\ DOMAIN form.rows \subseteq Tasks
      /\ \A t \in DOMAIN form.rows : form.rows[t] \in [status : Statuses, deadline : Deadlines]
  BY <1>2 DEF PartialTo
<1>4. /\ TasksIn(form.snap) = {t \in Tasks : task[t].status \notin Absent}
      /\ removed = {t \in Tasks : task[t].status \notin Absent /\ t \notin DOMAIN form.rows}
  BY <1>1 DEF TasksIn, RemovedTasks
<1>5. \A t \in Tasks :
        task'[t] = IF t \in DOMAIN form.rows
                   THEN IF task[t].status \in Absent THEN form.rows[t]
                        ELSE SavedRow(form, t)
                   ELSE IF task[t].status \in Absent THEN task[t] ELSE GoneRow
  BY SavedTasks
<1>6. \A t \in Tasks : task[t] \in TaskRow
  BY DEF SerialInv, TypeOK
<1>7. \A t \in DOMAIN form.rows : task[t].status \notin Absent =>
        /\ SavedRow(form, t) \in [status : Statuses, deadline : Deadlines]
        /\ SavedRow(form, t).deadline = form.rows[t].deadline
        /\ (\E c \in Lists : link[c] = t) => SavedRow(form, t).status = task[t].status
  <2> SUFFICES ASSUME NEW t \in DOMAIN form.rows, task[t].status \notin Absent
               PROVE  /\ SavedRow(form, t) \in [status : Statuses, deadline : Deadlines]
                      /\ SavedRow(form, t).deadline = form.rows[t].deadline
                      /\ (\E c \in Lists : link[c] = t) =>
                           SavedRow(form, t).status = task[t].status
    OBVIOUS
  <2>1. task[t].status \in Statuses /\ t \in Tasks
    BY <1>3, <1>6 DEF TaskRow
  <2>2. (\E c \in Lists : link[c] = t) => t \in getChecklistControlledTaskIds(form.snap)
    BY <1>1, <2>1 DEF getChecklistControlledTaskIds, ListsIn, BoardAssumption, Absent
  <2>3. QED
    BY <1>1, <1>3, <2>1, <2>2 DEF SavedRow
<1>8. /\ \A c \in Lists : link'[c] = IF link[c] \in removed THEN NoTask ELSE link[c]
      /\ link' \in [Lists -> Links \cup Absent] /\ item' = item
  BY DEF WriteTasks, Unlinked, SerialInv, TypeOK, Links
<1>9. \A c \in Lists : link'[c] \in Tasks =>
        /\ link'[c] = link[c] /\ link[c] \in DOMAIN form.rows
        /\ task[link[c]].status \notin Absent
        /\ task'[link[c]].status = task[link[c]].status
  <2> SUFFICES ASSUME NEW c \in Lists, link'[c] \in Tasks
               PROVE  /\ link'[c] = link[c] /\ link[c] \in DOMAIN form.rows
                      /\ task[link[c]].status \notin Absent
                      /\ task'[link[c]].status = task[link[c]].status
    OBVIOUS
  <2>1. link'[c] = link[c] /\ link[c] \notin removed /\ link[c] \in Tasks
    BY <1>8 DEF BoardAssumption
  <2>2. task[link[c]].status \in Statuses
    BY <2>1 DEF SerialInv, TypeOK
  <2>3. task[link[c]].status \notin Absent /\ link[c] \in DOMAIN form.rows
    BY <1>4, <2>1, <2>2 DEF Statuses, Absent
  <2>4. QED
    BY <1>5, <1>7, <2>1, <2>3
<1>10. /\ \A t \in Tasks : reminder'[t] =
                            IF t \in MovedDeadlines(form) /\ reminder[t].state = "scheduled"
                            THEN NoReminder ELSE reminder[t]
       /\ reminder' \in [Tasks -> ReminderSet]
  BY DEF WriteTasks, Drop, SerialInv, TypeOK, NoReminder, ReminderSet, BoardAssumption
<1>11. MovedDeadlines(form) = {t \in DOMAIN form.rows : /\ task[t].status \notin Absent
                                 /\ form.rows[t].deadline # task[t].deadline}
  BY <1>1, <1>3, <1>4 DEF MovedDeadlines, KeptTasks
<1>12. TypeOK'
  <2>1. task' \in [Tasks -> TaskRow]
    <3>1. \A t \in Tasks : task'[t] \in TaskRow
      BY <1>3, <1>5, <1>6, <1>7 DEF TaskRow, GoneRow, Absent, BoardAssumption
    <3>2. QED
      BY <3>1 DEF WriteTasks
  <2>2. \A c \in Lists : link'[c] \in Tasks => task'[link'[c]].status \in Statuses
    BY <1>6, <1>9 DEF TaskRow
  <2>3. \A c, d \in Lists : link'[c] \in Tasks /\ link'[c] = link'[d] => c = d
    BY <1>9 DEF SerialInv, TypeOK
  <2>4. \A i \in Items : item'[i] \in Ticks => link'[ListOf[i]] \in Links
    BY <1>8 DEF SerialInv, TypeOK, Links, BoardAssumption
  <2>5. tx[u].op # "none" /\ End(u) /\ UNCHANGED sweep
    BY <1>1 DEF WriteTasks
  <2>6. QED
    BY <1>8, <1>10, <2>1, <2>2, <2>3, <2>4, <2>5, WriteEnds DEF SerialInv, TypeOK
<1>13. \A c \in Lists : HeldItems(c)' = HeldItems(c) /\ TicksOf(c)' = TicksOf(c)
  BY <1>8 DEF HeldItems, TicksOf
<1>14. \A c \in Lists : link'[c] \in Links => HeldItems(c)' # {}
  BY <1>8, <1>13 DEF SerialInv, Links, RemovedTasks, TasksIn
<1>15. LinkedStatusAgrees'
  BY <1>8, <1>9, <1>13 DEF SerialInv, LinkedStatusAgrees
<1>16. FinishedByChecklistIsSilent'
  BY <1>9, <1>10 DEF SerialInv, FinishedByChecklistIsSilent, NoReminder
<1>17. ReminderMatchesDeadline'
  <2> SUFFICES ASSUME NEW t \in Tasks, reminder'[t].state = "scheduled"
               PROVE  task'[t].status = "gone" \/ reminder'[t].deadline = task'[t].deadline
    BY DEF ReminderMatchesDeadline
  <2>1. /\ reminder'[t] = reminder[t] /\ t \notin MovedDeadlines(form)
        /\ task[t].status = "gone" \/ reminder[t].deadline = task[t].deadline
    BY <1>10 DEF SerialInv, ReminderMatchesDeadline, NoReminder
  <2>2. CASE t \in DOMAIN form.rows /\ task[t].status \in Absent
    <3>1. task[t].status = "absent"
      BY <1>1, <2>2 DEF Absent
    <3>2. QED
      BY <2>1, <3>1 DEF SerialInv
  <2>3. CASE t \in DOMAIN form.rows /\ task[t].status \notin Absent
    BY <1>5, <1>7, <1>11, <2>1, <2>3 DEF Absent
  <2>4. CASE t \notin DOMAIN form.rows
    BY <1>5, <2>1, <2>4 DEF GoneRow
  <2>5. QED
    BY <2>2, <2>3, <2>4
<1>18. \A t \in Tasks : task'[t].status = "absent" => reminder'[t].state = "none"
  <2>1. \A t \in DOMAIN form.rows : task'[t].status # "absent"
    BY <1>3, <1>5, <1>7 DEF Statuses
  <2>2. QED
    BY <1>5, <1>10, <2>1 DEF SerialInv, GoneRow, NoReminder
<1>19. QED
  <2>1. tx[u].op # "none" /\ End(u) /\ UNCHANGED sweep
    BY <1>1 DEF WriteTasks
  <2>2. QED
    BY <1>12, <1>14, <1>15, <1>16, <1>17, <1>18, <2>1, WriteEnds DEF SerialInv

\* A saved set of checklists.
LEMMA WriteChecklistsStep ==
    ASSUME BoardAssumption, SerialInv, NEW u \in Sessions, WriteChecklists(u)
    PROVE  SerialInv'
<1> DEFINE form == tx[u]
           links == form.links
           ticks == form.ticks
           Of(c) == {i \in DOMAIN ticks : ListOf[i] = c}
<1>1. /\ form.op = "lists" /\ form.snap = Snapshot /\ Snapshot.task = task
      /\ AcceptedChecklists(form.snap, links, ticks)
      /\ End(u) /\ UNCHANGED sweep
  BY DEF WriteChecklists, SerialInv, RequestInv, Snapshot
<1>2. links \in PartialTo(Lists, Links) /\ ticks \in PartialTo(Items, Ticks)
  <2>1. form \in ListsForm
    BY <1>1 DEF SerialInv, TypeOK, NoTx, TickForm, TasksForm, StatusForm
  <2>2. QED
    BY <2>1 DEF ListsForm
<1>3. /\ DOMAIN links \subseteq Lists /\ \A c \in DOMAIN links : links[c] \in Links
      /\ DOMAIN ticks \subseteq Items /\ \A i \in DOMAIN ticks : ticks[i] \in Ticks
  BY <1>2 DEF PartialTo
<1>4. /\ \A c \in DOMAIN links : links[c] \in Tasks => task[links[c]].status \notin Absent
      /\ \A c, d \in DOMAIN links : links[c] = links[d] /\ links[c] \in Tasks => c = d
      /\ \A i \in DOMAIN ticks : ListOf[i] \in DOMAIN links
      /\ \A c \in DOMAIN links : Of(c) # {}
  BY <1>1, <1>3 DEF AcceptedChecklists, TasksIn, BoardAssumption
<1>5. /\ \A c \in Lists :
           link'[c] = IF c \in DOMAIN links THEN links[c]
                      ELSE IF link[c] \in Absent THEN link[c] ELSE "gone"
      /\ \A i \in Items :
           item'[i] = IF i \in DOMAIN ticks THEN ticks[i]
                      ELSE IF item[i] \in Absent THEN item[i] ELSE "gone"
  BY SavedChecklists
<1>6. \A c \in Lists : link'[c] \in Links => c \in DOMAIN links /\ link'[c] = links[c]
  BY <1>5 DEF BoardAssumption, Links, Absent
<1>7. \A i \in Items : item'[i] \in Ticks <=> i \in DOMAIN ticks
  BY <1>3, <1>5 DEF Ticks, Absent
<1>8. \A c \in Lists : HeldItems(c)' = Of(c)
  BY <1>3, <1>7 DEF HeldItems
<1>9. \A c \in Lists : \A i \in Of(c) : ticks[i] = item'[i] /\ item'[i] \in Ticks
  BY <1>3, <1>5
<1>10. /\ \A c \in DOMAIN links : links[c] \in Tasks =>
            task'[links[c]] = [task[links[c]] EXCEPT !.status = Derived(ticks, Of(c))]
       /\ \A t \in Tasks : (\A c \in DOMAIN links : links[c] # t) => task'[t] = task[t]
       /\ \A t \in Tasks : reminder'[t] \in {reminder[t], NoReminder}
       /\ \A c \in DOMAIN links :
            links[c] \in Tasks /\ task'[links[c]].status = "done" =>
              reminder'[links[c]].state # "scheduled"
  BY SyncedAsSaved
<1>11. ASSUME NEW c \in DOMAIN links, links[c] \in Tasks
       PROVE  /\ task'[links[c]].status \in Statuses
              /\ task'[links[c]].deadline = task[links[c]].deadline
              /\ TicksOf(c)' = {"done"} <=> task'[links[c]].status = "done"
              /\ TicksOf(c)' = {"open"} <=> task'[links[c]].status = "open"
  <2>1. task[links[c]] \in TaskRow /\ c \in Lists
    BY <1>3, <1>11 DEF SerialInv, TypeOK
  <2>2. /\ task'[links[c]].status = Derived(ticks, Of(c))
        /\ task'[links[c]].deadline = task[links[c]].deadline
    BY <1>10, <1>11, <2>1 DEF TaskRow
  <2>3. /\ Derived(ticks, Of(c)) \in Statuses
        /\ {ticks[i] : i \in Of(c)} = {"done"} <=> Derived(ticks, Of(c)) = "done"
        /\ {ticks[i] : i \in Of(c)} = {"open"} <=> Derived(ticks, Of(c)) = "open"
    <3>1. Of(c) # {} /\ \A i \in Of(c) : ticks[i] \in Ticks
      BY <1>3, <1>4
    <3>2. QED
      BY <3>1, DerivedMeans
  <2>4. TicksOf(c)' = {ticks[i] : i \in Of(c)}
    <3>1. TicksOf(c)' = {item'[i] : i \in HeldItems(c)'}
      BY DEF TicksOf
    <3>2. QED
      BY <1>8, <1>9, <2>1, <3>1
  <2>5. QED
    BY <2>2, <2>3, <2>4
<1>12. \A t \in Tasks : /\ task'[t] \in TaskRow
                        /\ task'[t].deadline = task[t].deadline
                        /\ task[t].status \in Absent <=> task'[t].status \in Absent
                        /\ task[t].status \in Absent => task'[t] = task[t]
  <2> SUFFICES ASSUME NEW t \in Tasks
               PROVE  /\ task'[t] \in TaskRow
                      /\ task'[t].deadline = task[t].deadline
                      /\ task[t].status \in Absent <=> task'[t].status \in Absent
                      /\ task[t].status \in Absent => task'[t] = task[t]
    OBVIOUS
  <2>1. task[t] \in TaskRow
    BY DEF SerialInv, TypeOK
  <2>2. CASE \E c \in DOMAIN links : links[c] = t
    <3>1. PICK c \in DOMAIN links : links[c] = t
      BY <2>2
    <3>2. task'[t] = [task[t] EXCEPT !.status = Derived(ticks, Of(c))]
      BY <1>10, <3>1
    <3>3. QED
      BY <1>4, <1>11, <2>1, <3>1, <3>2 DEF TaskRow, Statuses, Absent
  <2>3. CASE \A c \in DOMAIN links : links[c] # t
    BY <1>10, <2>1, <2>3
  <2>4. QED
    BY <2>2, <2>3
<1>13. reminder' \in [Tasks -> ReminderSet]
  BY <1>10 DEF WriteChecklists, SyncTasks, Drop, SerialInv, TypeOK, NoReminder,
     ReminderSet, BoardAssumption
<1>14. TypeOK'
  <2>1. task' \in [Tasks -> TaskRow]
    BY <1>12 DEF WriteChecklists, SyncTasks
  <2>2. link' \in [Lists -> Links \cup Absent]
    BY <1>3, <1>5 DEF WriteChecklists, SerialInv, TypeOK, Absent
  <2>3. item' \in [Items -> Ticks \cup Absent]
    BY <1>3, <1>5 DEF WriteChecklists, SerialInv, TypeOK, Absent
  <2>4. \A c \in Lists : link'[c] \in Tasks => task'[link'[c]].status \in Statuses
    BY <1>6, <1>11 DEF Links
  <2>5. \A c, d \in Lists : link'[c] \in Tasks /\ link'[c] = link'[d] => c = d
    BY <1>4, <1>6 DEF Links
  <2>6. \A i \in Items : item'[i] \in Ticks => link'[ListOf[i]] \in Links
    BY <1>3, <1>4, <1>5, <1>7
  <2>7. QED
    BY <1>1, <1>13, <2>1, <2>2, <2>3, <2>4, <2>5, <2>6, WriteEnds DEF SerialInv, TypeOK
<1>15. \A c \in Lists : link'[c] \in Links => HeldItems(c)' # {}
  BY <1>4, <1>6, <1>8
<1>16. LinkedStatusAgrees'
  BY <1>6, <1>11 DEF LinkedStatusAgrees, Links
<1>17. FinishedByChecklistIsSilent'
  BY <1>6, <1>10 DEF FinishedByChecklistIsSilent, Links
<1>18. ReminderMatchesDeadline'
  BY <1>10, <1>12 DEF SerialInv, ReminderMatchesDeadline, NoReminder, Absent
<1>19. \A t \in Tasks : task'[t].status = "absent" => reminder'[t].state = "none"
  BY <1>10, <1>12 DEF SerialInv, NoReminder, Absent
<1>20. QED
  BY <1>1, <1>14, <1>15, <1>16, <1>17, <1>18, <1>19, WriteEnds DEF SerialInv

\* One ticked item.
LEMMA WriteItemDoneStep ==
    ASSUME BoardAssumption, SerialInv, NEW u \in Sessions, WriteItemDone(u)
    PROVE  SerialInv'
<1> DEFINE form == tx[u]
<1>1. /\ form.op = "tick" /\ item[form.item] \in Ticks
      /\ End(u) /\ UNCHANGED <<link, sweep>>
  BY DEF WriteItemDone, SerialInv, RequestInv
<1>2. form.item \in Items /\ form.tick \in Ticks
  <2>1. form \in TickForm
    BY <1>1 DEF SerialInv, TypeOK, NoTx, TasksForm, ListsForm, StatusForm
  <2>2. QED
    BY <2>1 DEF TickForm
<1>3. PICK c \in Lists : c = ListOf[form.item]
  BY <1>2 DEF BoardAssumption
<1>4. /\ link[c] \in Links
      /\ item' = [item EXCEPT ![form.item] = form.tick]
      /\ link[c] \in Tasks =>
           /\ task'[link[c]] =
                [task[link[c]] EXCEPT !.status = Derived(item', HeldItems(c)')]
           /\ task'[link[c]].status = "done" => reminder'[link[c]].state # "scheduled"
      /\ \A t \in Tasks : t # link[c] => task'[t] = task[t]
      /\ \A t \in Tasks : reminder'[t] \in {reminder[t], NoReminder}
  BY <1>3, TickedAsSaved
<1>5. \A i \in Items : item'[i] \in Ticks <=> item[i] \in Ticks
  BY <1>1, <1>2, <1>4 DEF SerialInv, TypeOK
<1>6. \A d \in Lists : HeldItems(d)' = HeldItems(d)
  BY <1>5 DEF HeldItems
<1>7. \A d \in Lists : d # c => TicksOf(d)' = TicksOf(d)
  <2> SUFFICES ASSUME NEW d \in Lists, d # c PROVE TicksOf(d)' = TicksOf(d)
    OBVIOUS
  <2>1. \A i \in HeldItems(d) : item'[i] = item[i]
    BY <1>2, <1>3, <1>4 DEF HeldItems, SerialInv, TypeOK
  <2>2. TicksOf(d)' = {item'[i] : i \in HeldItems(d)}
    BY <1>6 DEF TicksOf
  <2>3. QED
    BY <2>1, <2>2 DEF TicksOf
<1>8. link[c] \in Tasks =>
        /\ task'[link[c]].status \in Statuses
        /\ task'[link[c]].deadline = task[link[c]].deadline
        /\ TicksOf(c)' = {"done"} <=> task'[link[c]].status = "done"
        /\ TicksOf(c)' = {"open"} <=> task'[link[c]].status = "open"
  <2> SUFFICES ASSUME link[c] \in Tasks
               PROVE  /\ task'[link[c]].status \in Statuses
                      /\ task'[link[c]].deadline = task[link[c]].deadline
                      /\ TicksOf(c)' = {"done"} <=> task'[link[c]].status = "done"
                      /\ TicksOf(c)' = {"open"} <=> task'[link[c]].status = "open"
    OBVIOUS
  <2> DEFINE S == HeldItems(c)'
             f == item'
  <2>1. task[link[c]] \in TaskRow
    BY DEF SerialInv, TypeOK
  <2>2. /\ task'[link[c]].status = Derived(f, S)
        /\ task'[link[c]].deadline = task[link[c]].deadline
    BY <1>4, <2>1 DEF TaskRow
  <2>3. S # {} /\ \A i \in S : f[i] \in Ticks
    BY <1>3, <1>4, <1>6 DEF HeldItems, SerialInv
  <2>4. TicksOf(c)' = {f[i] : i \in S}
    BY DEF TicksOf
  <2>5. /\ Derived(f, S) \in Statuses
        /\ {f[i] : i \in S} = {"done"} <=> Derived(f, S) = "done"
        /\ {f[i] : i \in S} = {"open"} <=> Derived(f, S) = "open"
    <3> HIDE DEF f, S
    <3>1. QED
      BY <2>3, DerivedMeans
  <2>6. QED
    BY <2>2, <2>4, <2>5
<1>9. \A t \in Tasks : /\ task'[t] \in TaskRow
                       /\ task'[t].deadline = task[t].deadline
                       /\ task[t].status \in Statuses <=> task'[t].status \in Statuses
                       /\ task[t].status \in Absent => task'[t] = task[t]
  <2> SUFFICES ASSUME NEW t \in Tasks
               PROVE  /\ task'[t] \in TaskRow
                      /\ task'[t].deadline = task[t].deadline
                      /\ task[t].status \in Statuses <=> task'[t].status \in Statuses
                      /\ task[t].status \in Absent => task'[t] = task[t]
    OBVIOUS
  <2>1. task[t] \in TaskRow
    BY DEF SerialInv, TypeOK
  <2>2. CASE t = link[c]
    <3>1. task[t].status \in Statuses
      BY <1>3, <2>2 DEF SerialInv, TypeOK
    <3>2. QED
      BY <1>4, <1>8, <2>1, <2>2, <3>1 DEF TaskRow, Statuses, Absent
  <2>3. CASE t # link[c]
    BY <1>4, <2>1, <2>3
  <2>4. QED
    BY <2>2, <2>3
<1>10. TypeOK'
  <2>1. /\ task' \in [Tasks -> TaskRow]
        /\ reminder' \in [Tasks -> ReminderSet]
    BY <1>4, <1>9 DEF WriteItemDone, SyncTasks, Drop, SerialInv, TypeOK, NoReminder,
       ReminderSet, BoardAssumption
  <2>2. item' \in [Items -> Ticks \cup Absent]
    BY <1>2, <1>4 DEF SerialInv, TypeOK
  <2>3. /\ \A d \in Lists : link'[d] \in Tasks => task'[link'[d]].status \in Statuses
        /\ \A d, e \in Lists : link'[d] \in Tasks /\ link'[d] = link'[e] => d = e
        /\ \A i \in Items : item'[i] \in Ticks => link'[ListOf[i]] \in Links
    BY <1>1, <1>5, <1>9 DEF SerialInv, TypeOK
  <2>4. QED
    BY <1>1, <2>1, <2>2, <2>3, WriteEnds DEF SerialInv, TypeOK
<1>11. LinkedStatusAgrees'
  <2> SUFFICES ASSUME NEW d \in Lists, link'[d] \in Tasks
               PROVE  /\ TicksOf(d)' = {"done"} <=> task'[link'[d]].status = "done"
                      /\ TicksOf(d)' = {"open"} <=> task'[link'[d]].status = "open"
    BY DEF LinkedStatusAgrees
  <2>1. CASE d = c
    BY <1>1, <1>8, <2>1
  <2>2. CASE d # c
    <3>1. link[d] # link[c]
      BY <1>1, <1>3, <2>2 DEF SerialInv, TypeOK
    <3>2. task'[link'[d]] = task[link[d]]
      BY <1>1, <1>4, <3>1
    <3>3. QED
      BY <1>1, <1>7, <2>2, <3>2 DEF SerialInv, LinkedStatusAgrees
  <2>3. QED
    BY <2>1, <2>2
<1>12. FinishedByChecklistIsSilent'
  BY <1>1, <1>4 DEF SerialInv, FinishedByChecklistIsSilent, NoReminder
<1>13. ReminderMatchesDeadline'
  BY <1>4, <1>9 DEF SerialInv, ReminderMatchesDeadline, NoReminder, Absent
<1>14. \A t \in Tasks : task'[t].status = "absent" => reminder'[t].state = "none"
  BY <1>4, <1>9 DEF SerialInv, TypeOK, TaskRow, NoReminder, Absent, Statuses
<1>15. \A d \in Lists : link'[d] \in Links => HeldItems(d)' # {}
  BY <1>1, <1>6 DEF SerialInv
<1>16. QED
  BY <1>1, <1>10, <1>11, <1>12, <1>13, <1>14, <1>15, WriteEnds DEF SerialInv

\* A task's own status.
LEMMA WriteTaskStatusStep ==
    ASSUME BoardAssumption, SerialInv, NEW u \in Sessions, WriteTaskStatus(u)
    PROVE  SerialInv'
<1> DEFINE form == tx[u]
<1>1. /\ form.op = "status" /\ \A d \in Lists : link[d] # form.task
      /\ End(u) /\ UNCHANGED <<link, item, sweep>>
  BY DEF WriteTaskStatus, SerialInv, RequestInv
<1>2. form.task \in Tasks /\ form.status \in Statuses
  <2>1. form \in StatusForm
    BY <1>1 DEF SerialInv, TypeOK, NoTx, TasksForm, ListsForm, TickForm
  <2>2. QED
    BY <2>1 DEF StatusForm
<1>3. /\ \A t \in Tasks : task'[t] = IF t = form.task /\ task[t].status \notin Absent
                                    THEN [task[t] EXCEPT !.status = form.status] ELSE task[t]
      /\ \A t \in Tasks : reminder'[t] \in {reminder[t], NoReminder}
  BY DEF WriteTaskStatus, SyncTasks, Drop
<1>4. \A t \in Tasks : /\ task'[t] \in TaskRow
                       /\ task'[t].deadline = task[t].deadline
                       /\ task[t].status \in Absent => task'[t] = task[t]
                       /\ task[t].status \notin Absent => task'[t].status \notin Absent
  <2> SUFFICES ASSUME NEW t \in Tasks
               PROVE  /\ task'[t] \in TaskRow
                      /\ task'[t].deadline = task[t].deadline
                      /\ task[t].status \in Absent => task'[t] = task[t]
                      /\ task[t].status \notin Absent => task'[t].status \notin Absent
    OBVIOUS
  <2>1. task[t] \in TaskRow
    BY DEF SerialInv, TypeOK
  <2>2. CASE t = form.task /\ task[t].status \notin Absent
    <3>1. task'[t] = [task[t] EXCEPT !.status = form.status]
      BY <1>3, <2>2
    <3>2. form.status \notin Absent
      BY <1>2 DEF Statuses, Absent
    <3>3. QED
      BY <1>2, <2>1, <2>2, <3>1, <3>2 DEF TaskRow
  <2>3. CASE ~(t = form.task /\ task[t].status \notin Absent)
    BY <1>3, <2>1, <2>3
  <2>4. QED
    BY <2>2, <2>3
<1>5. \A d \in Lists : link[d] \in Tasks => task'[link[d]] = task[link[d]]
  BY <1>1, <1>3
<1>6. TypeOK'
  <2>1. /\ task' \in [Tasks -> TaskRow]
        /\ reminder' \in [Tasks -> ReminderSet]
    BY <1>3, <1>4 DEF WriteTaskStatus, SyncTasks, Drop, SerialInv, TypeOK, NoReminder,
       ReminderSet, BoardAssumption
  <2>2. QED
    BY <1>1, <1>5, <2>1, WriteEnds DEF SerialInv, TypeOK
<1>7. \A d \in Lists : HeldItems(d)' = HeldItems(d) /\ TicksOf(d)' = TicksOf(d)
  BY <1>1 DEF HeldItems, TicksOf
<1>8. LinkedStatusAgrees' /\ FinishedByChecklistIsSilent'
  BY <1>1, <1>3, <1>5, <1>7 DEF SerialInv, LinkedStatusAgrees, FinishedByChecklistIsSilent,
     NoReminder
<1>9. ReminderMatchesDeadline'
  BY <1>3, <1>4 DEF SerialInv, ReminderMatchesDeadline, NoReminder, Absent
<1>10. \A t \in Tasks : task'[t].status = "absent" => reminder'[t].state = "none"
  BY <1>3, <1>4 DEF SerialInv, NoReminder, Absent
<1>11. QED
  BY <1>1, <1>6, <1>7, <1>8, <1>9, <1>10, WriteEnds DEF SerialInv

\* A rolled-back request.
LEMMA RollbackStep ==
    ASSUME BoardAssumption, SerialInv, NEW u \in Sessions, Rollback(u)
    PROVE  SerialInv'
<1>1. tx[u].op # "none" /\ End(u) /\ UNCHANGED <<task, link, item, reminder, sweep>>
  BY DEF Rollback, tables
<1>2. QED
  BY <1>1, WriteEnds, TablesKept DEF SerialInv, TypeOK

\* The sweep plans what it has read, and nothing changes meanwhile.
LEMMA SweepStep ==
    ASSUME BoardAssumption, ~Overlap, SerialInv,
           BeginSweep \/ PlanReminder \/ EndSweep \/ \E t \in Tasks : SendReminder(t)
    PROVE  SerialInv'
<1>1. /\ UNCHANGED <<task, link, item, tx>>
      /\ \A c \in Lists : HeldItems(c)' = HeldItems(c) /\ TicksOf(c)' = TicksOf(c)
  BY DEF BeginSweep, PlanReminder, EndSweep, SendReminder, HeldItems, TicksOf, tables
<1>2. CASE BeginSweep
  <2>1. /\ \A u \in Sessions : tx'[u].op = "none"
        /\ sweep'.busy /\ UNCHANGED reminder
    BY <1>1, <1>2 DEF BeginSweep, tables
  <2>2. /\ sweep' \in [busy : BOOLEAN, plan : SUBSET PlanSet]
        /\ \A p \in sweep'.plan : /\ task[p.task].status \in {"open", "in_progress"}
                                  /\ task[p.task].deadline = p.deadline
    BY <1>2 DEF BeginSweep, SerialInv, TypeOK, TaskRow, PlanSet
  <2>3. TypeOK'
    BY <1>1, <2>1, <2>2 DEF SerialInv, TypeOK
  <2>4. QED
    BY <1>1, <2>1, <2>2, <2>3, TablesKept DEF SerialInv
<1>3. CASE PlanReminder
  <2>1. PICK p \in sweep.plan :
          /\ reminder' = [reminder EXCEPT ![p.task] =
                            IF @.state = "none"
                            THEN [state |-> "scheduled", deadline |-> p.deadline] ELSE @]
          /\ sweep' = [sweep EXCEPT !.plan = @ \ {p}]
    BY <1>3 DEF PlanReminder
  <2>2. /\ p \in PlanSet /\ p.task \in Tasks /\ p.deadline \in Deadlines
        /\ task[p.task].status \in {"open", "in_progress"}
        /\ task[p.task].deadline = p.deadline
        /\ sweep.busy
    BY <2>1 DEF SerialInv, TypeOK, PlanSet
  <2>3. /\ sweep' \in [busy : BOOLEAN, plan : SUBSET PlanSet]
        /\ sweep'.busy /\ sweep'.plan \subseteq sweep.plan
    BY <2>1, <2>2 DEF SerialInv, TypeOK
  <2>4. /\ reminder' \in [Tasks -> ReminderSet]
        /\ \A t \in Tasks : t # p.task => reminder'[t] = reminder[t]
        /\ reminder'[p.task].state = "scheduled" =>
             reminder'[p.task].deadline = p.deadline \/ reminder'[p.task] = reminder[p.task]
    BY <2>1, <2>2 DEF SerialInv, TypeOK, ReminderSet
  <2>5. TypeOK'
    BY <1>1, <2>3, <2>4 DEF SerialInv, TypeOK
  <2>6. FinishedByChecklistIsSilent' /\ ReminderMatchesDeadline'
    BY <1>1, <2>2, <2>4 DEF SerialInv, FinishedByChecklistIsSilent, ReminderMatchesDeadline
  <2>7. \A t \in Tasks : task'[t].status = "absent" => reminder'[t].state = "none"
    BY <1>1, <2>2, <2>4 DEF SerialInv
  <2>8. LinkedStatusAgrees'
    BY <1>1 DEF SerialInv, LinkedStatusAgrees
  <2>9. \A u \in Sessions : tx'[u].op = "none"
    BY <1>1, <2>2 DEF SerialInv, RequestInv
  <2>10. QED
    BY <1>1, <2>2, <2>3, <2>5, <2>6, <2>7, <2>8, <2>9 DEF SerialInv
<1>4. CASE EndSweep
  <2>1. UNCHANGED reminder /\ sweep' = NoSweep /\ \A u \in Sessions : tx'[u].op = "none"
    BY <1>1, <1>4 DEF EndSweep, tables, SerialInv, RequestInv
  <2>2. TypeOK'
    BY <1>1, <2>1 DEF SerialInv, TypeOK, NoSweep
  <2>3. QED
    BY <1>1, <2>1, <2>2, TablesKept DEF SerialInv, NoSweep
<1>5. ASSUME NEW t \in Tasks, SendReminder(t) PROVE SerialInv'
  <2>1. /\ UNCHANGED sweep
        /\ reminder[t].state = "scheduled"
        /\ reminder' = [reminder EXCEPT ![t].state = "sent"]
    BY <1>5 DEF SendReminder
  <2>2. /\ reminder' \in [Tasks -> ReminderSet]
        /\ \A s \in Tasks : reminder'[s].state = "scheduled" => reminder'[s] = reminder[s]
        /\ \A s \in Tasks : reminder[s].state = "none" => reminder'[s] = reminder[s]
    BY <2>1 DEF SerialInv, TypeOK, ReminderSet
  <2>3. TypeOK'
    BY <1>1, <2>1, <2>2 DEF SerialInv, TypeOK
  <2>4. FinishedByChecklistIsSilent' /\ ReminderMatchesDeadline'
    BY <1>1, <2>2 DEF SerialInv, FinishedByChecklistIsSilent, ReminderMatchesDeadline
  <2>5. \A u \in Sessions : tx'[u].op # "none" => RequestInv(u)'
    BY <1>1, <2>1 DEF SerialInv, RequestInv, Snapshot, AcceptedChecklists
  <2>6. LinkedStatusAgrees'
    BY <1>1 DEF SerialInv, LinkedStatusAgrees
  <2>7. QED
    BY <1>1, <2>1, <2>2, <2>3, <2>4, <2>5, <2>6 DEF SerialInv
<1>6. QED
  BY <1>2, <1>3, <1>4, <1>5

\* When requests and the sweep do not overlap, SerialInv holds for any board.
THEOREM SerialSafety == ASSUME ~Overlap PROVE Spec => []SerialInv
<1>1. Init => SerialInv
  BY BoardAssumption DEF BoardAssumption, Init, SerialInv, TypeOK, LinkedStatusAgrees,
     FinishedByChecklistIsSilent, ReminderMatchesDeadline, HeldItems, TaskRow, Absent, Links,
     Ticks, NoRow, NoReminder, NoTx, NoSweep, ReminderSet, Statuses
<1>2. SerialInv /\ [Next]_vars => SerialInv'
  <2> SUFFICES ASSUME SerialInv, [Next]_vars PROVE SerialInv'
    OBVIOUS
  <2>1. ASSUME NEW u \in Sessions, Read(u) PROVE SerialInv'
    BY <2>1, ReadStep, BoardAssumption
  <2>2. ASSUME NEW u \in Sessions, Write(u) PROVE SerialInv'
    BY <2>2, WriteTasksStep, WriteChecklistsStep, WriteItemDoneStep, WriteTaskStatusStep,
       BoardAssumption DEF Write
  <2>3. ASSUME NEW u \in Sessions, Rollback(u) PROVE SerialInv'
    BY <2>3, RollbackStep, BoardAssumption
  <2>4. ASSUME BeginSweep \/ PlanReminder \/ EndSweep \/ \E t \in Tasks : SendReminder(t)
        PROVE  SerialInv'
    BY <2>4, SweepStep, BoardAssumption
  <2>5. CASE UNCHANGED vars
    <3>1. UNCHANGED <<task, link, item, reminder, tx, sweep>>
      BY <2>5 DEF vars
    <3>2. TypeOK' /\ \A u \in Sessions : tx'[u].op # "none" => RequestInv(u)'
      BY <3>1 DEF SerialInv, TypeOK, RequestInv, Snapshot, AcceptedChecklists
    <3>3. QED
      BY <3>1, <3>2, TablesKept DEF SerialInv
  <2>6. QED
    BY <2>1, <2>2, <2>3, <2>4, <2>5 DEF Next
<1>3. QED
  BY <1>1, <1>2, PTL DEF Spec

\* Without overlap the rows are well-formed, no task has two checklists and no link
\* or item dangles.
THEOREM SerialTypeCorrect == ASSUME ~Overlap PROVE Spec => []TypeOK
<1>1. SerialInv => TypeOK
  BY DEF SerialInv
<1>2. QED
  BY <1>1, SerialSafety, PTL

\* Without overlap a linked task is done when all its items are, and open when
\* none is.
THEOREM SerialLinkedStatus == ASSUME ~Overlap PROVE Spec => []LinkedStatusAgrees
<1>1. SerialInv => LinkedStatusAgrees
  BY DEF SerialInv
<1>2. QED
  BY <1>1, SerialSafety, PTL

\* Without overlap no reminder waits for a task that its checklist has finished.
THEOREM SerialFinishedSilent == ASSUME ~Overlap PROVE Spec => []FinishedByChecklistIsSilent
<1>1. SerialInv => FinishedByChecklistIsSilent
  BY DEF SerialInv
<1>2. QED
  BY <1>1, SerialSafety, PTL

\* Without overlap a waiting reminder is about the deadline its task has.
THEOREM SerialReminderDeadline == ASSUME ~Overlap PROVE Spec => []ReminderMatchesDeadline
<1>1. SerialInv => ReminderMatchesDeadline
  BY DEF SerialInv
<1>2. QED
  BY <1>1, SerialSafety, PTL
=============================================================================
