------------------------ MODULE NotificationDispatch ------------------------
(***************************************************************************)
(* The notification outbox: rows of `notifications` wait for their time,   *)
(* the dispatcher sends them channel by channel and records every copy in  *)
(* `notification_deliveries`.                                              *)
(*                                                                         *)
(* Source: src/server/utils/notifications/dispatch.ts (the dispatcher),    *)
(* enqueue.ts (planning and cancelling), changeDigest.ts (the summary of   *)
(* shift changes that is merged into a waiting row) and the timer plugin.  *)
(*                                                                         *)
(* One dispatch pass runs at a time (GET_LOCK).  It processes each         *)
(* notification in a transaction of its own that holds the notification's  *)
(* row; what a mail server accepted is not undone by a rollback.  The shift*)
(* planner is a second session: its snapshot of the database is taken      *)
(* before it merges, and only row locks make it see newer values.          *)
(*                                                                         *)
(* "email" stands for both channels that leave the system (email, push);   *)
(* whose of them works is up to the settings and the server's environment, *)
(* which an administrator may change between any two passes.               *)
(* Bounds: MaxTime ends the clock, MaxChanges the merges into one summary, *)
(* MaxMishaps the crashes and rolled back transactions.                    *)
(***************************************************************************)
EXTENDS Integers, Sequences, FiniteSets, FiniteSetsExt, SequencesExt, Functions

CONSTANTS
  Notes,        \* notification ids
  Digests,      \* those that are summaries of shift changes
  Warnings,     \* those of type shift.understaffed
  NoNote,
  People,       \* recipients
  Anonymous,    \* recipients with a NULL member_id or user_id
  Wants,        \* {<<who, channel>>}: the effective channels, all switched on
  Reachable,    \* {<<who, channel>>}: an address exists
  Setups,       \* the sets of people whose "email" may be all that is configured
  Quiet,        \* the times that fall into the quiet hours
  Window,       \* change_bundle_minutes
  Limit,        \* rows a pass takes at once (50)
  MaxAttempts,  \* attempts before a delivery is given up (5)
  Backoff,      \* attempts |-> time to the next one (2^(attempts + 1) * 5 minutes)
  Moment,       \* note |-> time after which a late retry is pointless
  MaxTime, MaxChanges, MaxMishaps

Channels == {"in_app", "email"}
Times == 0 .. MaxTime
BundleCapFactor == 3

ASSUME DispatchAssumption ==
  /\ Digests \subseteq Notes /\ Warnings \subseteq Notes /\ NoNote \notin Notes
  /\ Anonymous \subseteq People
  /\ Wants \subseteq People \X Channels /\ Reachable \subseteq People \X Channels
  /\ Setups \subseteq SUBSET People /\ Setups # {}
  /\ MaxTime \in Nat /\ MaxTime \notin Quiet /\ Quiet \subseteq Times
  /\ IsFiniteSet(Notes) /\ Backoff \in [1 .. MaxAttempts -> Nat]
  /\ Window \in Nat /\ Limit \in Nat \ {0} /\ MaxAttempts \in Nat \ {0}
  /\ Moment \in [Notes -> Nat] /\ MaxChanges \in Nat /\ MaxMishaps \in Nat

VARIABLES
  clock,    \* the association's wall clock
  note,     \* notifications: status, scheduled_for, bundle_started_at, changes merged
  rows,     \* notification_deliveries, as committed
  arrived,  \* what left the system: arrived[n][p] e-mails
  pass,     \* the dispatcher's pass and its open transaction
  planner,  \* the shift planner's transaction: the notes its snapshot shows delivered
  mishaps   \* crashes and rollbacks, by the notification whose sending they cut

vars == <<clock, note, rows, arrived, pass, planner, mishaps>>

Idle == [phase |-> "idle", now |-> 0, on |-> {}, queue |-> <<>>, todo |-> {}, new |-> {},
         deferred |-> FALSE, failed |-> FALSE, retries |-> {}, unrecorded |-> {}]
NoPlan == [open |-> FALSE, delivered |-> {}]

Init ==
  /\ clock = 0
  /\ note = [n \in Notes |-> [status |-> "none", due |-> 0, started |-> 0, changes |-> 0]]
  /\ rows = {}
  /\ arrived = [n \in Notes |-> [p \in People |-> 0]]
  /\ pass = Idle
  /\ planner = NoPlan
  /\ mishaps = [n \in Notes \cup {NoNote} |-> 0]

Lesser(x, y) == IF x < y THEN x ELSE y
MishapsLeft == FoldFunction(LAMBDA x, y : x + y, 0, mishaps) < MaxMishaps
Mishap(n) == mishaps' = [mishaps EXCEPT ![n] = @ + 1]

-----------------------------------------------------------------------------
(* Planning and cancelling.                                                *)

Locked_never(n) == FALSE

\* The dispatcher's transaction holds the row of the notification it sends.
Locked(n) == pass.phase = "sending" /\ Head(pass.queue) = n

Enqueue(n) ==
  /\ n \notin Digests /\ note[n].status = "none"
  /\ \E due \in clock .. MaxTime :
       note' = [note EXCEPT ![n] = [status |-> "scheduled", due |-> due,
                                    started |-> clock, changes |-> 0]]
  /\ UNCHANGED <<clock, rows, arrived, pass, planner, mishaps>>

cancelNotification(n) ==
  /\ note[n].status = "scheduled" /\ ~Locked(n)
  /\ note' = [note EXCEPT ![n].status = "cancelled"]
  /\ UNCHANGED <<clock, rows, arrived, pass, planner, mishaps>>

\* replaceEventShiftSlots reads the event and its shifts before it queues the
\* changes:
\* from then on its plain reads show this state.
BeginPlan ==
  /\ ~planner.open
  /\ planner' = [open |-> TRUE, delivered |-> {r.note : r \in rows}]
  /\ UNCHANGED <<clock, note, rows, arrived, pass, mishaps>>

bundleSchedule_uncapped(started) ==
  IF clock + Window < started + Window * BundleCapFactor
  THEN started + Window * BundleCapFactor ELSE clock + Window

bundleSchedule(started) == Lesser(clock + Window, started + Window * BundleCapFactor)

\* SELECT ... FOR UPDATE: the status is current, the NOT EXISTS subquery is not
\* a locking read and answers from the snapshot.
PendingDigests ==
  {n \in Digests : note[n].status = "scheduled" /\ n \notin planner.delivered}

MergeDigest(n) ==
  /\ n \in PendingDigests /\ note[n].changes < MaxChanges
  /\ note' = [note EXCEPT ![n].due = bundleSchedule(note[n].started),
                          ![n].changes = @ + 1]
  /\ UNCHANGED rows

\* Added and removed again: the row goes, and its deliveries with it (ON DELETE CASCADE).
DropDigest(n) ==
  /\ n \in PendingDigests
  /\ note' = [note EXCEPT ![n].status = "deleted"]
  /\ rows' = {r \in rows : r.note # n}

PlanDigest(n) ==
  /\ PendingDigests = {} /\ n \in Digests /\ note[n].status = "none"
  /\ note' = [note EXCEPT ![n] = [status |-> "scheduled", due |-> bundleSchedule(clock),
                                  started |-> clock, changes |-> 0]]
  /\ UNCHANGED rows

\* Nothing to report to this person, or the planner's transaction rolls back.
NothingToSay == UNCHANGED <<note, rows>>

\* queueShiftChanges and storeDigest, up to the planner's COMMIT.  The guard on
\* the clock is a bound: a summary must come due before the clock ends.
queueShiftChanges(n) ==
  /\ planner.open /\ clock + Window <= MaxTime
  /\ \A d \in Digests : ~Locked(d)
  /\ MergeDigest(n) \/ DropDigest(n) \/ PlanDigest(n) \/ NothingToSay
  /\ planner' = NoPlan
  /\ UNCHANGED <<clock, arrived, pass, mishaps>>

-----------------------------------------------------------------------------
(* The dispatcher.                                                         *)

isWithinQuietHours(now) == now \in Quiet

quietHoursEnd(now) == Min({t \in Times : t > now /\ t \notin Quiet})

IsDue(n, now) == note[n].status = "scheduled" /\ note[n].due <= now

\* ORDER BY scheduled_for LIMIT: the order among equals is the database's.
DueLists(now) ==
  {SubSeq(q, 1, Lesser(Limit, Len(q))) :
     q \in {s \in SetToSeqs({n \in Notes : IsDue(n, now)}) :
              \A i, j \in DOMAIN s : i < j => note[s[i]].due <= note[s[j]].due}}

\* A pass reads the settings once, in between they may have been changed.
BeginPass ==
  /\ pass.phase = "idle"
  /\ \E list \in DueLists(clock), on \in Setups :
       pass' = [Idle EXCEPT !.phase = "due", !.now = clock, !.on = on, !.queue = list]
  /\ UNCHANGED <<clock, note, rows, arrived, planner, mishaps>>

DropHead(p) ==
  [Idle EXCEPT !.phase = "due", !.now = p.now, !.on = p.on, !.queue = Tail(p.queue)]

ReRead_trusted(n) == TRUE

\* The re-read under a row lock: the list of due rows may be out of date.
ReRead(n) == IsDue(n, pass.now)

SkipNotification ==
  /\ pass.phase = "due" /\ pass.queue # <<>> /\ ~ReRead(Head(pass.queue))
  /\ pass' = DropHead(pass)
  /\ UNCHANGED <<clock, note, rows, arrived, planner, mishaps>>

\* An understaffing warning whose shifts have found enough people meanwhile.
CancelWarning ==
  /\ pass.phase = "due" /\ pass.queue # <<>>
  /\ LET n == Head(pass.queue) IN
       /\ ReRead(n) /\ n \in Warnings
       /\ note' = [note EXCEPT ![n].status = "cancelled"]
  /\ pass' = DropHead(pass)
  /\ UNCHANGED <<clock, rows, arrived, planner, mishaps>>

\* isConfigured(settings)
Configured(p, c) == c = "in_app" \/ p \in pass.on

Unconfigured == {w \in Wants : ~Configured(w[1], w[2])}

\* A channel that is switched off is not among the effective ones; it stays when the
\* notification names its channels, or when only the server's environment lacks it.
StartNotification ==
  /\ pass.phase = "due" /\ pass.queue # <<>> /\ ReRead(Head(pass.queue))
  /\ \E off \in SUBSET Unconfigured :
       pass' = [pass EXCEPT !.phase = "sending", !.todo = Wants \ off]
  /\ UNCHANGED <<clock, note, rows, arrived, planner, mishaps>>

Key(n, p, c) == {r \in rows \cup pass.new : r.note = n /\ r.who = p /\ r.channel = c}

DuplicateEntry_never(n, p, c) == FALSE

\* uq_delivery (notification_id, channel, member_id, user_id): a NULL never collides.
DuplicateEntry(n, p, c) == p \notin Anonymous /\ Key(n, p, c) # {}

Row(n, p, c, status) ==
  [note |-> n, who |-> p, channel |-> c, copy |-> Cardinality(Key(n, p, c)),
   status |-> status, attempts |-> IF status = "failed" THEN 1 ELSE 0,
   next |-> IF status = "failed" THEN pass.now + Backoff[1] ELSE 0]

HeldBack_whenPlanned(c) ==
  c # "in_app" /\ isWithinQuietHours(note[Head(pass.queue)].due)
HeldBack(c) == c # "in_app" /\ isWithinQuietHours(pass.now)

\* What an attempt can end in: no address or no configured channel, or the
\* channel's answer.  The in-app send does nothing, so it cannot fail: the row is
\* the message.
Results(p, c) ==
  IF <<p, c>> \notin Reachable \/ ~Configured(p, c) THEN {"skipped"}
  ELSE IF c = "in_app" THEN {"sent"} ELSE {"sent", "failed"}

Defer(p, c) ==
  /\ HeldBack(c)
  /\ pass' = [pass EXCEPT !.todo = @ \ {<<p, c>>}, !.deferred = TRUE]
  /\ UNCHANGED arrived

AlreadyDelivered(p, c) ==
  /\ ~HeldBack(c) /\ DuplicateEntry(Head(pass.queue), p, c)
  /\ pass' = [pass EXCEPT !.todo = @ \ {<<p, c>>}]
  /\ UNCHANGED arrived

Attempt(p, c, result) ==
  LET n == Head(pass.queue) IN
  /\ ~HeldBack(c) /\ ~DuplicateEntry(n, p, c) /\ result \in Results(p, c)
  /\ pass' = [pass EXCEPT !.todo = @ \ {<<p, c>>},
                          !.new = @ \cup {Row(n, p, c, result)},
                          !.failed = @ \/ result = "failed"]
  /\ arrived' = IF result = "sent" /\ c # "in_app"
                THEN [arrived EXCEPT ![n][p] = @ + 1] ELSE arrived

\* One recipient and channel of processNotification's loops.
Deliver(p, c) ==
  /\ pass.phase = "sending" /\ <<p, c>> \in pass.todo
  /\ \/ Defer(p, c) \/ AlreadyDelivered(p, c)
     \/ \E result \in {"sent", "failed", "skipped"} : Attempt(p, c, result)
  /\ UNCHANGED <<clock, note, rows, planner, mishaps>>

Outcome_dropsDeferred(n) ==
  [note EXCEPT ![n].status = IF pass.failed THEN "partially_failed" ELSE "sent"]

Outcome(n) ==
  IF pass.deferred
  THEN [note EXCEPT ![n].due = quietHoursEnd(pass.now)]
  ELSE [note EXCEPT ![n].status = IF pass.failed THEN "partially_failed" ELSE "sent"]

Commit ==
  /\ pass.phase = "sending" /\ pass.todo = {}
  /\ note' = Outcome(Head(pass.queue))
  /\ rows' = rows \cup pass.new
  /\ pass' = DropHead(pass)
  /\ UNCHANGED <<clock, arrived, planner, mishaps>>

\* An exception out of the loops: withTransaction rolls back, the pass goes on.
RollBack ==
  /\ pass.phase = "sending" /\ MishapsLeft
  /\ Mishap(Head(pass.queue))
  /\ pass' = DropHead(pass)
  /\ UNCHANGED <<clock, note, rows, arrived, planner>>

-----------------------------------------------------------------------------
(* retryFailedDeliveries: no transaction, every statement commits.         *)

RetryDue_oneLess(now) ==
  {r \in rows : r.status = "failed" /\ r.attempts < MaxAttempts - 1 /\ r.next <= now}

RetryDue(now) ==
  {r \in rows : r.status = "failed" /\ r.attempts < MaxAttempts /\ r.next <= now}

BeginRetry ==
  /\ pass.phase = "due" /\ pass.queue = <<>>
  /\ LET failed == RetryDue(pass.now) IN
       \E list \in kSubset(Lesser(Limit, Cardinality(failed)), failed) :
         pass' = [pass EXCEPT !.phase = "retry", !.retries = list]
  /\ UNCHANGED <<clock, note, rows, arrived, planner, mishaps>>

\* UPDATE ... WHERE id: a row deleted meanwhile stays deleted.
Update(r, s) == rows' = IF r \in rows THEN (rows \ {r}) \cup {s} ELSE rows

reminderMomentHasPassed(n, now) == Moment[n] < now

\* Left as it is, failed and due: every pass lists it again.
LeaveFailed(r) ==
  /\ ~Configured(r.who, r.channel) /\ ~reminderMomentHasPassed(r.note, pass.now)
  /\ pass' = [pass EXCEPT !.retries = @ \ {r}]
  /\ UNCHANGED <<rows, arrived>>

Expire(r) ==
  /\ reminderMomentHasPassed(r.note, pass.now)
  /\ Update(r, [r EXCEPT !.status = "skipped"])
  /\ pass' = [pass EXCEPT !.retries = @ \ {r}]
  /\ UNCHANGED arrived

FailAgain(r) ==
  /\ Configured(r.who, r.channel) /\ ~reminderMomentHasPassed(r.note, pass.now)
  /\ Update(r, [r EXCEPT !.attempts = @ + 1, !.next = pass.now + Backoff[r.attempts + 1]])
  /\ pass' = [pass EXCEPT !.retries = @ \ {r}]
  /\ UNCHANGED arrived

SendAgain(r) ==
  /\ Configured(r.who, r.channel) /\ ~reminderMomentHasPassed(r.note, pass.now)
  /\ arrived' = [arrived EXCEPT ![r.note][r.who] = @ + 1]
  /\ pass' = [pass EXCEPT !.retries = @ \ {r}, !.unrecorded = {r}]
  /\ UNCHANGED rows

\* A failed delivery has an address, and its channel exists, or it had not failed.
Retry(r) ==
  /\ pass.phase = "retry" /\ pass.unrecorded = {} /\ r \in pass.retries
  /\ LeaveFailed(r) \/ Expire(r) \/ FailAgain(r) \/ SendAgain(r)
  /\ UNCHANGED <<clock, note, planner, mishaps>>

RecordRetry_lost(r) ==
  /\ r \in pass.unrecorded
  /\ Update(r, [r EXCEPT !.next = pass.now])
  /\ pass' = [pass EXCEPT !.unrecorded = {}]
  /\ UNCHANGED <<clock, note, arrived, planner, mishaps>>

RecordRetry(r) ==
  /\ r \in pass.unrecorded
  /\ Update(r, [r EXCEPT !.status = "sent"])
  /\ pass' = [pass EXCEPT !.unrecorded = {}]
  /\ UNCHANGED <<clock, note, arrived, planner, mishaps>>

EndPass_keepsLock ==
  /\ pass.phase = "retry" /\ pass.retries = {} /\ pass.unrecorded = {}
  /\ pass' = [Idle EXCEPT !.phase = "locked"]
  /\ UNCHANGED <<clock, note, rows, arrived, planner, mishaps>>

EndPass ==
  /\ pass.phase = "retry" /\ pass.retries = {} /\ pass.unrecorded = {}
  /\ pass' = Idle
  /\ UNCHANGED <<clock, note, rows, arrived, planner, mishaps>>

\* The notification whose message has left and is not on record yet.
InHand ==
  IF pass.phase = "sending" THEN Head(pass.queue)
  ELSE IF pass.unrecorded # {} THEN (CHOOSE r \in pass.unrecorded : TRUE).note
  ELSE NoNote

\* The process dies: open transactions are rolled back, GET_LOCK is released.
Crash ==
  /\ pass.phase # "idle" /\ MishapsLeft
  /\ Mishap(InHand)
  /\ pass' = Idle /\ planner' = NoPlan
  /\ UNCHANGED <<clock, note, rows, arrived>>

Tick ==
  /\ clock < MaxTime
  /\ clock' = clock + 1
  /\ UNCHANGED <<note, rows, arrived, pass, planner, mishaps>>

-----------------------------------------------------------------------------
runNotificationDispatch ==
  \/ BeginPass \/ SkipNotification \/ CancelWarning \/ StartNotification
  \/ \E p \in People, c \in Channels : Deliver(p, c)
  \/ Commit \/ BeginRetry
  \/ \E r \in pass.retries : Retry(r)
  \/ \E r \in pass.unrecorded : RecordRetry(r)
  \/ EndPass

Next ==
  \/ \E n \in Notes : Enqueue(n) \/ cancelNotification(n) \/ queueShiftChanges(n)
  \/ BeginPlan
  \/ runNotificationDispatch
  \/ RollBack \/ Crash \/ Tick

Spec == Init /\ [][Next]_vars

\* The timer starts a pass every 30 seconds and a pass runs to its end; nothing
\* makes anyone enqueue, cancel or edit.
FairSpec == Spec /\ WF_vars(runNotificationDispatch) /\ WF_vars(Tick)
-----------------------------------------------------------------------------
(* Properties.                                                             *)

Statuses == {"none", "scheduled", "sent", "partially_failed", "cancelled", "deleted"}
Phases == {"idle", "due", "sending", "retry"}
NoteSet == [status : Statuses, due : Times, started : Times, changes : 0 .. MaxChanges]
RowSet == [note : Notes, who : People, channel : Channels, copy : Nat,
           status : {"sent", "failed", "skipped"}, attempts : Nat, next : Nat]
RetrySet == {r \in RowSet : r.attempts < MaxAttempts}
PassSet == [phase : Phases, now : Times, on : SUBSET People, queue : Seq(Notes), todo : SUBSET Wants,
            new : SUBSET RowSet, deferred : BOOLEAN, failed : BOOLEAN,
            retries : SUBSET RetrySet, unrecorded : SUBSET RetrySet]
PlannerSet == [open : BOOLEAN, delivered : SUBSET Notes]

\* The type invariant: every row holds what its columns can hold, every waiting
\* notification comes due within the modelled time, a transaction is only open
\* for a notification the pass has in hand, which defers only in quiet hours.
TypeOK ==
  /\ clock \in Times
  /\ note \in [Notes -> NoteSet]
  /\ rows \subseteq RowSet /\ IsFiniteSet(rows)
  /\ arrived \in [Notes -> [People -> Nat]]
  /\ pass \in PassSet /\ IsFiniteSet(pass.new)
  /\ pass.phase = "sending" => pass.queue # <<>>
  /\ pass.deferred => isWithinQuietHours(pass.now)
  /\ planner \in PlannerSet
  /\ mishaps \in [Notes \cup {NoNote} -> Nat]

\* Nobody gets the same e-mail twice, unless a crash or a rollback cut the very
\* sending of that notification short: deferrals, later passes and retries never
\* send again what has left (dispatch.ts 211-213, 327).
AtMostOnce == \A n \in Notes, p \in People : arrived[n][p] <= 1 + mishaps[n]

SameDelivery(r, s) == r.note = s.note /\ r.who = s.who /\ r.channel = s.channel

\* A member with an account has one delivery per notification and channel, also
\* when the notification is processed on both sides of the quiet hours
\* (dispatch.ts 211-213).
OneCopy == \A r, s \in rows : SameDelivery(r, s) /\ r.who \notin Anonymous => r = s

\* A notification is only marked sent once every recipient has a delivery on
\* every channel that is configured, and "sent" without reservation means none of
\* them failed: the quiet hours drop nothing (dispatch.ts 237-251).
SentMeansDelivered ==
  [][\A n \in Notes :
       note[n].status = "scheduled" /\ note'[n].status \in {"sent", "partially_failed"} =>
            /\ \A w \in Wants \ Unconfigured :
                 \E r \in rows' : r.note = n /\ <<r.who, r.channel>> = w
            /\ note'[n].status = "sent" => \A r \in rows' : r.note = n => r.status # "failed"]_vars

\* What is on record for n, and for whom it is recorded as failed.
Delivered(n) == {<<r.who, r.channel>> : r \in {s \in rows : s.note = n}}
FailedTo(n) == {r.who : r \in {s \in rows : s.note = n /\ s.status = "failed"}}

\* Passes, locks, transactions, deferrals, retries and crashes come to what
\* NotificationOutbox says: a copy leaves while the notification waits, outside the
\* quiet hours, or again after it failed, and never while one that no mishap explains
\* is out; only what is all on record is settled; what is cancelled or withdrawn is
\* left alone (dispatch.ts 78-337).
Outbox ==
  INSTANCE NotificationOutbox WITH
    status <- [n \in Notes |-> note[n].status],
    recorded <- [n \in Notes |-> Delivered(n)],
    failed <- [n \in Notes |-> FailedTo(n)],
    copies <- arrived,
    mishaps <- [n \in Notes |-> mishaps[n]],
    hour <- pass.now,
    on <- pass.on

ImplementsOutbox == Outbox!Spec

\* Once it is cancelled or withdrawn, nothing more of a notification is sent or
\* recorded, even by a pass that had already listed it (dispatch.ts 80-91).
CancelledStaysSilent ==
  [][\A n \in Notes : note[n].status \in {"cancelled", "deleted"} =>
       /\ arrived'[n] = arrived[n]
       /\ {r \in rows' : r.note = n} \subseteq {r \in rows : r.note = n}]_vars

\* A change is never merged into a summary that has been mailed, so no one is
\* left with an outdated summary; after a rollback the row counts as unsent
\* (dispatch.ts 80-82, changeDigest.ts 90-102).
NeverEditsHalfSent ==
  [][\A n \in Notes : note'[n].changes # note[n].changes =>
       \A p \in People : arrived[n][p] <= mishaps[n]]_vars

\* Every planned notification is eventually sent, cancelled or withdrawn: none is
\* lost between the quiet hours, crashes, rollbacks and the dispatcher's lock.
EventuallySettled ==
  \A n \in Notes :
    note[n].status = "scheduled" ~>
      note[n].status \in {"sent", "partially_failed", "cancelled", "deleted"}

StillFailing(n, p, a) ==
  \E r \in rows : /\ r.note = n /\ r.who = p /\ r.status = "failed"
                  /\ r.attempts = a /\ r.next <= MaxTime

\* What a pass leaves failed and due takes a place of its list for nothing.
Stuck == {r \in RetryDue(pass.now) : /\ ~Configured(r.who, r.channel)
                                     /\ ~reminderMomentHasPassed(r.note, pass.now)}

\* A retry pass that finds p's channel off, or may find its list full of such rows.
Hindered(p) ==
  pass.phase = "retry" /\ (p \notin pass.on \/ Cardinality(Stuck) >= Limit)

\* A failed delivery with attempts left is tried again until it is sent, given up
\* or pointless, unless its channel is off again and again, or deliveries whose
\* channel is off fill the fifty rows of a pass again and again (dispatch.ts 280-337).
RetriesGoOn ==
  \A n \in Notes, p \in People, a \in 1 .. (MaxAttempts - 1) :
    StillFailing(n, p, a) ~> (~StillFailing(n, p, a) \/ Hindered(p))
-----------------------------------------------------------------------------
(* What makes the safety properties inductive.                             *)

OnRecord(n, p) ==
  \/ \E r \in rows \cup pass.new :
       r.note = n /\ r.who = p /\ r.channel = "email" /\ r.status = "sent"
  \/ \E r \in pass.unrecorded : r.note = n /\ r.who = p

\* An e-mail that left is on record, in the open transaction or about to be
\* recorded, unless a mishap cut its sending.
SendsAccounted ==
  \A n \in Notes, p \in People :
    arrived[n][p] <= mishaps[n] \/ (arrived[n][p] = 1 + mishaps[n] /\ OnRecord(n, p))

\* E-mails are the last thing of a notification to be committed; only they fail, and
\* then it is not marked sent.
MailRowsFinal ==
  /\ \A r \in rows : r.channel = "email" =>
                       note[r.note].status \in {"sent", "partially_failed"}
  /\ \A r \in rows \cup pass.new : r.status = "failed" => r.channel = "email"
  /\ \A r \in rows : r.status = "failed" => note[r.note].status # "sent"

UniqueRows ==
  \A r, s \in rows \cup pass.new :
    SameDelivery(r, s) /\ (r.channel = "email" \/ r.who \notin Anonymous) => r = s

\* The open transaction: its notification is still scheduled, each pair of
\* recipient and channel is done or to do, and what is done left its row or was
\* deferred.
TransactionInv ==
  /\ pass.phase = "sending" =>
       LET n == Head(pass.queue) IN
       /\ note[n].status = "scheduled"
       /\ \A r \in pass.new : /\ r.note = n /\ <<r.who, r.channel>> \notin pass.todo
                              /\ ~HeldBack(r.channel)
                              /\ r.status = "failed" => pass.failed
       /\ \A w \in (Wants \ Unconfigured) \ pass.todo :
            \/ pass.deferred
            \/ \E r \in rows \cup pass.new : r.note = n /\ <<r.who, r.channel>> = w
  /\ pass.phase # "sending" => pass.new = {}

\* The retry list stays what it was when it was read, row by row.
RetryInv ==
  /\ pass.retries \cup pass.unrecorded \subseteq {r \in rows : r.status = "failed"}
  /\ pass.retries \cap pass.unrecorded = {}
  /\ \A r, s \in pass.unrecorded : r = s
  /\ pass.phase # "retry" => pass.retries = {} /\ pass.unrecorded = {}

\* A transaction that counts a failure holds the delivery that failed.
FailureSeen == pass.failed => \E r \in pass.new : r.status = "failed"

\* The inductive invariant of the dispatcher: what left the system, what is on
\* record and what is still to do agree at every step (dispatch.ts 78-337).
SendInv ==
  /\ SendsAccounted /\ MailRowsFinal /\ UniqueRows
  /\ TransactionInv /\ RetryInv
=============================================================================
