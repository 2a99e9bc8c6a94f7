---------------------- MODULE NotificationDispatchProofs ----------------------
(***************************************************************************)
(* Proofs about NotificationDispatch for any notifications, recipients,    *)
(* channels, quiet hours, limits and mishaps: the types, and the invariant *)
(* SendInv with the safety properties that follow from it.                 *)
(***************************************************************************)
EXTENDS NotificationDispatch, FiniteSetTheorems, WellFoundedInduction, TLAPS

\* A set of natural numbers that is not empty has a least element.
LEMMA LeastNatural ==
  ASSUME NEW T \in SUBSET Nat, T # {} PROVE \E x \in T : \A y \in T : x <= y
<1>1. \E x \in T : \A y \in T : ~(<<y, x>> \in OpToRel(<, Nat))
  BY WFMin, NatLessThanWellFounded, Zenon
<1>2. PICK x \in T : \A y \in T : ~(<<y, x>> \in OpToRel(<, Nat))
  BY <1>1, Zenon
<1>3. \A y \in T : ~(y < x)
  BY <1>2, Zenon DEF OpToRel
<1>. QED
  BY <1>3

USE DispatchAssumption

-----------------------------------------------------------------------------
(* Types.                                                                  *)

\* A due list holds notifications.
LEMMA DueListType ==
  ASSUME NEW now, NEW list \in DueLists(now) PROVE list \in Seq(Notes)
<1>. DEFINE Due == {n \in Notes : IsDue(n, now)}
<1>1. PICK q \in SetToSeqs(Due) : list = SubSeq(q, 1, Lesser(Limit, Len(q)))
  BY DEF DueLists
<1>2. Cardinality(Due) \in Nat
  <2>1. IsFiniteSet(Due)
    BY FS_Subset
  <2>. QED
    BY <2>1, FS_CardinalityType
<1>3. q \in [1 .. Cardinality(Due) -> Due]
  BY DEF SetToSeqs
<1>. HIDE DEF Due
<1>4. q \in Seq(Due) /\ Len(q) \in Nat
  BY <1>2, <1>3
<1>5. Lesser(Limit, Len(q)) \in 0 .. Len(q)
  BY <1>4 DEF Lesser
<1>6. list \in Seq(Due)
  BY <1>1, <1>4, <1>5
<1>. QED
  BY <1>6 DEF Due

\* The quiet hours end within the modelled time.
LEMMA QuietEndType ==
  ASSUME NEW now \in Times, isWithinQuietHours(now) PROVE quietHoursEnd(now) \in Times
<1>. DEFINE Later == {t \in Times : t > now /\ t \notin Quiet}
<1>1. MaxTime \in Later
  BY DEF Times, isWithinQuietHours
<1>2. Later \in SUBSET Nat
  BY DEF Times
<1>3. \E t \in Later : \A u \in Later : t <= u
  <2>. HIDE DEF Later
  <2>. QED
    BY <1>1, <1>2, LeastNatural
<1>. QED
  BY <1>3 DEF quietHoursEnd, Min

\* The pass after its first notification is dealt with.
LEMMA DropHeadType ==
  ASSUME TypeOK, pass.queue # <<>>
  PROVE  /\ DropHead(pass) \in PassSet
         /\ DropHead(pass).phase = "due" /\ DropHead(pass).now = pass.now
         /\ DropHead(pass).new = {} /\ DropHead(pass).deferred = FALSE
         /\ DropHead(pass).retries = {} /\ DropHead(pass).unrecorded = {}
<1>1. Tail(pass.queue) \in Seq(Notes)
  BY DEF TypeOK, PassSet
<1>. QED
  BY <1>1 DEF TypeOK, PassSet, DropHead, Idle, Phases

\* A delivery of the notification in hand is a row.
LEMMA RowType ==
  ASSUME TypeOK, NEW n \in Notes, NEW p \in People, NEW c \in Channels,
         NEW status \in {"sent", "failed", "skipped"}
  PROVE  Row(n, p, c, status) \in RowSet
<1>1. IsFiniteSet(Key(n, p, c))
  <2>1. IsFiniteSet(rows \cup pass.new)
    BY FS_Union DEF TypeOK
  <2>. QED
    BY <2>1, FS_Subset DEF Key
<1>2. Cardinality(Key(n, p, c)) \in Nat
  BY <1>1, FS_CardinalityType
<1>3. pass.now + Backoff[1] \in Nat
  BY DEF TypeOK, PassSet, Times
<1>. QED
  BY <1>2, <1>3 DEF Row, RowSet

LEMMA IdleType == Idle \in PassSet /\ NoPlan \in PlannerSet
  BY DEF Idle, NoPlan, PassSet, PlannerSet, Phases, Times

LEMMA TypeInit == Init => TypeOK
<1>. SUFFICES ASSUME Init PROVE TypeOK
  OBVIOUS
<1>1. IsFiniteSet(rows) /\ IsFiniteSet(pass.new)
  BY FS_EmptySet DEF Init, Idle
<1>2. note \in [Notes -> NoteSet] /\ clock \in Times
  BY DEF Init, NoteSet, Statuses, Times
<1>3. pass.phase # "sending" /\ pass.deferred = FALSE
  BY DEF Init, Idle
<1>. QED
  BY <1>1, <1>2, <1>3, IdleType DEF Init, TypeOK

\* Planning and cancelling keep the types.
LEMMA TypeNotes ==
  ASSUME TypeOK, NEW n \in Notes,
         Enqueue(n) \/ cancelNotification(n) \/ queueShiftChanges(n)
  PROVE  TypeOK'
<1>1. CASE Enqueue(n)
  <2>1. note' \in [Notes -> NoteSet]
    BY <1>1 DEF Enqueue, TypeOK, NoteSet, Statuses, Times
  <2>. QED
    BY <1>1, <2>1 DEF Enqueue, TypeOK
<1>2. CASE cancelNotification(n)
  <2>1. note' \in [Notes -> NoteSet]
    BY ZenonT(40), <1>2 DEF cancelNotification, TypeOK, NoteSet, Statuses
  <2>. QED
    BY <1>2, <2>1 DEF cancelNotification, TypeOK
<1>3. CASE queueShiftChanges(n)
  <2>. USE <1>3 DEF queueShiftChanges
  <2>1. bundleSchedule(clock) \in Times
    BY DEF bundleSchedule, Lesser, TypeOK, Times, BundleCapFactor
  <2>2. bundleSchedule(note[n].started) \in Times
    BY DEF bundleSchedule, Lesser, TypeOK, NoteSet, Times, BundleCapFactor
  <2>3. /\ note' \in [Notes -> NoteSet]
        /\ rows' \subseteq RowSet /\ IsFiniteSet(rows')
    <3>1. CASE MergeDigest(n)
      <4>. DEFINE merged == [note[n] EXCEPT !.due = bundleSchedule(note[n].started),
                                            !.changes = @ + 1]
      <4>1. merged \in NoteSet
        <5>1. note[n] \in NoteSet
          BY DEF TypeOK
        <5>2. note[n].changes + 1 \in 0 .. MaxChanges
          BY <3>1, <5>1 DEF MergeDigest, NoteSet
        <5>. QED
          BY <2>2, <5>1, <5>2 DEF NoteSet
      <4>2. note' = [note EXCEPT ![n] = merged]
        BY <3>1 DEF MergeDigest
      <4>. QED
        BY <3>1, <4>1, <4>2 DEF MergeDigest, TypeOK
    <3>2. CASE DropDigest(n)
      <4>1. note' \in [Notes -> NoteSet]
        BY ZenonT(40), <3>2 DEF DropDigest, TypeOK, NoteSet, Statuses
      <4>2. rows' \in SUBSET rows
        BY <3>2 DEF DropDigest
      <4>. QED
        BY <4>1, <4>2, FS_Subset DEF TypeOK
    <3>3. CASE PlanDigest(n)
      BY <2>1, <3>3 DEF PlanDigest, TypeOK, NoteSet, Statuses
    <3>4. CASE NothingToSay
      BY <3>4 DEF NothingToSay, TypeOK
    <3>. QED
      BY <3>1, <3>2, <3>3, <3>4
  <2>. QED
    BY <2>3, IdleType DEF TypeOK
<1>. QED
  BY <1>1, <1>2, <1>3

\* Reading the due list, skipping, cancelling and locking keep the types.
LEMMA TypeBegin ==
  ASSUME TypeOK, BeginPass \/ SkipNotification \/ CancelWarning \/ StartNotification
  PROVE  TypeOK'
<1>1. CASE BeginPass
  <2>1. PICK list \in DueLists(clock), on \in Setups :
          pass' = [Idle EXCEPT !.phase = "due", !.now = clock, !.on = on, !.queue = list]
    BY <1>1 DEF BeginPass
  <2>2. pass' \in PassSet /\ pass'.new = {} /\ pass'.phase = "due" /\ pass'.deferred = FALSE
    BY <2>1, DueListType DEF TypeOK, PassSet, Idle, Phases
  <2>. QED
    BY <1>1, <2>2, FS_EmptySet DEF BeginPass, TypeOK
<1>2. CASE SkipNotification
  BY <1>2, DropHeadType, FS_EmptySet DEF SkipNotification, TypeOK
<1>3. CASE CancelWarning
  <2>. DEFINE n == Head(pass.queue)
  <2>1. note' = [note EXCEPT ![n].status = "cancelled"]
    BY <1>3 DEF CancelWarning
  <2>2. note \in [Notes -> NoteSet]
    BY DEF TypeOK
  <2>3. \A m \in Notes : [note[m] EXCEPT !.status = "cancelled"] \in NoteSet
    BY <2>2 DEF NoteSet, Statuses
  <2>. HIDE DEF n
  <2>4. note' \in [Notes -> NoteSet]
    BY <2>1, <2>2, <2>3
  <2>. QED
    BY <1>3, <2>4, DropHeadType, FS_EmptySet DEF CancelWarning, TypeOK
<1>4. CASE StartNotification
  <2>1. PICK off \in SUBSET Unconfigured :
          pass' = [pass EXCEPT !.phase = "sending", !.todo = Wants \ off]
    BY <1>4 DEF StartNotification
  <2>2. /\ pass' \in PassSet /\ pass'.new = pass.new /\ pass'.queue = pass.queue
        /\ pass'.deferred = pass.deferred /\ pass'.now = pass.now
    BY <2>1 DEF TypeOK, PassSet, Phases
  <2>. QED
    BY <1>4, <2>2 DEF StartNotification, TypeOK, isWithinQuietHours
<1>. QED
  BY <1>1, <1>2, <1>3, <1>4

\* So does each delivery.
LEMMA TypeDeliver ==
  ASSUME TypeOK, NEW p \in People, NEW c \in Channels, Deliver(p, c)
  PROVE  TypeOK'
<1>. DEFINE n == Head(pass.queue)
<1>1. n \in Notes /\ pass.phase = "sending"
  BY DEF Deliver, TypeOK, PassSet
<1>2. CASE Defer(p, c)
  <2>1. pass' \in PassSet /\ pass'.new = pass.new /\ pass'.queue = pass.queue
        /\ pass'.now = pass.now
    BY <1>2 DEF Defer, TypeOK, PassSet
  <2>2. isWithinQuietHours(pass.now)
    BY <1>2 DEF Defer, HeldBack
  <2>. QED
    BY <1>1, <1>2, <2>1, <2>2 DEF Defer, Deliver, TypeOK, isWithinQuietHours
<1>3. CASE AlreadyDelivered(p, c)
  <2>1. pass' \in PassSet /\ pass'.new = pass.new /\ pass'.queue = pass.queue
        /\ pass'.now = pass.now /\ pass'.deferred = pass.deferred
    BY <1>3 DEF AlreadyDelivered, TypeOK, PassSet
  <2>. QED
    BY <1>1, <1>3, <2>1 DEF AlreadyDelivered, Deliver, TypeOK, isWithinQuietHours
<1>4. ASSUME NEW result \in {"sent", "failed", "skipped"}, Attempt(p, c, result)
      PROVE  TypeOK'
  <2>. DEFINE row == Row(n, p, c, result)
  <2>1. row \in RowSet
    BY <1>1, RowType
  <2>2. IsFiniteSet(pass.new \cup {row})
    BY FS_AddElement DEF TypeOK
  <2>3. pass' = [pass EXCEPT !.todo = @ \ {<<p, c>>}, !.new = @ \cup {row},
                             !.failed = @ \/ result = "failed"]
    BY <1>4 DEF Attempt
  <2>. HIDE DEF row
  <2>4. (pass.failed \/ result = "failed") \in BOOLEAN
    OBVIOUS
  <2>5. pass' \in PassSet /\ pass'.new = pass.new \cup {row} /\ pass'.queue = pass.queue
        /\ pass'.now = pass.now /\ pass'.deferred = pass.deferred
    BY <2>1, <2>3, <2>4 DEF TypeOK, PassSet
  <2>6. arrived' \in [Notes -> [People -> Nat]]
    <3>1. arrived' = arrived \/ arrived' = [arrived EXCEPT ![n][p] = @ + 1]
      BY <1>4 DEF Attempt
    <3>2. [arrived[n] EXCEPT ![p] = @ + 1] \in [People -> Nat]
      BY <1>1 DEF TypeOK
    <3>. QED
      BY <1>1, <3>1, <3>2 DEF TypeOK
  <2>. QED
    BY <1>1, <2>2, <2>5, <2>6 DEF Deliver, TypeOK, isWithinQuietHours
<1>. QED
  BY <1>2, <1>3, <1>4 DEF Deliver

\* And so does the end of a transaction.
LEMMA TypeCommit == ASSUME TypeOK, Commit PROVE TypeOK'
<1>1. Outcome(Head(pass.queue)) \in [Notes -> NoteSet]
  <2>1. CASE pass.deferred
    <3>1. quietHoursEnd(pass.now) \in Times
      BY <2>1, QuietEndType DEF TypeOK, PassSet
    <3>. QED
      BY ZenonT(40), <2>1, <3>1 DEF Outcome, TypeOK, NoteSet
  <2>2. CASE ~pass.deferred
    <3>1. note[Head(pass.queue)] \in NoteSet
      BY DEF Commit, TypeOK, PassSet
    <3>. QED
      BY <2>2, <3>1 DEF Outcome, TypeOK, NoteSet, Statuses
  <2>. QED
    BY <2>1, <2>2
<1>2. IsFiniteSet(rows \cup pass.new)
  BY FS_Union DEF TypeOK
<1>3. rows \cup pass.new \subseteq RowSet
  BY DEF TypeOK, PassSet
<1>4. pass.queue # <<>>
  BY DEF Commit, TypeOK
<1>. QED
  BY <1>1, <1>2, <1>3, <1>4, DropHeadType, FS_EmptySet DEF Commit, TypeOK

\* Rewriting a row keeps the table's type.
LEMMA UpdateType ==
  ASSUME TypeOK, NEW r, NEW s \in RowSet, Update(r, s)
  PROVE  rows' \subseteq RowSet /\ IsFiniteSet(rows')
<1>1. IsFiniteSet((rows \ {r}) \cup {s})
  <2>1. IsFiniteSet(rows \ {r})
    BY FS_RemoveElement DEF TypeOK
  <2>. QED
    BY <2>1, FS_AddElement
<1>. QED
  BY <1>1 DEF Update, TypeOK

LEMMA TypeRetry ==
  ASSUME TypeOK, NEW r \in pass.retries, Retry(r) PROVE TypeOK'
<1>. DEFINE skipped == [r EXCEPT !.status = "skipped"]
            again == [r EXCEPT !.attempts = @ + 1, !.next = pass.now + Backoff[r.attempts + 1]]
<1>1. r \in RetrySet /\ pass.phase = "retry"
  BY DEF Retry, TypeOK, PassSet
<1>2. skipped \in RowSet
  BY <1>1 DEF RetrySet, RowSet
<1>3. again \in RowSet
  <2>1. r.attempts + 1 \in 1 .. MaxAttempts
    BY <1>1 DEF RetrySet, RowSet
  <2>2. pass.now + Backoff[r.attempts + 1] \in Nat
    BY <2>1 DEF TypeOK, PassSet, Times
  <2>3. r \in RowSet /\ r.attempts + 1 \in Nat
    BY <1>1 DEF RetrySet, RowSet
  <2>. QED
    BY <2>2, <2>3 DEF RowSet
<1>4. rows' \subseteq RowSet /\ IsFiniteSet(rows')
  <2>1. Update(r, skipped) \/ Update(r, again) \/ rows' = rows
    BY DEF Retry, LeaveFailed, Expire, FailAgain, SendAgain
  <2>. HIDE DEF skipped, again
  <2>. QED
    BY <1>2, <1>3, <2>1, UpdateType DEF TypeOK
<1>5. pass' \in PassSet /\ pass'.new = pass.new /\ pass'.phase = "retry"
      /\ pass'.deferred = pass.deferred /\ pass'.now = pass.now
  <2>1. pass \in PassSet /\ pass.retries \ {r} \in SUBSET RetrySet /\ {r} \in SUBSET RetrySet
    BY <1>1 DEF TypeOK, PassSet
  <2>2. CASE pass' = [pass EXCEPT !.retries = @ \ {r}]
    BY <1>1, <2>1, <2>2 DEF PassSet
  <2>3. CASE pass' = [pass EXCEPT !.retries = @ \ {r}, !.unrecorded = {r}]
    BY <1>1, <2>1, <2>3 DEF PassSet
  <2>. QED
    BY <2>2, <2>3 DEF Retry, LeaveFailed, Expire, FailAgain, SendAgain
<1>6. arrived' \in [Notes -> [People -> Nat]]
  <2>1. arrived' = arrived \/ arrived' = [arrived EXCEPT ![r.note][r.who] = @ + 1]
    BY DEF Retry, LeaveFailed, Expire, FailAgain, SendAgain
  <2>2. r.note \in Notes /\ r.who \in People
    BY <1>1 DEF RetrySet, RowSet
  <2>3. [arrived[r.note] EXCEPT ![r.who] = @ + 1] \in [People -> Nat]
    BY <2>2 DEF TypeOK
  <2>. QED
    BY <2>1, <2>2, <2>3 DEF TypeOK
<1>. QED
  BY <1>4, <1>5, <1>6 DEF Retry, TypeOK, isWithinQuietHours

\* The rest of the pass, mishaps and the clock.
LEMMA TypeRest ==
  ASSUME TypeOK,
         \/ BeginRetry \/ EndPass \/ RollBack \/ Crash \/ Tick
         \/ \E r \in pass.unrecorded : RecordRetry(r)
  PROVE  TypeOK'
<1>1. CASE BeginRetry
  <2>1. PICK list \in SUBSET RetryDue(pass.now) :
          pass' = [pass EXCEPT !.phase = "retry", !.retries = list]
    BY <1>1 DEF BeginRetry, kSubset
  <2>2. list \in SUBSET RetrySet
    BY <2>1 DEF RetryDue, RetrySet, TypeOK
  <2>3. pass' \in PassSet /\ pass'.new = pass.new /\ pass'.phase = "retry"
        /\ pass'.deferred = pass.deferred /\ pass'.now = pass.now
    BY <2>1, <2>2 DEF TypeOK, PassSet, Phases
  <2>. QED
    BY <1>1, <2>3 DEF BeginRetry, TypeOK, isWithinQuietHours
<1>2. CASE EndPass
  <2>1. pass'.new = {} /\ pass'.phase = "idle" /\ pass'.deferred = FALSE
    BY <1>2 DEF EndPass, Idle
  <2>. QED
    BY <1>2, <2>1, IdleType, FS_EmptySet DEF EndPass, TypeOK
<1>3. CASE RollBack
  <2>1. pass.queue # <<>> /\ Head(pass.queue) \in Notes
    BY <1>3 DEF RollBack, TypeOK, PassSet
  <2>2. mishaps' \in [Notes \cup {NoNote} -> Nat]
    BY <1>3, <2>1 DEF RollBack, Mishap, TypeOK
  <2>. QED
    BY <1>3, <2>1, <2>2, DropHeadType, FS_EmptySet DEF RollBack, TypeOK
<1>4. CASE Crash
  <2>1. pass'.new = {} /\ pass'.phase = "idle" /\ pass'.deferred = FALSE
    BY <1>4 DEF Crash, Idle
  <2>2. mishaps' \in [Notes \cup {NoNote} -> Nat]
    <3>. DEFINE n == InHand
    <3>1. mishaps' = [mishaps EXCEPT ![n] = @ + 1]
      BY <1>4 DEF Crash, Mishap
    <3>. HIDE DEF n
    <3>2. CASE n \in Notes \cup {NoNote}
      BY <3>1, <3>2 DEF TypeOK
    <3>3. CASE n \notin Notes \cup {NoNote}
      BY <3>1, <3>3 DEF TypeOK
    <3>. QED
      BY <3>2, <3>3
  <2>. QED
    BY <1>4, <2>1, <2>2, IdleType, FS_EmptySet DEF Crash, TypeOK
<1>5. CASE Tick
  BY <1>5 DEF Tick, TypeOK, Times
<1>6. ASSUME NEW r \in pass.unrecorded, RecordRetry(r) PROVE TypeOK'
  <2>. DEFINE sent == [r EXCEPT !.status = "sent"]
  <2>1. sent \in RowSet
    <3>1. r \in RowSet
      BY DEF TypeOK, PassSet, RetrySet
    <3>. QED
      BY <3>1 DEF RowSet
  <2>2. Update(r, sent)
    BY <1>6 DEF RecordRetry
  <2>. HIDE DEF sent
  <2>3. rows' \subseteq RowSet /\ IsFiniteSet(rows')
    BY <2>1, <2>2, UpdateType
  <2>4. pass' \in PassSet /\ pass'.new = pass.new /\ pass'.phase = pass.phase
        /\ pass'.deferred = pass.deferred /\ pass'.now = pass.now
        /\ pass'.queue = pass.queue
    BY <1>6 DEF RecordRetry, TypeOK, PassSet
  <2>. QED
    BY <1>6, <2>3, <2>4 DEF RecordRetry, TypeOK, isWithinQuietHours
<1>. QED
  BY <1>1, <1>2, <1>3, <1>4, <1>5, <1>6

\* Every step keeps the types.
LEMMA TypeNext == TypeOK /\ [Next]_vars => TypeOK'
<1>. SUFFICES ASSUME TypeOK, [Next]_vars PROVE TypeOK'
  OBVIOUS
<1>1. CASE UNCHANGED vars
  BY <1>1 DEF vars, TypeOK, isWithinQuietHours
<1>2. ASSUME NEW n \in Notes, Enqueue(n) \/ cancelNotification(n) \/ queueShiftChanges(n)
      PROVE  TypeOK'
  BY <1>2, TypeNotes
<1>3. CASE BeginPlan
  BY <1>3 DEF BeginPlan, TypeOK, RowSet, PlannerSet
<1>4. ASSUME NEW p \in People, NEW c \in Channels, Deliver(p, c) PROVE TypeOK'
  BY <1>4, TypeDeliver
<1>5. ASSUME NEW r \in pass.retries, Retry(r) PROVE TypeOK'
  BY <1>5, TypeRetry
<1>6. CASE \/ BeginPass \/ SkipNotification \/ CancelWarning \/ StartNotification \/ Commit
           \/ BeginRetry \/ EndPass \/ RollBack \/ Crash \/ Tick
           \/ \E r \in pass.unrecorded : RecordRetry(r)
  BY <1>6, TypeBegin, TypeCommit, TypeRest
<1>. QED
  BY <1>1, <1>2, <1>3, <1>4, <1>5, <1>6 DEF Next, runNotificationDispatch

\* Every table row, every pass and every open transaction is well-formed, and what
\* waits comes due, for any notifications, recipients and bounds (dispatch.ts,
\* enqueue.ts, changeDigest.ts).
THEOREM TypeCorrect == Spec => []TypeOK
  BY TypeInit, TypeNext, PTL DEF Spec

-----------------------------------------------------------------------------
(* The dispatcher's invariant.                                             *)

LEMMA SendInit == Init => SendInv
  BY DEF Init, Idle, SendInv, SendsAccounted, MailRowsFinal, UniqueRows, TransactionInv,
         RetryInv

\* Planning, cancelling and merging: only notifications that are not in hand and
\* not sent change, and only their rows may go.
LEMMA NotesKeepSends ==
  ASSUME TypeOK, SendInv, UNCHANGED <<arrived, pass, mishaps>>,
         rows' \subseteq rows,
         \A r \in rows \ rows' : note'[r.note] # note[r.note],
         \A m \in Notes : note'[m] # note[m] =>
           /\ note[m].status \in {"none", "scheduled"} /\ ~Locked(m)
           /\ note'[m].status \notin {"sent", "partially_failed"}
  PROVE  SendInv'
<1>1. \A r \in rows : r.note \in Notes
  BY DEF TypeOK, RowSet
<1>2. \A r \in rows : r.channel = "email" => r \in rows' /\ note'[r.note] = note[r.note]
  BY <1>1 DEF SendInv, MailRowsFinal
<1>3. SendsAccounted'
  BY <1>2 DEF SendInv, SendsAccounted, OnRecord
<1>4. MailRowsFinal'
  BY <1>2 DEF SendInv, MailRowsFinal
<1>5. UniqueRows'
  BY DEF SendInv, UniqueRows, SameDelivery
<1>6. TransactionInv'
  <2>1. CASE pass.phase # "sending"
    BY <2>1 DEF SendInv, TransactionInv
  <2>2. CASE pass.phase = "sending"
    <3>1. Head(pass.queue) \in Notes
      BY <2>2 DEF TypeOK, PassSet
    <3>2. note'[Head(pass.queue)] = note[Head(pass.queue)]
      BY <2>2, <3>1 DEF Locked
    <3>. QED
      BY <2>2, <3>2 DEF SendInv, TransactionInv, HeldBack, isWithinQuietHours,
                        Unconfigured, Configured
  <2>. QED
    BY <2>1, <2>2
<1>7. RetryInv'
  BY <1>2 DEF SendInv, RetryInv, MailRowsFinal
<1>. QED
  BY <1>3, <1>4, <1>5, <1>6, <1>7 DEF SendInv

LEMMA SendNotes ==
  ASSUME TypeOK, SendInv, NEW n \in Notes,
         Enqueue(n) \/ cancelNotification(n) \/ queueShiftChanges(n)
  PROVE  SendInv'
<1>1. CASE Enqueue(n)
  <2>1. ~Locked(n)
    BY <1>1 DEF Enqueue, Locked, SendInv, TransactionInv
  <2>. QED
    BY <1>1, <2>1, NotesKeepSends DEF Enqueue, TypeOK
<1>2. CASE cancelNotification(n)
  BY <1>2, NotesKeepSends DEF cancelNotification, TypeOK, NoteSet
<1>3. CASE queueShiftChanges(n)
  <2>1. \A d \in Digests : ~Locked(d)
    BY <1>3 DEF queueShiftChanges
  <2>2. UNCHANGED <<arrived, pass, mishaps>>
    BY <1>3 DEF queueShiftChanges
  <2>3. CASE MergeDigest(n)
    BY <2>1, <2>2, <2>3, NotesKeepSends DEF MergeDigest, PendingDigests, TypeOK, NoteSet
  <2>4. CASE DropDigest(n)
    <3>1. note'[n] # note[n] /\ note'[n].status = "deleted"
      BY <2>4 DEF DropDigest, PendingDigests, TypeOK, NoteSet
    <3>. QED
      BY <2>1, <2>2, <2>4, <3>1, NotesKeepSends DEF DropDigest, PendingDigests, TypeOK
  <2>5. CASE PlanDigest(n)
    BY <2>1, <2>2, <2>5, NotesKeepSends DEF PlanDigest, TypeOK
  <2>6. CASE NothingToSay
    BY <2>2, <2>6, NotesKeepSends DEF NothingToSay
  <2>. QED
    BY <1>3, <2>3, <2>4, <2>5, <2>6 DEF queueShiftChanges
<1>. QED
  BY <1>1, <1>2, <1>3

\* The end of a transaction that is not committed, and everything the pass does
\* between its transactions: what was open is forgotten, and if a message has
\* left without a record of it, that counts as a mishap of its notification.
LEMMA PassDrops ==
  ASSUME TypeOK, SendInv, rows' = rows, arrived' = arrived,
         pass'.phase # "sending", pass'.new = {}, pass'.retries = {}, pass'.unrecorded = {},
         \A m \in Notes :
           \/ mishaps'[m] = mishaps[m] + 1
           \/ /\ mishaps'[m] = mishaps[m]
              /\ \A r \in pass.new \cup pass.unrecorded : r.note # m,
         \A m \in Notes :
           \/ note'[m] = note[m]
           \/ note[m].status = "scheduled" /\ note'[m].status = "cancelled"
  PROVE  SendInv'
<1>1. \A r \in rows : r.note \in Notes
  BY DEF TypeOK, RowSet
<1>2. SendsAccounted'
  <2>. SUFFICES ASSUME NEW m \in Notes, NEW p \in People
                PROVE  \/ arrived[m][p] <= mishaps'[m]
                       \/ arrived[m][p] = 1 + mishaps'[m] /\ OnRecord(m, p)'
    BY DEF SendsAccounted
  <2>1. arrived[m][p] \in Nat /\ mishaps[m] \in Nat
    BY DEF TypeOK
  <2>2. arrived[m][p] <= mishaps[m] \/ (arrived[m][p] = 1 + mishaps[m] /\ OnRecord(m, p))
    BY DEF SendInv, SendsAccounted
  <2>3. CASE mishaps'[m] = mishaps[m] + 1
    BY <2>1, <2>2, <2>3
  <2>4. CASE mishaps'[m] = mishaps[m] /\ \A r \in pass.new \cup pass.unrecorded : r.note # m
    <3>1. OnRecord(m, p) => OnRecord(m, p)'
      BY <2>4 DEF OnRecord
    <3>. QED
      BY <2>2, <2>4, <3>1
  <2>. QED
    BY <2>3, <2>4
<1>3. MailRowsFinal'
  BY <1>1 DEF SendInv, MailRowsFinal
<1>4. UniqueRows'
  BY DEF SendInv, UniqueRows, SameDelivery
<1>5. TransactionInv' /\ RetryInv'
  BY DEF TransactionInv, RetryInv
<1>. QED
  BY <1>2, <1>3, <1>4, <1>5 DEF SendInv

\* The steps of a pass that open or send nothing.
LEMMA SendIdle ==
  ASSUME TypeOK, SendInv,
         BeginPass \/ SkipNotification \/ CancelWarning \/ EndPass \/ RollBack \/ Crash
  PROVE  SendInv'
<1>. DEFINE open == pass.new \cup pass.unrecorded
<1>1. /\ pass.phase # "sending" => pass.new = {}
      /\ pass.phase # "retry" => pass.retries = {} /\ pass.unrecorded = {}
  BY DEF SendInv, TransactionInv, RetryInv
<1>2. CASE BeginPass
  <2>1. /\ pass'.phase = "due" /\ pass'.new = {}
        /\ pass'.retries = {} /\ pass'.unrecorded = {}
    BY <1>2 DEF BeginPass, Idle
  <2>2. open = {} /\ UNCHANGED <<note, rows, arrived, mishaps>>
    BY <1>1, <1>2 DEF BeginPass
  <2>. QED
    BY <2>1, <2>2, PassDrops
<1>3. CASE SkipNotification \/ CancelWarning
  <2>1. /\ pass'.phase = "due" /\ pass'.new = {}
        /\ pass'.retries = {} /\ pass'.unrecorded = {}
    BY <1>3 DEF SkipNotification, CancelWarning, DropHead, Idle
  <2>2. open = {} /\ UNCHANGED <<rows, arrived, mishaps>>
    BY <1>1, <1>3 DEF SkipNotification, CancelWarning
  <2>3. ASSUME NEW m \in Notes
        PROVE  \/ note'[m] = note[m]
               \/ note[m].status = "scheduled" /\ note'[m].status = "cancelled"
    BY <1>3 DEF SkipNotification, CancelWarning, ReRead, IsDue, TypeOK, NoteSet
  <2>. QED
    BY <2>1, <2>2, <2>3, PassDrops
<1>4. CASE EndPass
  <2>1. pass' = Idle /\ pass.phase = "retry" /\ pass.unrecorded = {}
    BY <1>4 DEF EndPass
  <2>2. open = {} /\ UNCHANGED <<note, rows, arrived, mishaps>>
    BY <1>1, <1>4, <2>1 DEF EndPass
  <2>. QED
    BY <2>1, <2>2, PassDrops DEF Idle
<1>5. CASE RollBack
  <2>1. /\ pass'.phase = "due" /\ pass'.new = {}
        /\ pass'.retries = {} /\ pass'.unrecorded = {}
    BY <1>5 DEF RollBack, DropHead, Idle
  <2>2. UNCHANGED <<note, rows, arrived>> /\ pass.phase = "sending"
    BY <1>5 DEF RollBack
  <2>3. Head(pass.queue) \in Notes
    BY <2>2 DEF TypeOK, PassSet
  <2>4. \A r \in open : r.note = Head(pass.queue)
    BY <1>1, <2>2 DEF SendInv, TransactionInv
  <2>5. \A m \in Notes : mishaps'[m] = IF m = Head(pass.queue) THEN mishaps[m] + 1 ELSE mishaps[m]
    BY <1>5 DEF RollBack, Mishap, TypeOK
  <2>. QED
    BY <2>1, <2>2, <2>4, <2>5, PassDrops
<1>6. CASE Crash
  <2>1. pass' = Idle /\ UNCHANGED <<note, rows, arrived>>
    BY <1>6 DEF Crash
  <2>2. \A r \in open : r.note = InHand
    <3>1. CASE pass.phase = "sending"
      BY <1>1, <3>1 DEF SendInv, TransactionInv, InHand
    <3>2. CASE pass.phase # "sending"
      BY <1>1, <3>2 DEF SendInv, RetryInv, InHand
    <3>. QED
      BY <3>1, <3>2
  <2>3. \A m \in Notes : mishaps'[m] = IF m = InHand THEN mishaps[m] + 1 ELSE mishaps[m]
    <3>. DEFINE n == InHand
    <3>1. mishaps' = [mishaps EXCEPT ![n] = @ + 1]
      BY <1>6 DEF Crash, Mishap
    <3>. HIDE DEF n
    <3>2. \A m \in Notes : mishaps'[m] = IF m = n THEN mishaps[m] + 1 ELSE mishaps[m]
      BY <3>1 DEF TypeOK
    <3>. QED
      BY <3>2 DEF n
  <2>. QED
    BY <2>1, <2>2, <2>3, PassDrops DEF Idle
<1>. QED
  BY <1>2, <1>3, <1>4, <1>5, <1>6

\* Opening a notification's transaction, or the list of failed deliveries.
LEMMA SendOpens ==
  ASSUME TypeOK, SendInv, StartNotification \/ BeginRetry
  PROVE  SendInv'
<1>1. pass.phase = "due" /\ pass.new = {} /\ pass.retries = {} /\ pass.unrecorded = {}
  BY DEF StartNotification, BeginRetry, SendInv, TransactionInv, RetryInv
<1>2. UNCHANGED <<note, rows, arrived, mishaps>>
  BY DEF StartNotification, BeginRetry
<1>3. pass'.new = {} /\ pass'.unrecorded = {} /\ pass'.queue = pass.queue
  BY <1>1 DEF StartNotification, BeginRetry, TypeOK, PassSet
<1>4. SendsAccounted' /\ MailRowsFinal' /\ UniqueRows'
  BY <1>1, <1>2, <1>3 DEF SendInv, SendsAccounted, OnRecord, MailRowsFinal, UniqueRows,
                          SameDelivery
<1>5. TransactionInv' /\ RetryInv'
  <2>1. CASE StartNotification
    <3>1. PICK off \in SUBSET Unconfigured :
            pass' = [pass EXCEPT !.phase = "sending", !.todo = Wants \ off]
      BY <2>1 DEF StartNotification
    <3>3. /\ pass'.todo = Wants \ off /\ pass'.phase = "sending" /\ pass'.retries = {}
          /\ pass'.on = pass.on
      BY <1>1, <3>1 DEF TypeOK, PassSet
    <3>4. (Wants \ Unconfigured') \ pass'.todo = {}
      BY <3>3 DEF Unconfigured, Configured
    <3>2. note[Head(pass.queue)].status = "scheduled"
      BY <2>1 DEF StartNotification, ReRead, IsDue
    <3>. QED
      BY <1>2, <1>3, <3>2, <3>3, <3>4 DEF TransactionInv, RetryInv
  <2>2. CASE BeginRetry
    <3>1. pass'.phase = "retry" /\ pass'.retries \subseteq RetryDue(pass.now)
      BY <2>2 DEF BeginRetry, kSubset, TypeOK, PassSet
    <3>. QED
      BY <1>2, <1>3, <3>1 DEF TransactionInv, RetryInv, RetryDue
  <2>. QED
    BY <2>1, <2>2
<1>. QED
  BY <1>4, <1>5 DEF SendInv

\* A delivery that is put off, or that the unique key turns down, only leaves the
\* list of what is to do: it is accounted for by the deferral or by its row.
LEMMA SendNothing ==
  ASSUME TypeOK, SendInv, NEW p \in People, NEW c \in Channels, Deliver(p, c),
         Defer(p, c) \/ AlreadyDelivered(p, c)
  PROVE  SendInv'
<1>. DEFINE n == Head(pass.queue)
<1>1. n \in Notes /\ pass.phase = "sending" /\ pass.retries = {} /\ pass.unrecorded = {}
  BY DEF Deliver, TypeOK, PassSet, SendInv, RetryInv
<1>2. UNCHANGED <<note, rows, arrived, mishaps>>
  BY DEF Deliver, Defer, AlreadyDelivered
<1>3. /\ pass'.phase = "sending" /\ pass'.queue = pass.queue /\ pass'.new = pass.new
      /\ pass'.now = pass.now /\ pass'.failed = pass.failed
      /\ pass'.retries = {} /\ pass'.unrecorded = {} /\ pass'.todo = pass.todo \ {<<p, c>>}
      /\ pass'.deferred = (pass.deferred \/ Defer(p, c)) /\ pass'.on = pass.on
  <2>1. CASE Defer(p, c)
    BY <1>1, <2>1 DEF Defer, TypeOK, PassSet
  <2>2. CASE AlreadyDelivered(p, c)
    BY <1>1, <2>2 DEF AlreadyDelivered, Defer, TypeOK, PassSet
  <2>. QED
    BY <2>1, <2>2
<1>4. SendsAccounted' /\ MailRowsFinal' /\ UniqueRows' /\ RetryInv'
  BY <1>1, <1>2, <1>3 DEF SendInv, SendsAccounted, OnRecord, MailRowsFinal, UniqueRows,
                          SameDelivery, RetryInv
<1>5. TransactionInv'
  <2>1. ASSUME NEW w \in (Wants \ Unconfigured) \ pass'.todo
        PROVE  \/ pass'.deferred
               \/ \E r \in rows \cup pass.new : r.note = n /\ <<r.who, r.channel>> = w
    <3>1. CASE w \notin pass.todo
      BY <1>1, <1>3, <3>1 DEF SendInv, TransactionInv
    <3>2. CASE w = <<p, c>>
      BY <1>3, <3>2 DEF AlreadyDelivered, DuplicateEntry, Key
    <3>. QED
      BY <1>3, <2>1, <3>1, <3>2
  <2>2. \A r \in pass.new : /\ r.note = n /\ <<r.who, r.channel>> \notin pass'.todo
                            /\ ~HeldBack(r.channel)
                            /\ r.status = "failed" => pass.failed
    BY <1>1, <1>3 DEF SendInv, TransactionInv
  <2>3. note[n].status = "scheduled"
    BY <1>1 DEF SendInv, TransactionInv
  <2>4. Unconfigured' = Unconfigured
    BY <1>3 DEF Unconfigured, Configured
  <2>. QED
    BY <1>2, <1>3, <2>1, <2>2, <2>3, <2>4 DEF TransactionInv, HeldBack, isWithinQuietHours
<1>. QED
  BY <1>4, <1>5 DEF SendInv

\* An attempt: the message and its row appear together, and no row of the same
\* delivery was there before.
LEMMA SendAttempt ==
  ASSUME TypeOK, SendInv, NEW p \in People, NEW c \in Channels, Deliver(p, c),
         NEW result \in {"sent", "failed", "skipped"}, Attempt(p, c, result)
  PROVE  SendInv'
<1>. DEFINE n == Head(pass.queue)
            row == Row(n, p, c, result)
<1>1. n \in Notes /\ pass.phase = "sending" /\ pass.retries = {} /\ pass.unrecorded = {}
  BY DEF Deliver, TypeOK, PassSet, SendInv, RetryInv
<1>2. UNCHANGED <<note, rows, mishaps>>
  BY DEF Deliver
<1>3. row.note = n /\ row.who = p /\ row.channel = c /\ row.status = result
  BY DEF Row
<1>4. <<p, c>> \in pass.todo /\ ~HeldBack(c) /\ ~DuplicateEntry(n, p, c)
      /\ (result = "failed" => c # "in_app")
  BY DEF Deliver, Attempt, Results
<1>5. /\ pass'.phase = "sending" /\ pass'.queue = pass.queue
      /\ pass'.new = pass.new \cup {row}
      /\ pass'.now = pass.now /\ pass'.failed = (pass.failed \/ result = "failed")
      /\ pass'.retries = {} /\ pass'.unrecorded = {} /\ pass'.todo = pass.todo \ {<<p, c>>}
      /\ pass'.deferred = pass.deferred /\ pass'.on = pass.on
  <2>1. pass' = [pass EXCEPT !.todo = @ \ {<<p, c>>}, !.new = @ \cup {row},
                             !.failed = @ \/ result = "failed"]
    BY DEF Attempt
  <2>. HIDE DEF row
  <2>. QED
    BY <1>1, <2>1 DEF TypeOK, PassSet
<1>6. ASSUME NEW r \in rows \cup pass.new, r.note = n, r.who = p, r.channel = c,
             c = "email" \/ p \notin Anonymous
      PROVE  FALSE
  <2>1. CASE p \notin Anonymous
    BY <1>4, <1>6, <2>1 DEF DuplicateEntry, Key
  <2>2. CASE r \in pass.new
    BY <1>1, <1>4, <1>6, <2>2 DEF SendInv, TransactionInv
  <2>3. CASE r \in rows /\ c = "email"
    <3>1. note[n].status \in {"sent", "partially_failed"}
      BY <1>6, <2>3 DEF SendInv, MailRowsFinal
    <3>2. note[n].status = "scheduled"
      BY <1>1 DEF SendInv, TransactionInv
    <3>. QED
      BY <3>1, <3>2
  <2>. QED
    BY <1>6, <2>1, <2>2, <2>3
<1>. HIDE DEF row
<1>7. SendsAccounted'
  <2>. SUFFICES ASSUME NEW m \in Notes, NEW q \in People
                PROVE  \/ arrived'[m][q] <= mishaps[m]
                       \/ arrived'[m][q] = 1 + mishaps[m] /\ OnRecord(m, q)'
    BY <1>2 DEF SendsAccounted
  <2>1. arrived[m][q] \in Nat /\ mishaps[m] \in Nat
    BY DEF TypeOK
  <2>2. arrived[m][q] <= mishaps[m] \/ (arrived[m][q] = 1 + mishaps[m] /\ OnRecord(m, q))
    BY DEF SendInv, SendsAccounted
  <2>3. OnRecord(m, q) => OnRecord(m, q)'
    BY <1>1, <1>2, <1>5 DEF OnRecord
  <2>4. CASE arrived'[m][q] = arrived[m][q]
    BY <2>2, <2>3, <2>4
  <2>5. CASE arrived'[m][q] # arrived[m][q]
    <3>1. result = "sent" /\ c = "email" /\ arrived' = [arrived EXCEPT ![n][p] = @ + 1]
      BY <2>5 DEF Attempt, Channels
    <3>2. m = n /\ q = p /\ arrived'[m][q] = arrived[m][q] + 1
      BY <1>1, <2>5, <3>1 DEF TypeOK
    <3>3. ~OnRecord(n, p)
      BY <1>1, <1>6, <3>1 DEF OnRecord
    <3>4. OnRecord(m, q)'
      BY <1>3, <1>5, <3>1, <3>2 DEF OnRecord
    <3>. HIDE DEF n
    <3>5. arrived[m][q] <= mishaps[m]
      BY <2>2, <3>2, <3>3 DEF OnRecord
    <3>. QED
      BY <2>1, <3>2, <3>4, <3>5
  <2>. QED
    BY <2>4, <2>5
<1>8. MailRowsFinal'
  BY <1>2, <1>3, <1>4, <1>5 DEF SendInv, MailRowsFinal, Channels
<1>9. UniqueRows'
  BY <1>2, <1>3, <1>5, <1>6 DEF SendInv, UniqueRows, SameDelivery
<1>10. TransactionInv'
  <2>1. ASSUME NEW r \in pass'.new
        PROVE  /\ r.note = n /\ <<r.who, r.channel>> \notin pass'.todo
               /\ ~HeldBack(r.channel)
               /\ r.status = "failed" => pass'.failed
    <3>1. CASE r \in pass.new
      BY <1>1, <1>5, <3>1 DEF SendInv, TransactionInv
    <3>2. CASE r = row
      BY <1>3, <1>4, <1>5, <3>2
    <3>. QED
      BY <1>5, <2>1, <3>1, <3>2
  <2>2. ASSUME NEW w \in (Wants \ Unconfigured) \ pass'.todo
        PROVE  \/ pass'.deferred
               \/ \E r \in rows \cup pass'.new : r.note = n /\ <<r.who, r.channel>> = w
    <3>1. CASE w \notin pass.todo
      BY <1>1, <1>5, <3>1 DEF SendInv, TransactionInv
    <3>2. CASE w = <<p, c>>
      BY <1>3, <1>5, <3>2
    <3>. QED
      BY <1>5, <2>2, <3>1, <3>2
  <2>3. note[n].status = "scheduled"
    BY <1>1 DEF SendInv, TransactionInv
  <2>4. Unconfigured' = Unconfigured
    BY <1>5 DEF Unconfigured, Configured
  <2>. QED
    BY <1>2, <1>5, <2>1, <2>2, <2>3, <2>4 DEF TransactionInv, HeldBack, isWithinQuietHours
<1>11. RetryInv'
  BY <1>2, <1>5 DEF SendInv, RetryInv
<1>. QED
  BY <1>7, <1>8, <1>9, <1>10, <1>11 DEF SendInv

\* The end of a transaction.  Deferred: nothing has left but in-app messages.
LEMMA SendCommit == ASSUME TypeOK, SendInv, Commit PROVE SendInv'
<1>. DEFINE n == Head(pass.queue)
<1>1. /\ n \in Notes /\ pass.phase = "sending" /\ pass.todo = {}
      /\ pass.retries = {} /\ pass.unrecorded = {}
  BY DEF Commit, TypeOK, PassSet, SendInv, RetryInv
<1>2. rows' = rows \cup pass.new /\ UNCHANGED <<arrived, mishaps>> /\ note' = Outcome(n)
  BY DEF Commit
<1>3. /\ pass'.phase = "due" /\ pass'.new = {}
      /\ pass'.retries = {} /\ pass'.unrecorded = {}
  BY DEF Commit, DropHead, Idle
<1>4. /\ note[n].status = "scheduled"
      /\ \A r \in pass.new : /\ r.note = n /\ ~HeldBack(r.channel)
                             /\ r.status = "failed" => pass.failed
  BY <1>1 DEF SendInv, TransactionInv
<1>5. \A m \in Notes \ {n} : note'[m] = note[m]
  BY <1>1, <1>2 DEF Outcome, TypeOK
<1>6. /\ pass.deferred => note'[n].status = "scheduled"
      /\ ~pass.deferred => note'[n].status = IF pass.failed THEN "partially_failed" ELSE "sent"
  <2>1. note[n] \in NoteSet
    BY <1>1 DEF TypeOK
  <2>. QED
    BY <1>1, <1>2, <1>4, <2>1 DEF Outcome, TypeOK, NoteSet
<1>7. \A r \in rows' : r \in RowSet /\ r.note \in Notes
  BY <1>2 DEF TypeOK, PassSet, RowSet
<1>8. SendsAccounted'
  BY <1>1, <1>2, <1>3 DEF SendInv, SendsAccounted, OnRecord
<1>9. MailRowsFinal'
  <2>1. ASSUME NEW r \in rows', r.channel = "email"
        PROVE  note'[r.note].status \in {"sent", "partially_failed"}
    <3>1. CASE r \in rows
      <4>1. note[r.note].status \in {"sent", "partially_failed"}
        BY <2>1, <3>1 DEF SendInv, MailRowsFinal
      <4>. QED
        BY <1>4, <1>5, <1>7, <4>1
    <3>2. CASE r \in pass.new
      <4>1. ~isWithinQuietHours(pass.now)
        BY <1>4, <2>1, <3>2 DEF HeldBack
      <4>2. ~pass.deferred
        BY <4>1 DEF TypeOK
      <4>. QED
        BY <1>4, <1>6, <3>2, <4>2
    <3>. QED
      BY <1>2, <3>1, <3>2
  <2>2. ASSUME NEW r \in rows', r.status = "failed" PROVE note'[r.note].status # "sent"
    <3>1. CASE r \in rows
      <4>1. r.note # n
        BY <1>4, <2>2, <3>1 DEF SendInv, MailRowsFinal
      <4>. QED
        BY <1>5, <1>7, <2>2, <3>1, <4>1 DEF SendInv, MailRowsFinal
    <3>2. CASE r \in pass.new
      BY <1>4, <1>6, <2>2, <3>2
    <3>. QED
      BY <1>2, <3>1, <3>2
  <2>. QED
    BY <1>2, <1>3, <2>1, <2>2 DEF SendInv, MailRowsFinal
<1>10. UniqueRows'
  BY <1>2, <1>3 DEF SendInv, UniqueRows, SameDelivery
<1>11. TransactionInv' /\ RetryInv'
  BY <1>3 DEF TransactionInv, RetryInv
<1>. QED
  BY <1>8, <1>9, <1>10, <1>11 DEF SendInv

\* A row of the retry list is rewritten: another row for the same delivery takes
\* its place, which is no longer in the list.
LEMMA RewriteKeepsSends ==
  ASSUME TypeOK, SendInv, pass.phase = "retry", NEW r \in pass.retries \cup pass.unrecorded,
         NEW s, Update(r, s), SameDelivery(s, r),
         s.status = "sent" \/ r \notin pass.unrecorded,
         UNCHANGED <<note, arrived, mishaps>>,
         pass'.phase = "retry", pass'.new = {},
         pass'.retries = pass.retries \ {r}, pass'.unrecorded = pass.unrecorded \ {r}
  PROVE  SendInv'
<1>1. r \in rows /\ r \in RowSet /\ r.status = "failed" /\ r.channel = "email"
  BY DEF SendInv, RetryInv, MailRowsFinal, TypeOK
<1>2. rows' = (rows \ {r}) \cup {s}
  BY <1>1 DEF Update
<1>3. pass.new = {}
  BY DEF SendInv, TransactionInv
<1>4. s.note = r.note /\ s.who = r.who /\ s.channel = "email"
  BY <1>1 DEF SameDelivery
<1>5. \A t \in rows : SameDelivery(t, r) => t = r
  BY <1>1 DEF SendInv, UniqueRows, SameDelivery
<1>6. ASSUME NEW m \in Notes, NEW p \in People, OnRecord(m, p) PROVE OnRecord(m, p)'
  <2>1. CASE \E t \in rows : /\ t.note = m /\ t.who = p /\ t.channel = "email"
                             /\ t.status = "sent"
    BY <1>1, <1>2, <2>1 DEF OnRecord
  <2>2. CASE \E t \in pass.unrecorded : t.note = m /\ t.who = p
    <3>1. PICK t \in pass.unrecorded : t.note = m /\ t.who = p
      BY <2>2
    <3>2. CASE t = r
      BY <1>2, <1>4, <3>1, <3>2 DEF OnRecord
    <3>3. CASE t # r
      BY <3>1, <3>3 DEF OnRecord
    <3>. QED
      BY <3>2, <3>3
  <2>. QED
    BY <1>3, <1>6, <2>1, <2>2 DEF OnRecord
<1>7. SendsAccounted'
  BY <1>6 DEF SendInv, SendsAccounted
<1>8. MailRowsFinal'
  BY <1>1, <1>2, <1>3, <1>4 DEF SendInv, MailRowsFinal
<1>9. UniqueRows'
  BY <1>2, <1>3, <1>4, <1>5 DEF SendInv, UniqueRows, SameDelivery
<1>10. TransactionInv'
  BY DEF TransactionInv
<1>11. RetryInv'
  BY <1>2 DEF SendInv, RetryInv
<1>. QED
  BY <1>7, <1>8, <1>9, <1>10, <1>11 DEF SendInv

\* One failed delivery of the retry list.
LEMMA SendRetry ==
  ASSUME TypeOK, SendInv, NEW r \in pass.retries, Retry(r)
  PROVE  SendInv'
<1>1. /\ r \in RetrySet /\ r \in RowSet /\ r.note \in Notes /\ r.who \in People
      /\ pass.phase = "retry" /\ pass.unrecorded = {} /\ pass.new = {}
      /\ UNCHANGED <<note, mishaps>>
  BY DEF Retry, TypeOK, PassSet, RetrySet, RowSet, SendInv, TransactionInv
<1>2. CASE arrived' = arrived /\ pass' = [pass EXCEPT !.retries = @ \ {r}]
  <2>1. /\ pass'.phase = "retry" /\ pass'.new = {} /\ pass'.retries = pass.retries \ {r}
        /\ pass'.unrecorded = pass.unrecorded \ {r}
    BY <1>1, <1>2 DEF TypeOK, PassSet
  <2>2. CASE Update(r, [r EXCEPT !.status = "skipped"])
    <3>. DEFINE s == [r EXCEPT !.status = "skipped"]
    <3>1. SameDelivery(s, r) /\ r \notin pass.unrecorded
      BY <1>1 DEF SameDelivery, RowSet
    <3>2. Update(r, s)
      BY <2>2
    <3>. HIDE DEF s
    <3>. QED
      BY <1>1, <1>2, <2>1, <3>1, <3>2, RewriteKeepsSends
  <2>3. CASE Update(r, [r EXCEPT !.attempts = @ + 1,
                                 !.next = pass.now + Backoff[r.attempts + 1]])
    <3>. DEFINE s == [r EXCEPT !.attempts = @ + 1,
                               !.next = pass.now + Backoff[r.attempts + 1]]
    <3>1. SameDelivery(s, r) /\ r \notin pass.unrecorded
      BY <1>1 DEF SameDelivery, RowSet
    <3>2. Update(r, s)
      BY <2>3
    <3>. HIDE DEF s
    <3>. QED
      BY <1>1, <1>2, <2>1, <3>1, <3>2, RewriteKeepsSends
  <2>4. CASE rows' = rows
    <3>1. MailRowsFinal' /\ UniqueRows' /\ TransactionInv' /\ RetryInv'
      BY <1>1, <2>1, <2>4
         DEF SendInv, MailRowsFinal, UniqueRows, SameDelivery, TransactionInv, RetryInv
    <3>2. SendsAccounted'
      BY <1>1, <1>2, <2>1, <2>4 DEF SendInv, SendsAccounted, OnRecord
    <3>. QED
      BY <3>1, <3>2 DEF SendInv
  <2>5. CASE pass' = [pass EXCEPT !.retries = @ \ {r}, !.unrecorded = {r}]
    BY <1>1, <2>1, <2>5 DEF TypeOK, PassSet
  <2>. QED
    BY <2>2, <2>3, <2>4, <2>5 DEF Retry, LeaveFailed, Expire, FailAgain, SendAgain
<1>3. CASE /\ arrived' = [arrived EXCEPT ![r.note][r.who] = @ + 1] /\ rows' = rows
           /\ pass' = [pass EXCEPT !.retries = @ \ {r}, !.unrecorded = {r}]
  <2>1. /\ pass'.phase = "retry" /\ pass'.new = {} /\ pass'.retries = pass.retries \ {r}
        /\ pass'.unrecorded = {r}
    BY <1>1, <1>3 DEF TypeOK, PassSet
  <2>2. r \in rows /\ r.status = "failed" /\ r.channel = "email"
    BY DEF SendInv, RetryInv, MailRowsFinal
  <2>3. ~OnRecord(r.note, r.who)
    BY <1>1, <2>2 DEF OnRecord, SendInv, UniqueRows, SameDelivery
  <2>4. SendsAccounted'
    <3>. SUFFICES ASSUME NEW m \in Notes, NEW q \in People
                  PROVE  \/ arrived'[m][q] <= mishaps[m]
                         \/ arrived'[m][q] = 1 + mishaps[m] /\ OnRecord(m, q)'
      BY <1>1 DEF SendsAccounted
    <3>1. arrived[m][q] \in Nat /\ mishaps[m] \in Nat
      BY DEF TypeOK
    <3>2. arrived[m][q] <= mishaps[m] \/ (arrived[m][q] = 1 + mishaps[m] /\ OnRecord(m, q))
      BY DEF SendInv, SendsAccounted
    <3>3. OnRecord(m, q) => OnRecord(m, q)'
      BY <1>1, <1>3, <2>1 DEF OnRecord
    <3>4. CASE m = r.note /\ q = r.who
      <4>1. arrived'[m][q] = arrived[m][q] + 1
        BY <1>1, <1>3, <3>4 DEF TypeOK
      <4>2. OnRecord(m, q)'
        BY <2>1, <3>4 DEF OnRecord
      <4>. QED
        BY <2>3, <3>1, <3>2, <3>4, <4>1, <4>2 DEF OnRecord
    <3>5. CASE ~(m = r.note /\ q = r.who)
      <4>1. arrived'[m][q] = arrived[m][q]
        BY <1>1, <1>3, <3>5 DEF TypeOK
      <4>. QED
        BY <3>2, <3>3, <4>1
    <3>. QED
      BY <3>4, <3>5
  <2>5. MailRowsFinal' /\ UniqueRows' /\ TransactionInv'
    BY <1>1, <1>3, <2>1 DEF SendInv, MailRowsFinal, UniqueRows, SameDelivery, TransactionInv
  <2>6. RetryInv'
    BY <1>1, <1>3, <2>1, <2>2 DEF SendInv, RetryInv
  <2>. QED
    BY <2>4, <2>5, <2>6 DEF SendInv
<1>. QED
  BY <1>2, <1>3 DEF Retry, LeaveFailed, Expire, FailAgain, SendAgain

\* The success of a retry goes on record.
LEMMA SendRecord ==
  ASSUME TypeOK, SendInv, NEW r \in pass.unrecorded, RecordRetry(r)
  PROVE  SendInv'
<1>. DEFINE s == [r EXCEPT !.status = "sent"]
<1>1. /\ r \in RowSet /\ pass.phase = "retry" /\ pass.new = {}
      /\ pass.unrecorded = {r} /\ r \notin pass.retries
  BY DEF TypeOK, PassSet, RetrySet, SendInv, RetryInv, TransactionInv
<1>2. SameDelivery(s, r) /\ s.status = "sent"
  BY <1>1 DEF SameDelivery, RowSet
<1>3. Update(r, s) /\ UNCHANGED <<note, arrived, mishaps>>
  BY DEF RecordRetry
<1>4. /\ pass'.phase = "retry" /\ pass'.new = {} /\ pass'.retries = pass.retries \ {r}
      /\ pass'.unrecorded = pass.unrecorded \ {r}
  BY <1>1 DEF RecordRetry, TypeOK, PassSet
<1>. HIDE DEF s
<1>. QED
  BY <1>1, <1>2, <1>3, <1>4, RewriteKeepsSends

\* Every step keeps the dispatcher's invariant.
LEMMA SendNext == TypeOK /\ SendInv /\ [Next]_vars => SendInv'
<1>. SUFFICES ASSUME TypeOK, SendInv, [Next]_vars PROVE SendInv'
  OBVIOUS
<1>1. CASE UNCHANGED vars
  BY <1>1, NotesKeepSends DEF vars
<1>2. ASSUME NEW n \in Notes, Enqueue(n) \/ cancelNotification(n) \/ queueShiftChanges(n)
      PROVE  SendInv'
  BY <1>2, SendNotes
<1>3. CASE BeginPlan \/ Tick
  BY <1>3, NotesKeepSends DEF BeginPlan, Tick
<1>4. ASSUME NEW p \in People, NEW c \in Channels, Deliver(p, c) PROVE SendInv'
  <2>1. CASE Defer(p, c) \/ AlreadyDelivered(p, c)
    BY <1>4, <2>1, SendNothing
  <2>2. ASSUME NEW result \in {"sent", "failed", "skipped"}, Attempt(p, c, result)
        PROVE  SendInv'
    BY <1>4, <2>2, SendAttempt
  <2>. QED
    BY <1>4, <2>1, <2>2 DEF Deliver
<1>5. ASSUME NEW r \in pass.retries, Retry(r) PROVE SendInv'
  BY <1>5, SendRetry
<1>6. ASSUME NEW r \in pass.unrecorded, RecordRetry(r) PROVE SendInv'
  BY <1>6, SendRecord
<1>7. CASE \/ BeginPass \/ SkipNotification \/ CancelWarning \/ StartNotification \/ Commit
           \/ BeginRetry \/ EndPass \/ RollBack \/ Crash
  BY <1>7, SendIdle, SendOpens, SendCommit
<1>. QED
  BY <1>1, <1>2, <1>3, <1>4, <1>5, <1>6, <1>7 DEF Next, runNotificationDispatch

\* What left the system, what is on record and what is still to do agree at every
\* step, for any notifications, recipients, channels, quiet hours and any number of
\* crashes and rollbacks (dispatch.ts 78-337).
THEOREM SendSafety == Spec => []SendInv
<1>. QED
  BY TypeCorrect, TypeInit, SendInit, SendNext, PTL DEF Spec

\* Nobody gets the same e-mail twice unless a crash or a rollback cut its sending
\* (dispatch.ts 211-213, 327).
THEOREM MailAtMostOnce == Spec => []AtMostOnce
<1>1. TypeOK /\ SendInv => AtMostOnce
  <2>. SUFFICES ASSUME TypeOK, SendInv, NEW n \in Notes, NEW p \in People
                PROVE  arrived[n][p] <= 1 + mishaps[n]
    BY DEF AtMostOnce
  <2>1. arrived[n][p] \in Nat /\ mishaps[n] \in Nat
    BY DEF TypeOK
  <2>. QED
    BY <2>1 DEF SendInv, SendsAccounted
<1>. QED
  BY <1>1, TypeCorrect, SendSafety, PTL

\* A member with an account has one delivery per notification and channel, on both
\* sides of the quiet hours (dispatch.ts 211-213).
THEOREM OneCopyEach == Spec => []OneCopy
<1>1. SendInv => OneCopy
  BY DEF SendInv, UniqueRows, OneCopy
<1>. QED
  BY <1>1, SendSafety, PTL

\* A notification turns sent or partially failed only at the end of its transaction.
LEMMA OnlyCommitSettles ==
  ASSUME TypeOK, [Next]_vars, NEW n \in Notes, note[n].status = "scheduled",
         note'[n].status \in {"sent", "partially_failed"}
  PROVE  Commit /\ n = Head(pass.queue)
<1>0. note[n] \in NoteSet /\ note'[n] # note[n]
  BY DEF TypeOK
<1>1. CASE UNCHANGED note
  BY <1>0, <1>1
<1>2. ASSUME NEW m \in Notes, Enqueue(m) \/ cancelNotification(m) PROVE FALSE
  BY <1>0, <1>2 DEF Enqueue, cancelNotification, TypeOK, NoteSet
<1>3. ASSUME NEW m \in Notes, queueShiftChanges(m) PROVE FALSE
  BY <1>0, <1>3 DEF queueShiftChanges, MergeDigest, DropDigest, PlanDigest, NothingToSay,
                    TypeOK, NoteSet
<1>4. CASE CancelWarning
  BY <1>0, <1>4 DEF CancelWarning, TypeOK, NoteSet
<1>5. CASE Commit
  <2>1. note' = Outcome(Head(pass.queue))
    BY <1>5 DEF Commit
  <2>. QED
    BY <1>0, <1>5, <2>1 DEF Outcome, TypeOK, NoteSet
<1>. QED
  BY <1>1, <1>2, <1>3, <1>4, <1>5
  DEF vars, Next, runNotificationDispatch, BeginPlan, BeginPass, SkipNotification,
      StartNotification, Deliver, BeginRetry, Retry, RecordRetry, EndPass, RollBack, Crash,
      Tick

\* A transaction that defers nothing ends with a row for each delivery it could make.
LEMMA SettledIsRecorded ==
  ASSUME SendInv, Commit, ~pass.deferred
  PROVE  \A w \in Wants \ Unconfigured :
           \E r \in rows' : r.note = Head(pass.queue) /\ <<r.who, r.channel>> = w
<1>1. pass.phase = "sending" /\ pass.todo = {} /\ rows' = rows \cup pass.new
  BY DEF Commit
<1>. QED
  BY <1>1 DEF SendInv, TransactionInv

\* Nothing is marked sent before every wanted delivery is on record, the deferred
\* ones included, as far as its channel is configured (dispatch.ts 237-251).
THEOREM NothingDropped == Spec => SentMeansDelivered
<1>1. ASSUME TypeOK, SendInv, SendInv', [Next]_vars, NEW n \in Notes,
             note[n].status = "scheduled", note'[n].status \in {"sent", "partially_failed"}
      PROVE  /\ \A w \in Wants \ Unconfigured :
                  \E r \in rows' : r.note = n /\ <<r.who, r.channel>> = w
             /\ note'[n].status = "sent" => \A r \in rows' : r.note = n => r.status # "failed"
  <2>1. Commit /\ n = Head(pass.queue)
    BY <1>1, OnlyCommitSettles
  <2>2. ~pass.deferred
    BY <1>1, <2>1 DEF Commit, Outcome, TypeOK, NoteSet
  <2>. QED
    BY <1>1, <2>1, <2>2, SettledIsRecorded DEF SendInv, MailRowsFinal
<1>2. TypeOK /\ SendInv /\ SendInv' /\ [Next]_vars =>
        [\A n \in Notes :
           note[n].status = "scheduled" /\ note'[n].status \in {"sent", "partially_failed"} =>
             /\ \A w \in Wants \ Unconfigured :
                  \E r \in rows' : r.note = n /\ <<r.who, r.channel>> = w
             /\ note'[n].status = "sent" =>
                  \A r \in rows' : r.note = n => r.status # "failed"]_vars
  BY <1>1
<1>. QED
  BY <1>2, TypeCorrect, SendSafety, PTL DEF Spec, SentMeansDelivered

\* No e-mail of a notification that still waits is out, outside its transaction.
LEMMA UnsentWhileWaiting ==
  ASSUME TypeOK, SendInv, NEW n \in Notes, NEW p \in People,
         note[n].status \in {"none", "scheduled"}, ~Locked(n)
  PROVE  arrived[n][p] <= mishaps[n]
<1>1. ASSUME NEW r \in rows, r.note = n PROVE r.channel # "email"
  BY <1>1 DEF SendInv, MailRowsFinal
<1>2. \A r \in pass.unrecorded : r \in rows /\ r.channel = "email"
  BY DEF SendInv, RetryInv, MailRowsFinal
<1>3. \A r \in pass.new : r.note # n
  BY DEF SendInv, TransactionInv, Locked
<1>4. ~OnRecord(n, p)
  BY <1>1, <1>2, <1>3 DEF OnRecord
<1>. QED
  BY <1>4 DEF SendInv, SendsAccounted

\* A change is never merged into a summary that has been mailed, however the
\* planner's snapshot and the dispatcher's transactions interleave
\* (dispatch.ts 80-82, changeDigest.ts 90-102).
THEOREM SummaryNeverStale == Spec => NeverEditsHalfSent
<1>1. ASSUME TypeOK, SendInv, [Next]_vars, NEW n \in Notes,
             note'[n].changes # note[n].changes, NEW p \in People
      PROVE  arrived[n][p] <= mishaps[n]
  <2>1. CASE UNCHANGED vars
    BY <1>1, <2>1 DEF vars
  <2>2. ASSUME NEW m \in Notes, Enqueue(m) \/ cancelNotification(m) PROVE m = n => Enqueue(n)
    BY <1>1, <2>2 DEF cancelNotification, TypeOK, NoteSet
  <2>3. ASSUME NEW m \in Notes, Enqueue(m) \/ cancelNotification(m)
        PROVE  arrived[n][p] <= mishaps[n]
    <3>1. m = n /\ note[n].status = "none"
      BY <1>1, <2>2, <2>3 DEF Enqueue, cancelNotification, TypeOK
    <3>2. ~Locked(n)
      BY <1>1, <3>1 DEF Locked, SendInv, TransactionInv
    <3>. QED
      BY <1>1, <3>1, <3>2, UnsentWhileWaiting
  <2>4. ASSUME NEW m \in Notes, queueShiftChanges(m) PROVE arrived[n][p] <= mishaps[n]
    <3>1. m = n /\ n \in Digests /\ note[n].status \in {"none", "scheduled"}
      BY <1>1, <2>4 DEF queueShiftChanges, MergeDigest, DropDigest, PlanDigest, NothingToSay,
                        PendingDigests, TypeOK
    <3>2. ~Locked(n)
      BY <2>4, <3>1 DEF queueShiftChanges
    <3>. QED
      BY <1>1, <3>1, <3>2, UnsentWhileWaiting
  <2>5. CASE CancelWarning \/ Commit
    <3>1. Head(pass.queue) \in Notes
      BY <1>1, <2>5 DEF CancelWarning, Commit, TypeOK, PassSet
    <3>2. note[Head(pass.queue)] \in NoteSet
      BY <1>1, <3>1 DEF TypeOK
    <3>3. CASE CancelWarning
      BY <1>1, <3>1, <3>2, <3>3 DEF CancelWarning, TypeOK, NoteSet
    <3>4. CASE Commit
      <4>1. note' = Outcome(Head(pass.queue))
        BY <3>4 DEF Commit
      <4>. QED
        BY <1>1, <3>1, <3>2, <4>1 DEF Outcome, TypeOK, NoteSet
    <3>. QED
      BY <2>5, <3>3, <3>4
  <2>6. CASE UNCHANGED note
    BY <1>1, <2>6
  <2>. QED
    BY <1>1, <2>1, <2>3, <2>4, <2>5, <2>6
    DEF Next, runNotificationDispatch, BeginPlan, BeginPass, SkipNotification,
        StartNotification, Deliver, BeginRetry, Retry, RecordRetry, EndPass, RollBack, Crash,
        Tick
<1>2. TypeOK /\ SendInv /\ [Next]_vars =>
        [\A n \in Notes : note'[n].changes # note[n].changes =>
           \A p \in People : arrived[n][p] <= mishaps[n]]_vars
  BY <1>1
<1>. QED
  BY <1>2, TypeCorrect, SendSafety, PTL DEF Spec, NeverEditsHalfSent

\* Of a cancelled or withdrawn notification nothing more is sent or recorded, even
\* by a pass that had listed it before (dispatch.ts 80-91).
THEOREM SilentAfterCancel == Spec => CancelledStaysSilent
<1>1. ASSUME TypeOK, SendInv, [Next]_vars, NEW n \in Notes,
             note[n].status \in {"cancelled", "deleted"}
      PROVE  /\ arrived'[n] = arrived[n]
             /\ {r \in rows' : r.note = n} \subseteq {r \in rows : r.note = n}
  <2>1. CASE UNCHANGED <<rows, arrived>>
    BY <2>1
  <2>2. CASE \E m \in Notes : queueShiftChanges(m)
    BY <2>2 DEF queueShiftChanges, MergeDigest, DropDigest, PlanDigest, NothingToSay
  <2>3. CASE \E p \in People, c \in Channels : Deliver(p, c)
    <3>1. PICK p \in People, c \in Channels : Deliver(p, c)
      BY <2>3
    <3>2. n # Head(pass.queue)
      BY <1>1, <3>1 DEF Deliver, SendInv, TransactionInv
    <3>. QED
      BY <1>1, <3>1, <3>2 DEF Deliver, Defer, AlreadyDelivered, Attempt, TypeOK
  <2>4. CASE Commit
    BY <1>1, <2>4 DEF Commit, SendInv, TransactionInv
  <2>5. \A r \in pass.retries \cup pass.unrecorded :
          r \in RowSet /\ r.note # n
    BY <1>1 DEF SendInv, RetryInv, MailRowsFinal, TypeOK
  <2>6. ASSUME NEW r \in pass.retries, Retry(r)
        PROVE  /\ arrived'[n] = arrived[n]
               /\ {t \in rows' : t.note = n} \subseteq {t \in rows : t.note = n}
    <3>1. arrived'[n] = arrived[n]
      BY <1>1, <2>5, <2>6 DEF Retry, LeaveFailed, Expire, FailAgain, SendAgain, TypeOK
    <3>2. r \in RowSet /\ r.note # n
      BY <2>5
    <3>3. ASSUME NEW s, s.note = r.note, Update(r, s)
          PROVE  {t \in rows' : t.note = n} \subseteq {t \in rows : t.note = n}
      BY <3>2, <3>3 DEF Update
    <3>. DEFINE skipped == [r EXCEPT !.status = "skipped"]
                again == [r EXCEPT !.attempts = @ + 1,
                                   !.next = pass.now + Backoff[r.attempts + 1]]
    <3>4. skipped.note = r.note /\ again.note = r.note
      BY <3>2 DEF RowSet
    <3>5. Update(r, skipped) \/ Update(r, again) \/ rows' = rows
      BY <2>6 DEF Retry, LeaveFailed, Expire, FailAgain, SendAgain
    <3>. HIDE DEF skipped, again
    <3>. QED
      BY <3>1, <3>3, <3>4, <3>5
  <2>7. ASSUME NEW r \in pass.unrecorded, RecordRetry(r)
        PROVE  /\ arrived'[n] = arrived[n]
               /\ {t \in rows' : t.note = n} \subseteq {t \in rows : t.note = n}
    <3>1. [r EXCEPT !.status = "sent"].note # n
      BY <2>5 DEF RowSet
    <3>. QED
      BY <2>7, <3>1 DEF RecordRetry, Update
  <2>. QED
    BY <1>1, <2>1, <2>2, <2>3, <2>4, <2>6, <2>7
    DEF vars, Next, runNotificationDispatch, Enqueue, cancelNotification, BeginPlan, BeginPass,
        SkipNotification, CancelWarning, StartNotification, BeginRetry, EndPass, RollBack,
        Crash, Tick
<1>2. TypeOK /\ SendInv /\ [Next]_vars =>
        [\A n \in Notes : note[n].status \in {"cancelled", "deleted"} =>
           /\ arrived'[n] = arrived[n]
           /\ {r \in rows' : r.note = n} \subseteq {r \in rows : r.note = n}]_vars
  BY <1>1
<1>. QED
  BY <1>2, TypeCorrect, SendSafety, PTL DEF Spec, CancelledStaysSilent

-----------------------------------------------------------------------------
(* The dispatcher implements NotificationOutbox.                           *)

\* A step that changes no status, no delivery, no copy and no mishap is none of
\* the outbox's, whatever hour it is.
LEMMA OutboxPasses ==
  ASSUME \A n \in Notes : note'[n].status = note[n].status,
         rows' = rows, arrived' = arrived, mishaps' = mishaps
  PROVE  Outbox!Next
<1>1. \A n \in Notes : Delivered(n)' = Delivered(n) /\ FailedTo(n)' = FailedTo(n)
  BY DEF Delivered, FailedTo
<1>2. Outbox!Passes
  BY <1>1 DEF Outbox!Passes, Outbox!records
<1>. QED
  BY <1>2 DEF Outbox!Next

\* A status that turns, and nothing else.
LEMMA OutboxTurns ==
  ASSUME NEW n \in Notes, NEW new, note' \in [Notes -> NoteSet], note \in [Notes -> NoteSet],
         note'[n].status = new, \A m \in Notes \ {n} : note'[m].status = note[m].status
  PROVE  Outbox!Turns(n, note[n].status, new)
BY DEF Outbox!Turns

LEMMA OutboxNotes ==
  ASSUME TypeOK, TypeOK', NEW n \in Notes,
         Enqueue(n) \/ cancelNotification(n) \/ queueShiftChanges(n)
  PROVE  Outbox!Next
<1>0. /\ note \in [Notes -> NoteSet] /\ note' \in [Notes -> NoteSet]
      /\ \A m \in Notes : note[m] \in NoteSet
  BY DEF TypeOK
<1>1. CASE Enqueue(n)
  <2>1. /\ note'[n].status = "scheduled" /\ note[n].status = "none"
        /\ \A m \in Notes \ {n} : note'[m].status = note[m].status
        /\ UNCHANGED <<rows, arrived, pass, mishaps>>
    BY <1>0, <1>1 DEF Enqueue
  <2>2. Outbox!Turns(n, "none", "scheduled")
    BY <1>0, <2>1, OutboxTurns
  <2>3. \A m \in Notes : Delivered(m)' = Delivered(m) /\ FailedTo(m)' = FailedTo(m)
    BY <2>1 DEF Delivered, FailedTo
  <2>4. Outbox!Plan(n)
    BY <2>1, <2>2, <2>3 DEF Outbox!Plan, Outbox!records, Outbox!work
  <2>. QED
    BY <2>4 DEF Outbox!Next
<1>2. CASE cancelNotification(n)
  <2>1. /\ note'[n].status = "cancelled" /\ note[n].status = "scheduled"
        /\ \A m \in Notes \ {n} : note'[m].status = note[m].status
        /\ UNCHANGED <<rows, arrived, pass, mishaps>>
    BY <1>0, <1>2 DEF cancelNotification, NoteSet
  <2>2. Outbox!Turns(n, "scheduled", "cancelled")
    BY <1>0, <2>1, OutboxTurns
  <2>3. \A m \in Notes : Delivered(m)' = Delivered(m) /\ FailedTo(m)' = FailedTo(m)
    BY <2>1 DEF Delivered, FailedTo
  <2>4. Outbox!Withdraw(n)
    BY <2>1, <2>2, <2>3 DEF Outbox!Withdraw, Outbox!records, Outbox!work
  <2>. QED
    BY <2>4 DEF Outbox!Next
<1>3. CASE queueShiftChanges(n)
  <2>0. UNCHANGED <<arrived, pass, mishaps>>
    BY <1>3 DEF queueShiftChanges
  <2>1. CASE MergeDigest(n) \/ NothingToSay
    <3>1. rows' = rows /\ \A m \in Notes : note'[m].status = note[m].status
      BY <1>0, <2>1 DEF MergeDigest, NothingToSay, NoteSet
    <3>. QED
      BY <2>0, <3>1, OutboxPasses
  <2>2. CASE DropDigest(n)
    <3>1. /\ note'[n].status = "deleted" /\ note[n].status = "scheduled"
          /\ \A m \in Notes \ {n} : note'[m].status = note[m].status
          /\ rows' = {r \in rows : r.note # n}
      BY <1>0, <2>2 DEF DropDigest, PendingDigests, NoteSet
    <3>2. Outbox!Turns(n, "scheduled", "deleted")
      BY <1>0, <3>1, OutboxTurns
    <3>3. /\ Delivered(n)' = {} /\ FailedTo(n)' = {}
          /\ \A m \in Notes \ {n} : Delivered(m)' = Delivered(m) /\ FailedTo(m)' = FailedTo(m)
      BY <3>1 DEF Delivered, FailedTo
    <3>4. Outbox!Withdraw(n)
      BY <2>0, <3>2, <3>3 DEF Outbox!Withdraw, Outbox!work
    <3>. QED
      BY <3>4 DEF Outbox!Next
  <2>3. CASE PlanDigest(n)
    <3>1. /\ note'[n].status = "scheduled" /\ note[n].status = "none" /\ rows' = rows
          /\ \A m \in Notes \ {n} : note'[m].status = note[m].status
      BY <1>0, <2>3 DEF PlanDigest
    <3>2. Outbox!Turns(n, "none", "scheduled")
      BY <1>0, <3>1, OutboxTurns
    <3>3. \A m \in Notes : Delivered(m)' = Delivered(m) /\ FailedTo(m)' = FailedTo(m)
      BY <3>1 DEF Delivered, FailedTo
    <3>4. Outbox!Plan(n)
      BY <2>0, <3>2, <3>3 DEF Outbox!Plan, Outbox!records, Outbox!work
    <3>. QED
      BY <3>4 DEF Outbox!Next
  <2>. QED
    BY <1>3, <2>1, <2>2, <2>3 DEF queueShiftChanges
<1>. QED
  BY <1>1, <1>2, <1>3

\* A warning that is cancelled by the pass itself.
LEMMA OutboxCancels == ASSUME TypeOK, CancelWarning PROVE Outbox!Next
<1>0. Head(pass.queue) \in Notes
  BY DEF CancelWarning, TypeOK, PassSet
<1>. PICK n \in Notes : n = Head(pass.queue)
  BY <1>0
<1>1. n \in Notes /\ note[n] \in NoteSet
  BY DEF TypeOK
<1>2. /\ note[n].status = "scheduled" /\ note' = [note EXCEPT ![n].status = "cancelled"]
      /\ UNCHANGED <<rows, arrived, mishaps>>
  BY DEF CancelWarning, ReRead, IsDue
<1>3. pass'.now = pass.now /\ pass'.on = pass.on
  BY DEF CancelWarning, DropHead, Idle
<1>4. /\ note'[n].status = "cancelled"
      /\ \A m \in Notes \ {n} : note'[m].status = note[m].status
      /\ note \in [Notes -> NoteSet]
  BY <1>1, <1>2 DEF NoteSet, TypeOK
<1>5. note' \in [Notes -> NoteSet]
  BY <1>1, <1>2 DEF NoteSet, TypeOK, Statuses
<1>6. Outbox!Turns(n, "scheduled", "cancelled")
  <2>1. Outbox!Turns(n, note[n].status, "cancelled")
    BY <1>1, <1>4, <1>5, OutboxTurns
  <2>2. note[n].status = "scheduled"
    BY <1>2
  <2>. QED
    BY <2>1, <2>2
<1>7. \A m \in Notes : Delivered(m)' = Delivered(m) /\ FailedTo(m)' = FailedTo(m)
  BY <1>2 DEF Delivered, FailedTo
<1>8. Outbox!Withdraw(n)
  BY <1>2, <1>3, <1>6, <1>7 DEF Outbox!Withdraw, Outbox!records, Outbox!work
<1>. QED
  BY <1>1, <1>8 DEF Outbox!Next

\* An attempt sends while the notification waits, outside the quiet hours, and only
\* to whom nothing is out that no mishap explains.
LEMMA OutboxSends ==
  ASSUME TypeOK, SendInv, NEW p \in People, NEW c \in Channels, Deliver(p, c),
         NEW result \in {"sent", "failed", "skipped"}, Attempt(p, c, result)
  PROVE  Outbox!Next
<1>0. Head(pass.queue) \in Notes
  BY DEF Deliver, TypeOK, PassSet
<1>. PICK n \in Notes : n = Head(pass.queue)
  BY <1>0
<1>1. n \in Notes /\ pass.phase = "sending" /\ pass.unrecorded = {}
  BY DEF Deliver, TypeOK, PassSet, SendInv, RetryInv
<1>2. UNCHANGED <<note, rows, mishaps>>
  BY DEF Deliver
<1>3. CASE arrived' = arrived
  BY <1>2, <1>3, OutboxPasses
<1>4. CASE arrived' # arrived
  <2>1. result = "sent" /\ c = "email" /\ arrived' = [arrived EXCEPT ![n][p] = @ + 1]
    BY <1>4 DEF Attempt, Channels
  <2>2. note[n].status = "scheduled"
    BY <1>1 DEF SendInv, TransactionInv
  <2>3. pass.now \notin Quiet
    BY <2>1 DEF Attempt, HeldBack, isWithinQuietHours
  <2>4. pass'.now = pass.now /\ pass'.on = pass.on
    BY DEF Attempt, TypeOK, PassSet
  <2>5. ~OnRecord(n, p)
    <3>1. ASSUME NEW r \in rows, r.note = n PROVE r.channel # "email"
      BY <2>2, <3>1 DEF SendInv, MailRowsFinal
    <3>2. ASSUME NEW r \in pass.new, r.who = p PROVE r.channel # "email"
      BY <1>1, <2>1, <3>2 DEF Deliver, SendInv, TransactionInv
    <3>. QED
      BY <1>1, <3>1, <3>2 DEF OnRecord
  <2>6. arrived[n][p] <= mishaps[n]
    BY <1>1, <2>5 DEF SendInv, SendsAccounted
  <2>7. \A m \in Notes : Delivered(m)' = Delivered(m) /\ FailedTo(m)' = FailedTo(m)
    BY <1>2 DEF Delivered, FailedTo
  <2>8. Outbox!Leaves(n, p)
    BY <1>1, <1>2, <2>1, <2>4, <2>6, <2>7 DEF Outbox!Leaves, Outbox!records, Outbox!work
  <2>9. Outbox!Send(n, p)
    BY <1>1, <2>2, <2>3, <2>8 DEF Outbox!Send
  <2>. QED
    BY <1>1, <2>9 DEF Outbox!Next
<1>. QED
  BY <1>3, <1>4

\* The end of a transaction records what it has delivered and settles what is
\* complete.
LEMMA OutboxRecords ==
  ASSUME TypeOK, TypeOK', SendInv, SendInv', FailureSeen, Commit
  PROVE  Outbox!Next
<1>0. Head(pass.queue) \in Notes
  BY DEF Commit, TypeOK, PassSet
<1>. PICK n \in Notes : n = Head(pass.queue)
  BY <1>0
<1>1. n \in Notes /\ pass.phase = "sending" /\ note[n] \in NoteSet
  BY DEF Commit, TypeOK, PassSet
<1>2. rows' = rows \cup pass.new /\ UNCHANGED <<arrived, mishaps>> /\ note' = Outcome(n)
  BY DEF Commit
<1>3. /\ note[n].status = "scheduled"
      /\ \A r \in pass.new : r.note = n /\ ~HeldBack(r.channel)
  BY <1>1 DEF SendInv, TransactionInv
<1>4. note \in [Notes -> NoteSet] /\ note' \in [Notes -> NoteSet]
  BY DEF TypeOK
<1>5. /\ \A m \in Notes \ {n} : note'[m] = note[m]
      /\ pass.deferred => note'[n].status = "scheduled"
      /\ ~pass.deferred => note'[n].status = IF pass.failed THEN "partially_failed" ELSE "sent"
  BY <1>1, <1>2, <1>3 DEF Outcome, TypeOK, NoteSet
<1>6. pass'.now = pass.now
  BY DEF Commit, DropHead, Idle
<1>7. /\ Delivered(n) \subseteq Delivered(n)'
      /\ \A m \in Notes \ {n} : Delivered(m)' = Delivered(m) /\ FailedTo(m)' = FailedTo(m)
  BY <1>2, <1>3 DEF Delivered, FailedTo
<1>8. ASSUME note'[n].status \in {"sent", "partially_failed"}
      PROVE  Outbox!Needed \subseteq Delivered(n)'
  <2>. SUFFICES ASSUME NEW w \in Outbox!Needed PROVE w \in Delivered(n)'
    OBVIOUS
  <2>1. w \in Wants \ Unconfigured
    BY DEF Outbox!Needed, Unconfigured, Configured
  <2>2. PICK r \in rows' : r.note = n /\ <<r.who, r.channel>> = w
    BY <1>5, <1>8, <2>1, SettledIsRecorded
  <2>. QED
    BY <2>2 DEF Delivered
<1>9. CASE pass.deferred
  <2>1. pass.now \in Quiet
    BY <1>9 DEF TypeOK, isWithinQuietHours
  <2>2. ASSUME NEW r \in rows', r.note = n PROVE r.status # "failed"
    <3>1. CASE r \in rows
      BY <1>3, <2>2, <3>1 DEF SendInv, MailRowsFinal
    <3>2. CASE r \in pass.new
      BY <1>3, <2>1, <3>2 DEF SendInv, MailRowsFinal, HeldBack, isWithinQuietHours
    <3>. QED
      BY <1>2, <2>2, <3>1, <3>2
  <2>3. FailedTo(n)' = {}
    BY <2>2 DEF FailedTo
  <2>4. \A m \in Notes : note'[m].status = note[m].status
    BY <1>3, <1>5, <1>9
  <2>5. Outbox!Record(n)
    BY <1>1, <1>2, <1>3, <1>7, <2>1, <2>3, <2>4 DEF Outbox!Record
  <2>. QED
    BY <1>1, <2>5 DEF Outbox!Next
<1>10. CASE ~pass.deferred /\ ~pass.failed
  <2>1. note'[n].status = "sent"
    BY <1>5, <1>10
  <2>2. FailedTo(n)' = {}
    BY <1>1, <2>1 DEF SendInv, MailRowsFinal, FailedTo
  <2>3. Outbox!Turns(n, "scheduled", "sent")
    BY <1>1, <1>3, <1>4, <1>5, <2>1, OutboxTurns
  <2>4. Outbox!Record(n)
    BY <1>1, <1>2, <1>3, <1>7, <1>8, <2>1, <2>2, <2>3 DEF Outbox!Record
  <2>. QED
    BY <1>1, <2>4 DEF Outbox!Next
<1>11. CASE ~pass.deferred /\ pass.failed
  <2>1. note'[n].status = "partially_failed"
    BY <1>5, <1>11
  <2>2. FailedTo(n)' # {}
    <3>1. PICK r \in pass.new : r.status = "failed"
      BY <1>1, <1>11 DEF FailureSeen
    <3>2. r \in rows' /\ r.note = n
      BY <1>2, <1>3
    <3>3. r.who \in FailedTo(n)'
      BY <3>1, <3>2 DEF FailedTo
    <3>. QED
      BY <3>3
  <2>3. Outbox!Turns(n, "scheduled", "partially_failed")
    BY <1>1, <1>3, <1>4, <1>5, <2>1, OutboxTurns
  <2>4. Outbox!Record(n)
    BY <1>1, <1>2, <1>3, <1>7, <1>8, <2>1, <2>2, <2>3 DEF Outbox!Record
  <2>. QED
    BY <1>1, <2>4 DEF Outbox!Next
<1>. QED
  BY <1>9, <1>10, <1>11

\* A rollback or a crash is a mishap of the notification in hand.
LEMMA OutboxMishaps == ASSUME TypeOK, RollBack \/ Crash PROVE Outbox!Next
<1>. PICK n : n = IF RollBack THEN Head(pass.queue) ELSE InHand
  OBVIOUS
<1>1. Mishap(n) /\ UNCHANGED <<note, rows, arrived>>
  BY DEF RollBack, Crash
<1>2. \A m \in Notes : Delivered(m)' = Delivered(m) /\ FailedTo(m)' = FailedTo(m)
  BY <1>1 DEF Delivered, FailedTo
<1>3. CASE n \in Notes
  <2>1. \A m \in Notes : mishaps'[m] = IF m = n THEN mishaps[m] + 1 ELSE mishaps[m]
    BY <1>1, <1>3 DEF Mishap, TypeOK
  <2>2. Outbox!Mishap(n)
    BY <1>1, <1>2, <1>3, <2>1 DEF Outbox!Mishap, Outbox!records
  <2>. QED
    BY <1>3, <2>2 DEF Outbox!Next
<1>4. CASE n \notin Notes
  <2>1. \A m \in Notes : mishaps'[m] = mishaps[m]
    BY <1>1, <1>4 DEF Mishap, TypeOK
  <2>2. Outbox!Passes
    BY <1>1, <1>2, <2>1 DEF Outbox!Passes, Outbox!records
  <2>. QED
    BY <2>2 DEF Outbox!Next
<1>. QED
  BY <1>3, <1>4

\* A failed delivery is rewritten: no delivery is lost, none fails that had not.
LEMMA RewriteResolves ==
  ASSUME TypeOK, SendInv, NEW r \in pass.retries \cup pass.unrecorded, NEW s, Update(r, s),
         SameDelivery(s, r), UNCHANGED <<note, arrived, mishaps>>,
         pass'.now = pass.now, pass'.on = pass.on
  PROVE  Outbox!Next
<1>1. r \in rows /\ r \in RowSet /\ r.note \in Notes /\ r.status = "failed" /\ r.channel = "email"
  BY DEF SendInv, RetryInv, MailRowsFinal, TypeOK, RowSet
<1>2. rows' = (rows \ {r}) \cup {s} /\ s.note = r.note /\ s.who = r.who /\ s.channel = r.channel
  BY <1>1 DEF Update, SameDelivery
<1>3. note[r.note].status = "partially_failed"
  BY <1>1 DEF SendInv, MailRowsFinal
<1>4. ASSUME NEW m \in Notes PROVE Delivered(m)' = Delivered(m)
  BY <1>1, <1>2 DEF Delivered
<1>5. ASSUME NEW m \in Notes PROVE FailedTo(m)' \subseteq FailedTo(m)
  BY <1>1, <1>2 DEF FailedTo
<1>6. ASSUME NEW m \in Notes \ {r.note} PROVE FailedTo(m)' = FailedTo(m)
  BY <1>1, <1>2 DEF FailedTo
<1>7. Outbox!Resolve(r.note)
  BY <1>1, <1>3, <1>4, <1>5, <1>6 DEF Outbox!Resolve, Outbox!work
<1>. QED
  BY <1>1, <1>7 DEF Outbox!Next

\* A retry sends only what has failed and is not out.
LEMMA OutboxRetries ==
  ASSUME TypeOK, SendInv, NEW r \in pass.retries, Retry(r)
  PROVE  Outbox!Next
<1>1. /\ r \in rows /\ r \in RowSet /\ r.note \in Notes /\ r.who \in People
      /\ r.status = "failed" /\ r.channel = "email"
  BY DEF SendInv, RetryInv, MailRowsFinal, TypeOK, RowSet
<1>2. pass'.now = pass.now /\ pass'.on = pass.on /\ UNCHANGED <<note, mishaps>>
  BY DEF Retry, LeaveFailed, Expire, FailAgain, SendAgain, TypeOK, PassSet
<1>3. CASE arrived' = arrived
  <2>. DEFINE skipped == [r EXCEPT !.status = "skipped"]
              again == [r EXCEPT !.attempts = @ + 1,
                                 !.next = pass.now + Backoff[r.attempts + 1]]
  <2>1. SameDelivery(skipped, r) /\ SameDelivery(again, r)
    BY <1>1 DEF SameDelivery, RowSet
  <2>2. Update(r, skipped) \/ Update(r, again) \/ rows' = rows
    BY DEF Retry, LeaveFailed, Expire, FailAgain, SendAgain
  <2>. HIDE DEF skipped, again
  <2>. QED
    BY <1>2, <1>3, <2>1, <2>2, RewriteResolves, OutboxPasses
<1>4. CASE arrived' # arrived
  <2>1. /\ arrived' = [arrived EXCEPT ![r.note][r.who] = @ + 1] /\ rows' = rows
        /\ pass.unrecorded = {} /\ pass.phase = "retry"
    BY <1>4 DEF Retry, LeaveFailed, Expire, FailAgain, SendAgain
  <2>2. note[r.note].status = "partially_failed"
    BY <1>1 DEF SendInv, MailRowsFinal
  <2>3. r.who \in FailedTo(r.note)
    BY <1>1 DEF FailedTo
  <2>4. ~OnRecord(r.note, r.who)
    <3>1. pass.new = {}
      BY <2>1 DEF SendInv, TransactionInv
    <3>2. ASSUME NEW t \in rows, t.note = r.note, t.who = r.who, t.channel = "email"
          PROVE  t.status # "sent"
      BY <1>1, <3>2 DEF SendInv, UniqueRows, SameDelivery
    <3>. QED
      BY <2>1, <3>1, <3>2 DEF OnRecord
  <2>5. arrived[r.note][r.who] <= mishaps[r.note]
    BY <1>1, <2>4 DEF SendInv, SendsAccounted
  <2>6. \A m \in Notes : Delivered(m)' = Delivered(m) /\ FailedTo(m)' = FailedTo(m)
    BY <2>1 DEF Delivered, FailedTo
  <2>7. Outbox!Leaves(r.note, r.who)
    BY <1>1, <1>2, <2>1, <2>5, <2>6 DEF Outbox!Leaves, Outbox!records, Outbox!work
  <2>8. Outbox!SendAgain(r.note, r.who)
    BY <1>1, <2>2, <2>3, <2>7 DEF Outbox!SendAgain
  <2>. QED
    BY <1>1, <2>8 DEF Outbox!Next
<1>. QED
  BY <1>3, <1>4

LEMMA OutboxRecordsRetry ==
  ASSUME TypeOK, SendInv, NEW r \in pass.unrecorded, RecordRetry(r)
  PROVE  Outbox!Next
<1>. DEFINE s == [r EXCEPT !.status = "sent"]
<1>1. r \in RowSet
  BY DEF TypeOK, PassSet, RetrySet
<1>2. SameDelivery(s, r)
  BY <1>1 DEF SameDelivery, RowSet
<1>3. Update(r, s) /\ UNCHANGED <<note, arrived, mishaps>>
      /\ pass'.now = pass.now /\ pass'.on = pass.on
  BY DEF RecordRetry, TypeOK, PassSet
<1>. HIDE DEF s
<1>. QED
  BY <1>2, <1>3, RewriteResolves

\* Each step of the dispatcher, of planners and of the clock is a step of the outbox.
LEMMA OutboxNext ==
  ASSUME TypeOK, TypeOK', SendInv, SendInv', FailureSeen, [Next]_vars
  PROVE  Outbox!Next
<1>1. CASE \/ UNCHANGED vars \/ BeginPlan \/ Tick \/ BeginPass \/ SkipNotification
           \/ StartNotification \/ BeginRetry \/ EndPass
  <2>1. UNCHANGED <<note, rows, arrived, mishaps>>
    BY <1>1 DEF vars, BeginPlan, Tick, BeginPass, SkipNotification, StartNotification,
                BeginRetry, EndPass
  <2>. QED
    BY <2>1, OutboxPasses
<1>2. ASSUME NEW n \in Notes, Enqueue(n) \/ cancelNotification(n) \/ queueShiftChanges(n)
      PROVE  Outbox!Next
  BY <1>2, OutboxNotes
<1>3. ASSUME NEW p \in People, NEW c \in Channels, Deliver(p, c) PROVE Outbox!Next
  <2>1. CASE Defer(p, c) \/ AlreadyDelivered(p, c)
    <3>1. UNCHANGED <<note, rows, arrived, mishaps>>
      BY <1>3, <2>1 DEF Deliver, Defer, AlreadyDelivered
    <3>. QED
      BY <3>1, OutboxPasses
  <2>2. ASSUME NEW result \in {"sent", "failed", "skipped"}, Attempt(p, c, result)
        PROVE  Outbox!Next
    BY <1>3, <2>2, OutboxSends
  <2>. QED
    BY <1>3, <2>1, <2>2 DEF Deliver
<1>4. ASSUME NEW r \in pass.retries, Retry(r) PROVE Outbox!Next
  BY <1>4, OutboxRetries
<1>5. ASSUME NEW r \in pass.unrecorded, RecordRetry(r) PROVE Outbox!Next
  BY <1>5, OutboxRecordsRetry
<1>6. CASE CancelWarning \/ Commit \/ RollBack \/ Crash
  BY <1>6, OutboxCancels, OutboxRecords, OutboxMishaps
<1>. QED
  BY <1>1, <1>2, <1>3, <1>4, <1>5, <1>6 DEF Next, runNotificationDispatch

\* Only an attempt that fails counts a failure, and it leaves its row.
LEMMA FailureNext ==
  ASSUME TypeOK, FailureSeen, [Next]_vars
  PROVE  FailureSeen'
<1>1. CASE UNCHANGED pass
  BY <1>1 DEF FailureSeen
<1>2. CASE BeginPass \/ SkipNotification \/ CancelWarning \/ Commit \/ EndPass \/ RollBack \/ Crash
  <2>1. CASE BeginPass
    BY <2>1 DEF BeginPass, Idle, FailureSeen
  <2>2. CASE EndPass \/ Crash
    BY <2>2 DEF EndPass, Crash, Idle, FailureSeen
  <2>3. CASE pass' = DropHead(pass)
    BY <2>3 DEF DropHead, Idle, FailureSeen
  <2>. QED
    BY <1>2, <2>1, <2>2, <2>3 DEF SkipNotification, CancelWarning, Commit, RollBack
<1>3. CASE \/ BeginRetry \/ StartNotification \/ (\E r \in pass.retries : Retry(r))
           \/ (\E r \in pass.unrecorded : RecordRetry(r))
  <2>1. pass'.failed = pass.failed /\ pass'.new = pass.new
    <3>1. CASE BeginRetry \/ StartNotification
      BY <3>1 DEF BeginRetry, StartNotification, TypeOK, PassSet
    <3>2. CASE \E r \in pass.retries : Retry(r)
      BY <3>2 DEF Retry, LeaveFailed, Expire, FailAgain, SendAgain, TypeOK, PassSet
    <3>3. CASE \E r \in pass.unrecorded : RecordRetry(r)
      BY <3>3 DEF RecordRetry, TypeOK, PassSet
    <3>. QED
      BY <1>3, <3>1, <3>2, <3>3
  <2>. QED
    BY <2>1 DEF FailureSeen
<1>4. ASSUME NEW p \in People, NEW c \in Channels, Deliver(p, c) PROVE FailureSeen'
  <2>1. CASE Defer(p, c) \/ AlreadyDelivered(p, c)
    <3>1. pass'.failed = pass.failed /\ pass'.new = pass.new
      BY <2>1 DEF Defer, AlreadyDelivered, TypeOK, PassSet
    <3>. QED
      BY <3>1 DEF FailureSeen
  <2>2. ASSUME NEW result \in {"sent", "failed", "skipped"}, Attempt(p, c, result)
        PROVE  FailureSeen'
    <3>. DEFINE row == Row(Head(pass.queue), p, c, result)
    <3>1. row.status = result
      BY DEF Row
    <3>2. pass' = [pass EXCEPT !.todo = @ \ {<<p, c>>}, !.new = @ \cup {row},
                               !.failed = @ \/ result = "failed"]
      BY <2>2 DEF Attempt
    <3>. HIDE DEF row
    <3>3. pass'.new = pass.new \cup {row} /\ (pass'.failed => pass.failed \/ result = "failed")
      BY <3>2 DEF TypeOK, PassSet
    <3>. QED
      BY <3>1, <3>3 DEF FailureSeen
  <2>. QED
    BY <1>4, <2>1, <2>2 DEF Deliver
<1>. QED
  BY <1>1, <1>2, <1>3, <1>4
     DEF Next, runNotificationDispatch, vars, Enqueue, cancelNotification, queueShiftChanges,
         BeginPlan, Tick

\* The dispatcher keeps what NotificationOutbox promises, for any notifications,
\* recipients, quiet hours and any number of crashes and rollbacks: at most one copy
\* per mishap, the first outside the quiet hours, and nothing settled that is not
\* delivered (dispatch.ts 78-337).
THEOREM DispatchImplementsOutbox == Spec => ImplementsOutbox
<1>1. Init => Outbox!Init
  BY DEF Init, Idle, Outbox!Init, Delivered, FailedTo
<1>2. TypeOK /\ TypeOK' /\ SendInv /\ SendInv' /\ FailureSeen /\ [Next]_vars
        => [Outbox!Next]_Outbox!outbox
  BY OutboxNext
<1>3. Init => FailureSeen
  BY DEF Init, Idle, FailureSeen
<1>4. TypeOK /\ FailureSeen /\ [Next]_vars => FailureSeen'
  BY FailureNext
<1>. QED
  BY <1>1, <1>2, <1>3, <1>4, TypeCorrect, SendSafety, PTL DEF Spec, ImplementsOutbox, Outbox!Spec
=============================================================================
