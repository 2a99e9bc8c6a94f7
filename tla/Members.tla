------------------------------ MODULE Members ------------------------------
(* Members, their accounts and positions: who holds permissions.manage,    *)
(* how a member leaves, and the guard of the last administrator.           *)
(*                                                                         *)
(* Source: src/server/utils/permissions.ts (SEC-24 guard), members.ts,     *)
(* memberLeaveDispatch.ts, positions.ts and userAccounts.ts with the routes*)
(* under api/auth, api/members, api/permissions and api/positions.         *)
(*                                                                         *)
(* One role, one position and one permission, permissions.manage.  A       *)
(* request is one transaction: Written(snap, cur, r) is what it makes of   *)
(* the rows cur when it has read snap.  What the actor may do is any       *)
(* choice of the request; registering only adds an account.  Removing a    *)
(* member from the subdivisions goes with the positions and is left out.   *)
(* Two assignments of one member with the same days are one row here.      *)
(*                                                                         *)
(* Days are numbers.  Requests and failed runs stop before MaxDay, which   *)
(* leaves the last day to the dispatcher; MaxRestarts bounds the restarts  *)
(* of that day.                                                            *)
(***************************************************************************)
EXTENDS Naturals, FiniteSets

CONSTANTS
  Users,      \* users.id
  People,     \* members.id
  NoUser,     \* account NULL
  Open,       \* until NULL
  Grants,     \* how an account may get the permission: "direct", "role"
  Dates,      \* the days the forms are filled in with
  Periods,    \* and the periods of assignments
  MaxDay,
  MaxRows,    \* assignments of one member
  MaxRestarts

ASSUME MembersAssumption ==
  /\ NoUser \notin Users /\ Open \notin Nat
  /\ Grants \subseteq {"direct", "role"}
  /\ MaxDay \in Nat \ {0} /\ Dates \subseteq 0 .. MaxDay /\ MaxRows \in Nat /\ MaxRestarts \in Nat
  /\ Periods \subseteq [since : Dates, until : Dates \cup {Open}]

VARIABLES
  db,       \* the tables
  today,    \* appTodayLocalDate()
  due,      \* the rows of the dispatcher's run that are still to be processed
  ran,      \* whether the dispatcher has begun its run of the day
  restarts  \* of the last day

vars == <<db, today, due, ran, restarts>>

Days == 0 .. MaxDay
Ends == Dates \cup {Open}

UserRow == [active : BOOLEAN, grants : SUBSET Grants]
\* Whether it is active, and whether it has the permission.
PositionRow == [active : BOOLEAN, manages : BOOLEAN]
\* status 'left' goes with left_at, which is Open for everybody else.
PersonRow == [account : Users \cup {NoUser}, left : Ends, skipped : BOOLEAN]
\* The forms refuse one that ends before it begins.
Assignment == {a \in [since : Dates, until : Ends] : a.until = Open \/ a.since <= a.until}

\* Two assignments of one position do not overlap.
Disjoint(a, b) ==
  \/ a.until # Open /\ a.until < b.since
  \/ b.until # Open /\ b.until < a.since

\* What the forms accept as assignments of one member: the rows that are sent are
\* compared with each other, not with the member's other rows.
Assignments ==
  {rows \in SUBSET (Periods \cap Assignment) :
     /\ Cardinality(rows) <= MaxRows
     /\ \A a, b \in rows : a # b => Disjoint(a, b)}

\* The assignments a form sends for each member, and the PUT without a list.
Lists == [People -> Assignments]
Omitted == [p \in {} |-> {}]

NotDue == [id \in {} |-> NoUser]

Init ==
  /\ \E admin \in Users, grant \in Grants :
       db = [users |-> [u \in Users |-> [active |-> TRUE,
                                         grants |-> IF u = admin THEN {grant} ELSE {}]],
             role |-> TRUE,
             position |-> [active |-> TRUE, manages |-> FALSE],
             people |-> [p \in People |-> [account |-> NoUser, left |-> Open,
                                           skipped |-> FALSE]],
             held |-> [p \in People |-> {}]]
  /\ today = 0 /\ due = NotDue /\ ran = FALSE /\ restarts = 0

-----------------------------------------------------------------------------
(* Who holds permissions.manage.                                           *)

Current(a, day) == a.since <= day /\ (a.until = Open \/ a.until >= day)

ManagesByPosition(d, day, u) ==
  /\ d.position.active /\ d.position.manages
  /\ \E p \in People : d.people[p].account = u /\ \E a \in d.held[p] : Current(a, day)

ManagesByRole(d, u) == "role" \in d.users[u].grants /\ d.role

Admins_inactiveToo(d, day) ==
  {u \in Users : \/ "direct" \in d.users[u].grants
                 \/ ManagesByRole(d, u)
                 \/ ManagesByPosition(d, day, u)}

\* countActivePermissionAdmins counts these.
Admins(d, day) ==
  {u \in Users : /\ d.users[u].active
                 /\ \/ "direct" \in d.users[u].grants
                    \/ ManagesByRole(d, u)
                    \/ ManagesByPosition(d, day, u)}

\* getUserPositionIds: whether the account holds the position.
HoldsPosition(d, day, u) ==
  d.position.active /\ \E p \in People : /\ d.people[p].account = u
                                         /\ \E a \in d.held[p] : Current(a, day)

\* getEffectivePermissions, asked about permissions.manage.
MayManage(d, day, u) ==
  \/ HoldsPosition(d, day, u) /\ d.position.manages
  \/ ManagesByRole(d, u)
  \/ "direct" \in d.users[u].grants

\* withLastAdminGuard, around a transaction that turns what it sees from one
\* into the other.
GuardAllows(before, after) == Admins(after, today) = {} => Admins(before, today) = {}

-----------------------------------------------------------------------------
(* Leaving.                                                                *)

ClosedAfter_alsoLater(rows, left) ==
  {IF a.until = Open \/ a.until > left THEN [a EXCEPT !.until = left] ELSE a : a \in rows}

\* closeMemberPositionsAfterLeftDate
ClosedAfter(rows, left) ==
  {IF a.until = Open \/ a.until > left THEN [a EXCEPT !.until = left] ELSE a :
     a \in {b \in rows : b.since <= left}}

\* applyMemberLeftStatusActions: the account is switched off where the transaction
\* has seen it active.
Left(snap, cur, p, account, left, deactivate) ==
  [cur EXCEPT
     !.users = [u \in Users |->
                  IF deactivate /\ u = account /\ snap.users[u].active
                  THEN [cur.users[u] EXCEPT !.active = FALSE] ELSE cur.users[u]],
     !.held[p] = ClosedAfter(@, left)]

-----------------------------------------------------------------------------
(* Requests.                                                               *)

\* The bound on the assignments that are sent to members whose own a save leaves alone.
Fits(d, owners, rows) ==
  \A p \in People \ owners : Cardinality(d.held[p] \cup rows[p]) <= MaxRows

\* auth/activate, and permissions/users.update, roles.save, roles.set_permissions and
\* positions.set_permissions.  An inactive role and one without the permission are
\* the same here.
AccessRequests ==
  [op : {"activate"}, user : Users, active : BOOLEAN]
  \cup [op : {"access"}, user : Users, grants : SUBSET Grants]
  \cup [op : {"role", "positionAccess"}, manages : BOOLEAN]

\* positions/activate, switching on or off; positions/save of this position, which
\* replaces everybody's assignments; and, with no owners, a save of another position or
\* member whose rows name this position and these members.  A row may come with the
\* id of any assignment its save has read, also one of another position: so it may
\* be given to an inactive position, which refuses rows without an id.
PositionRequests(d) ==
  [op : {"positionOn"}]
  \cup [op : {"positionOff"}, end : Ends, deleteFuture : BOOLEAN]
  \cup {r \in [op : {"assign"}, owners : {{}, People}, rows : Lists] :
          Fits(d, r.owners, r.rows)}

\* auth/link-member: the member must not belong to another account.
LinkRequests(d) ==
  [op : {"unlink"}, user : Users]
  \cup {r \in [op : {"link"}, user : Users, person : People] :
          d.people[r.person].account \in {NoUser, r.user}}

\* PUT members/:id, which leaves the assignments alone or replaces them, and may
\* carry assignments of other members; the account must not belong to one of them.
PutRequests(d) ==
  {r \in [op : {"put"}, person : People, account : Users \cup {NoUser}, left : Ends,
          rows : Lists \cup {Omitted}, mayDeactivate : BOOLEAN] :
     /\ \A q \in People \ {r.person} :
          r.account # NoUser => d.people[q].account # r.account
     /\ r.account = NoUser \/ r.left = Open => r.mayDeactivate
     /\ r.rows = Omitted \/ Fits(d, {r.person}, r.rows)}

Requests(d) == AccessRequests \cup PositionRequests(d) \cup LinkRequests(d) \cup PutRequests(d)

\* The routes that are wrapped in withLastAdminGuard.
Guarded(r) == r.op \notin {"positionOn", "link", "unlink"}

\* What a save makes of a collection: it removes and adds where the collection it
\* has read differs from the one it was sent.
Synced(snap, cur, incoming) == (cur \ (snap \ incoming)) \cup (incoming \ snap)

SetActive(cur, r) == [cur EXCEPT !.users[r.user].active = r.active]

SetAccess(snap, cur, r) ==
  [cur EXCEPT !.users[r.user].grants = Synced(snap.users[r.user].grants, @, r.grants)]

SetRole(cur, r) == [cur EXCEPT !.role = r.manages]

SetPositionAccess(cur, r) == [cur EXCEPT !.position.manages = r.manages]

\* toggleActiveRecord
SwitchOn(cur) == [cur EXCEPT !.position.active = TRUE]

\* Switching a position off closes the assignments it has read, or deletes the
\* future ones, where its form asks for it.
ClosedPosition(snap, cur, end, deleteFuture) ==
  LET cutoff == IF end = Open THEN today ELSE end
      Deleted(a) == deleteFuture /\ a.since > cutoff
      Closed(a) == end # Open /\ a.since <= end /\ (a.until = Open \/ a.until > end)
  IN {IF a \in snap /\ Closed(a) THEN [a EXCEPT !.until = end] ELSE a :
        a \in {b \in cur : ~(b \in snap /\ Deleted(b))}}

SwitchOff(snap, cur, r) ==
  [cur EXCEPT !.position.active = FALSE,
              !.held = [p \in People |-> ClosedPosition(snap.held[p], cur.held[p],
                                                        r.end, r.deleteFuture)]]

\* syncPositionAssignments: the assignments of the owners become the ones that were
\* sent, those sent for other members are inserted or moved to them.
Assign(snap, cur, owners, rows) ==
  [cur EXCEPT !.held = [p \in People |->
     IF p \in owners THEN Synced(snap.held[p], cur.held[p], rows[p])
     ELSE cur.held[p] \cup rows[p]]]

\* assignMemberToUser
Relinked(d, u, p) ==
  [d EXCEPT !.people = [q \in People |->
     IF q = p THEN [d.people[q] EXCEPT !.account = u]
     ELSE IF d.people[q].account = u THEN [d.people[q] EXCEPT !.account = NoUser]
     ELSE d.people[q]]]

\* isLeftDateDue, for a member who has not been marked as left before.
LeavesNow(snap, r) ==
  snap.people[r.person].left = Open /\ r.left # Open /\ r.left <= today

PutMember(snap, cur, r) ==
  LET updated == [cur EXCEPT !.people[r.person] =
                    [account |-> r.account, left |-> r.left,
                     skipped |-> r.left # Open /\ ~r.mayDeactivate]]
      saved == IF r.rows = Omitted THEN updated
               ELSE Assign(snap, updated, {r.person}, r.rows) IN
  IF LeavesNow(snap, r)
  THEN Left(snap, saved, r.person, r.account, r.left, r.mayDeactivate)
  ELSE saved

\* What a request makes of the rows cur when it has read snap.
Written(snap, cur, r) ==
  CASE r.op = "activate" -> SetActive(cur, r)
    [] r.op = "access" -> SetAccess(snap, cur, r)
    [] r.op = "role" -> SetRole(cur, r)
    [] r.op = "positionAccess" -> SetPositionAccess(cur, r)
    [] r.op = "positionOn" -> SwitchOn(cur)
    [] r.op = "positionOff" -> SwitchOff(snap, cur, r)
    [] r.op = "assign" -> Assign(snap, cur, r.owners, r.rows)
    [] r.op = "link" -> Relinked(cur, r.user, r.person)
    [] r.op = "unlink" -> Relinked(cur, r.user, NoUser)
    [] r.op = "put" -> PutMember(snap, cur, r)

Accepted(r, after) == Guarded(r) => GuardAllows(db, after)

Request(r) ==
  LET after == Written(db, db, r) IN
  /\ today < MaxDay
  /\ Accepted(r, after)
  /\ db' = after
  /\ UNCHANGED <<today, due, ran, restarts>>

\* uq_members_account
UniqueAccounts(d) ==
  \A p, q \in People : p # q /\ d.people[p].account = d.people[q].account
                       => d.people[p].account = NoUser

\* Two requests that have both read before either commits: each is checked against
\* what it has read and written itself.
OverlappingRequests(r, s) ==
  LET written == Written(db, Written(db, db, r), s) IN
  /\ today < MaxDay
  /\ Accepted(r, Written(db, db, r)) /\ Accepted(s, Written(db, db, s))
  /\ UniqueAccounts(written)
  /\ db' = written
  /\ UNCHANGED <<today, due, ran, restarts>>

-----------------------------------------------------------------------------
(* The dispatcher of leaving members: after a start and at every midnight. *)

Due_accountsOnly(p) ==
  LET row == db.people[p] IN
  /\ row.left # Open /\ row.left < today
  /\ row.account # NoUser /\ db.users[row.account].active

\* findDueMembers
Due(p) ==
  LET row == db.people[p] IN
  /\ row.left # Open /\ row.left < today
  /\ \/ row.account # NoUser /\ db.users[row.account].active
     \/ \E a \in db.held[p] : a.until = Open \/ a.until > row.left

FindDueMembers ==
  /\ ~ran /\ due = NotDue
  /\ ran' = TRUE
  /\ due' = [p \in {q \in People : Due(q)} |-> db.people[p]]
  /\ UNCHANGED <<db, today, restarts>>

\* account_deactivation_skipped: the editor was not allowed to switch it off.
Deactivates(row) == ~row.skipped

\* What the dispatcher makes of one row, as it was when it was read.
Dispatched(d, p, row) == Left(d, d, p, row.account, row.left, Deactivates(row))

Rest(p) == [q \in DOMAIN due \ {p} |-> due[q]]

\* One member, in a transaction of its own; the guard rolls it back.
DispatchLeave(p) ==
  /\ p \in DOMAIN due
  /\ db' = IF GuardAllows(db, Dispatched(db, p, due[p]))
           THEN Dispatched(db, p, due[p]) ELSE db
  /\ due' = Rest(p)
  /\ UNCHANGED <<today, ran, restarts>>

\* An error ends the run; a restart begins another one.
FailRun ==
  /\ today < MaxDay /\ DOMAIN due # {}
  /\ due' = NotDue
  /\ UNCHANGED <<db, today, ran, restarts>>

Restart ==
  /\ today = MaxDay => restarts < MaxRestarts
  /\ due' = NotDue /\ ran' = FALSE
  /\ restarts' = IF today = MaxDay THEN restarts + 1 ELSE restarts
  /\ UNCHANGED <<db, today>>

Midnight ==
  /\ today < MaxDay /\ due = NotDue
  /\ today' = today + 1 /\ ran' = FALSE
  /\ UNCHANGED <<db, due, restarts>>
-----------------------------------------------------------------------------
Dispatch == FindDueMembers \/ \E p \in People : DispatchLeave(p)

\* Requests one at a time, each of them at any point of the dispatcher's run.
Next ==
  \/ \E r \in Requests(db) : Request(r)
  \/ Dispatch
  \/ FailRun \/ Restart
  \/ Midnight

Spec == Init /\ [][Next]_vars

\* The process runs its timers, and time passes however often it restarts.
FairSpec == Spec /\ WF_vars(Dispatch) /\ SF_vars(Midnight)

\* Requests that overlap.
OverlapSpec ==
  Init /\ [][Next \/ \E r, s \in Requests(db) : OverlappingRequests(r, s)]_vars
-----------------------------------------------------------------------------
(* Properties.                                                             *)

\* The tables and the dispatcher's rows are well-formed; an account belongs to one
\* member (uq_members_account), and no form, closing or leaving makes an assignment
\* end before it begins (positions.ts, members.ts, positions/activate.post.ts).
TypeOK ==
  /\ db \in [users : [Users -> UserRow], role : BOOLEAN, position : PositionRow,
             people : [People -> PersonRow], held : [People -> SUBSET Assignment]]
  /\ UniqueAccounts(db)
  /\ today \in Days /\ ran \in BOOLEAN /\ restarts \in 0 .. MaxRestarts
  /\ DOMAIN due \subseteq People /\ \A p \in DOMAIN due : due[p] \in PersonRow

SomebodyManages(d, day) == \E u \in Users : d.users[u].active /\ MayManage(d, day, u)

\* Whatever is done to accounts, roles, positions and members, and whoever leaves,
\* somebody with an active account who may manage permissions remains
\* (withLastAdminGuard), as getEffectivePermissions sees it: only linking an account
\* to a member and the passing of days may take the last one away.
AdminRemains ==
  [][today' = today /\ SomebodyManages(db, today) /\ ~SomebodyManages(db', today)
     => \E u \in Users, p \in People \cup {NoUser} : db' = Relinked(db, u, p)]_vars

\* A member who has left and still has what leaving takes away.
Overdue(p) ==
  LET row == db.people[p] IN
  /\ row.left # Open /\ row.left < today
  /\ \/ row.account # NoUser /\ ~row.skipped /\ db.users[row.account].active
     \/ \E a \in db.held[p] : a.until = Open \/ a.until > row.left

\* Leaving takes effect, whoever edits members, accounts and positions while the
\* dispatcher works, and although its runs fail and the process restarts: once the
\* requests stop, nobody who has left keeps an account or an assignment, unless
\* that would take the last administrator away (runMemberLeaveDispatch).
LeavingTakesEffect ==
  \A p \in People :
    <>[](Overdue(p) => ~GuardAllows(db, Dispatched(db, p, db.people[p])))
=============================================================================
